---------------------------- MODULE EvidenceAudit ----------------------------
(***************************************************************************)
(* What an auditor gets to see of one evidence chain: the verification     *)
(* walks of the Control API and of the verify_chain tool, the signed       *)
(* anchors, and the export.                                                *)
(*                                                                         *)
(* Ingestion is the atomic step that EvidenceIngest implements.  Anchoring *)
(* and exporting run in READ COMMITTED transactions without locks: every   *)
(* statement sees what was committed when it started, so the statements of *)
(* one handler interleave with other handlers.  Stored rows may be forged, *)
(* inserted, renumbered and removed behind the API's back; the walks are   *)
(* there to tell.                                                          *)
(***************************************************************************)
EXTENDS Naturals, Sequences, FiniteSets, FiniteSetsExt, Functions

CONSTANTS
    Contents,       \* what an event says (the hashed fields other than ts)
    Escaped,        \* contents that verify_chain's encoder writes differently
    Stamps,         \* the fractions of a second events are stamped with
    Base,           \* of the digits of a fraction (10)
    Digits,         \* a gateway stamps with this many digits (9)
    StoredDigits,   \* the ts column keeps this many (6)
    Signers,        \* the executions of sign_anchor
    PageLimit,      \* the events verify_chain loads (5000)
    Genesis,        \* the prev_event_hash of a first row
    MaxRows,        \* bound: rows in the chain
    MaxDamage       \* bound: damages to stored rows

ASSUME AuditAssumption ==
    /\ Escaped \subseteq Contents
    /\ Base \in Nat \ {0, 1}
    /\ Digits \in Nat /\ StoredDigits \in 0 .. Digits
    /\ Stamps \subseteq 0 .. (Base ^ Digits - 1)
    /\ PageLimit \in Nat /\ MaxRows \in Nat /\ MaxDamage \in Nat

\* Arithmetic, not a choice: the proofs need of a power that it is a number and
\* not zero.
ASSUME PowersAssumption == \A n \in 0 .. Digits : Base ^ n \in Nat \ {0}

VARIABLES
    rows,       \* the stored rows, by chain_seq (which has a unique index)
    written,    \* history: the rows as ingestion stored them
    head,       \* the head row
    anchors,    \* the rows of chain_anchors
    signer,     \* signer[s]: where handler s is and what it has read
    export,     \* the export handler: where it is and what it has read
    damage      \* history: damages so far, for the bound

vars == <<rows, written, head, anchors, signer, export, damage>>

-----------------------------------------------------------------------------
(* Time stamps.  The text of a fraction is its value and how many digits    *)
(* are written.                                                             *)

\* time.RFC3339Nano: trailing zeros are not written.
GatewayText(f) ==
    [frac |-> f, digits |-> Min({d \in 0 .. Digits : f % Base ^ (Digits - d) = 0})]

\* _parse_ts and the ts column drop what lies below a microsecond.
Stored(f) == f \div Base ^ (Digits - StoredDigits)

\* datetime.isoformat of a stored time: no fraction, or all six digits.
IsoText(t) ==
    [frac   |-> t * Base ^ (Digits - StoredDigits),
     digits |-> IF t = 0 THEN 0 ELSE StoredDigits]

-----------------------------------------------------------------------------
(* Rows and the walks over them. *)

\* compute_event_hash: over the chain fields, ts as text.  (is_shadow is not one of
\* them and no row here has it: whoever edits it is not seen.)
EventHash(content, ts, seq, prev) == <<content, ts, seq, prev>>

\* Mutant of RowHash: the walk trusts the stored event_hash.
RowHashStored(n, r) == r.hash

\* ... of row n as _row_to_event reads it back.
RowHash(n, r) == EventHash(r.content, IsoText(r.ts), n, r.prev)

\* The hash that row n has to name.
PrevHash(table, n) == IF n = 1 THEN Genesis ELSE table[n - 1].hash

\* The walk of _verify_chain_impl, by chain_seq: a row is sound if no number is
\* missing before it, it names the hash of the one before it and has the hash that
\* is recomputed from it.  The walk stops at the first row that is not sound.
Sound(table, n) ==
    /\ n = 1 \/ n - 1 \in DOMAIN table
    /\ table[n].prev = PrevHash(table, n)
    /\ RowHash(n, table[n]) = table[n].hash

Verify(table) ==
    LET bad == {n \in DOMAIN table : ~Sound(table, n)} IN
    [ok |-> bad = {},
     checked |-> Cardinality({n \in DOMAIN table : \A b \in bad : n < b})]

\* Mutant of Page: without ORDER BY, the page starts anywhere.
PageUnordered(table) ==
    Restrict(table, {n \in DOMAIN table : Cardinality({m \in DOMAIN table : m > n}) < PageLimit})

\* GET /v1/evidence/events as verify_chain calls it: one page, oldest first.
Page(table) ==
    Restrict(table, {n \in DOMAIN table : Cardinality({m \in DOMAIN table : m < n}) < PageLimit})

\* The walk of verify_chain over its page.  It recomputes hashes with an encoder
\* of its own, which escapes <, > and & and writes small floats differently.
ToolOk(table) ==
    \A n \in DOMAIN Page(table) : Sound(Page(table), n) /\ Page(table)[n].content \notin Escaped

-----------------------------------------------------------------------------

Row(content, f, n, prev) ==
    [content |-> content, ts |-> Stored(f), prev |-> prev,
     hash |-> EventHash(content, GatewayText(f), n, prev)]

\* Row n is written, whether it was there or not.
With(table, n, r) == [m \in DOMAIN table \cup {n} |-> IF m = n THEN r ELSE table[m]]

Idle == [pc |-> "idle", seq |-> 0, hash |-> Genesis, start |-> 0]

NoExport == [pc |-> "events", events |-> {}, anchors |-> {}, checked |-> 0, ok |-> TRUE]

Windows == [start : 1 .. MaxRows, end : 1 .. MaxRows]

\* The times that a ts column can hold.
Times == 0 .. Base ^ StoredDigits - 1

TypeOK ==
    /\ \A table \in {rows, written} :
          /\ DOMAIN table \subseteq 1 .. MaxRows
          /\ \A n \in DOMAIN table :
                table[n].content \in Contents /\ table[n].ts \in Nat
    /\ head.seq \in 0 .. MaxRows
    /\ \A a \in anchors : [start |-> a.start, end |-> a.end] \in Windows
    /\ \A s \in Signers : signer[s].pc \in {"idle", "prev", "insert", "signed", "refused"}
    /\ export.pc \in {"events", "anchors", "verify", "done"}
    /\ export.anchors \subseteq anchors
    /\ damage \in 0 .. MaxDamage

Init ==
    /\ rows = <<>> /\ written = <<>>
    /\ head = [seq |-> 0, hash |-> Genesis]
    /\ anchors = {}
    /\ signer = [s \in Signers |-> Idle]
    /\ export = NoExport
    /\ damage = 0

-----------------------------------------------------------------------------

\* Mutant of Ingest: the row is numbered before the head is advanced.
IngestStaleSeq(content, f) ==
    /\ head.seq < MaxRows /\ head.seq \notin DOMAIN rows
    /\ LET r == Row(content, f, head.seq, head.hash) IN
          /\ rows' = With(rows, head.seq, r)
          /\ written' = With(written, head.seq, r)
          /\ head' = [seq |-> head.seq + 1, hash |-> r.hash]
    /\ UNCHANGED <<anchors, signer, export, damage>>

\* Mutant of Ingest: the head does not take the new event_hash.
IngestStaleHash(content, f) ==
    /\ head.seq < MaxRows /\ head.seq + 1 \notin DOMAIN rows
    /\ LET r == Row(content, f, head.seq + 1, head.hash) IN
          /\ rows' = With(rows, head.seq + 1, r)
          /\ written' = With(written, head.seq + 1, r)
          /\ head' = [seq |-> head.seq + 1, hash |-> head.hash]
    /\ UNCHANGED <<anchors, signer, export, damage>>

\* Ingestion of one event, with the time stamp a gateway gave it.  The unique index
\* refuses it if its number is taken.
Ingest(content, f) ==
    /\ head.seq < MaxRows /\ head.seq + 1 \notin DOMAIN rows
    /\ LET r == Row(content, f, head.seq + 1, head.hash) IN
          /\ rows' = With(rows, head.seq + 1, r)
          /\ written' = With(written, head.seq + 1, r)
          /\ head' = [seq |-> head.seq + 1, hash |-> r.hash]
    /\ UNCHANGED <<anchors, signer, export, damage>>

\* The hashes to be found in a table, and where a chain begins.
HashesOf(table) == {Genesis} \cup {table[n].hash : n \in DOMAIN table}

\* A row is forged: rewritten in any of its columns, or inserted where there was
\* none.  Its hashes are those of other rows, now or before, or the one that makes
\* it sound.  (No other value could make a walk accept a row.)
Forge(n) ==
    \E content \in Contents, t \in Times,
       prev \in HashesOf(rows) \cup HashesOf(written) :
       \E hash \in HashesOf(rows) \cup HashesOf(written)
                   \cup {EventHash(content, IsoText(t), n, prev)} :
          rows' = With(rows, n, [content |-> content, ts |-> t, prev |-> prev, hash |-> hash])

\* A row disappears.
Lose(n) == rows' = Restrict(rows, DOMAIN rows \ {n})

\* A row is given another number, with all that is in it.
Renumber(n, m) == rows' = With(Restrict(rows, DOMAIN rows \ {n}), m, rows[n])

\* The table is changed behind the API's back, in any way: each of these is a
\* change to one row, and there may be any number of them.
Damage ==
    /\ damage < MaxDamage
    /\ damage' = damage + 1
    /\ \/ \E n \in 1 .. MaxRows : Forge(n)
       \/ \E n \in DOMAIN rows : Lose(n)
       \/ \E n \in DOMAIN rows : \E m \in 1 .. MaxRows \ DOMAIN rows : Renumber(n, m)
    /\ UNCHANGED <<written, head, anchors, signer, export>>

-----------------------------------------------------------------------------
(* sign_anchor, statement by statement. *)

\* The head row; 404 if there is no event yet.
ReadHead(s) ==
    /\ signer[s].pc = "idle"
    /\ signer' = [signer EXCEPT ![s] =
          [Idle EXCEPT !.pc = IF head.seq = 0 THEN "refused" ELSE "prev",
                       !.seq = head.seq, !.hash = head.hash]]
    /\ UNCHANGED <<rows, written, head, anchors, export, damage>>

\* Mutant of FirstUnanchored: the first anchor starts at row 2.
FirstUnanchoredSkipping ==
    IF anchors = {} THEN 2 ELSE Max({a.end : a \in anchors}) + 1

FirstUnanchored == IF anchors = {} THEN 1 ELSE Max({a.end : a \in anchors}) + 1

\* The last anchor; 409 if the head has not advanced since.
ReadPrev(s) ==
    /\ signer[s].pc = "prev"
    /\ signer' = [signer EXCEPT
          ![s].pc = IF signer[s].seq < FirstUnanchored THEN "refused" ELSE "insert",
          ![s].start = FirstUnanchored]
    /\ UNCHANGED <<rows, written, head, anchors, export, damage>>

\* The new anchor, signed over what was read; its key is the time it was made.
Insert(s) ==
    /\ signer[s].pc = "insert"
    /\ anchors' = anchors \cup
          {[start |-> signer[s].start, end |-> signer[s].seq, hash |-> signer[s].hash, by |-> s]}
    /\ signer' = [signer EXCEPT ![s].pc = "signed"]
    /\ UNCHANGED <<rows, written, head, export, damage>>

-----------------------------------------------------------------------------
(* export_bundle, statement by statement: events, anchors, verification. *)

ExportEvents ==
    /\ export.pc = "events"
    /\ export' = [export EXCEPT !.pc = "anchors", !.events = DOMAIN rows]
    /\ UNCHANGED <<rows, written, head, anchors, signer, damage>>

ExportAnchors ==
    /\ export.pc = "anchors"
    /\ export' = [export EXCEPT !.pc = "verify", !.anchors = anchors]
    /\ UNCHANGED <<rows, written, head, anchors, signer, damage>>

\* Mutant of ExportVerify: the verification covers the exported events only.
ExportVerifyEvents ==
    /\ export.pc = "verify"
    /\ LET report == Verify(Restrict(rows, DOMAIN rows \cap export.events)) IN
          export' = [export EXCEPT !.pc = "done", !.ok = report.ok, !.checked = report.checked]
    /\ UNCHANGED <<rows, written, head, anchors, signer, damage>>

ExportVerify ==
    /\ export.pc = "verify"
    /\ LET report == Verify(rows) IN
          export' = [export EXCEPT !.pc = "done", !.ok = report.ok, !.checked = report.checked]
    /\ UNCHANGED <<rows, written, head, anchors, signer, damage>>

-----------------------------------------------------------------------------

Next ==
    \/ \E content \in Contents, f \in Stamps : Ingest(content, f)
    \/ Damage
    \/ \E s \in Signers : ReadHead(s) \/ ReadPrev(s) \/ Insert(s)
    \/ ExportEvents \/ ExportAnchors \/ ExportVerify

Spec == Init /\ [][Next]_vars

-----------------------------------------------------------------------------
(* Properties. *)

\* What row n says, as far as it is hashed.
Says(table, n) == [content |-> table[n].content, ts |-> table[n].ts]

\* The chain vouches for what is below a hash that an auditor knows, say from an
\* anchor or from the answer to an ingestion.  Whatever rows were rewritten,
\* inserted, renumbered or removed, their hashes included, before, between or after
\* ingestions: if the chain verifies and row n has the hash it was written with,
\* then rows 1 to n are all there and say what was written.
VerifiedIsWritten ==
    Verify(rows).ok =>
        \A n \in DOMAIN rows \cap DOMAIN written :
            rows[n].hash = written[n].hash =>
                \A i \in 1 .. n : i \in DOMAIN rows /\ Says(rows, i) = Says(written, i)

\* A chain nobody touched verifies, provided the time stamps of its events read
\* back from the ts column as the text that was hashed on ingest.
ReadableStampsVerify ==
    rows = written /\ (\A n \in DOMAIN rows : RowHash(n, rows[n])[2] = rows[n].hash[2])
        => Verify(rows).ok

\* verify_chain raises no alarm the Control API would not raise, also when the
\* chain is longer than the page it loads, unless the page holds an event that
\* its encoder writes differently.
ToolAgrees ==
    Verify(rows).ok /\ (\A n \in DOMAIN Page(rows) : Page(rows)[n].content \notin Escaped)
        => ToolOk(rows)

\* However concurrent sign_anchor calls interleave with each other and with
\* ingestion, no row up to the last anchored one is left out of the anchors.
AnchorsCover ==
    \A a \in anchors : \A n \in 1 .. a.end :
        \E b \in anchors : n \in b.start .. b.end

\* An anchor signs the hash of the very row it ends with.
AnchorNamesRow == \A a \in anchors : a.hash = written[a.end].hash

\* The three reads of an export are of different moments, in an order that
\* makes its verification cover every anchor it contains: as long as nothing was
\* damaged, an export never shows an anchor beyond the rows it reports as checked.
ExportCoversAnchors ==
    export.pc = "done" /\ export.ok /\ damage = 0
        => \A a \in export.anchors : a.end <= export.checked
=============================================================================
