--------------------------- MODULE PolicyLifecycle ---------------------------
(***************************************************************************)
(* The policy registry of the Control API: how a version of a policy is    *)
(* created, submitted, approved, rejected, revoked, or proposed by the     *)
(* automation plane.                                                       *)
(*                                                                         *)
(* Every request is one READ COMMITTED transaction: the handler reads the  *)
(* version's row, decides, writes the columns it changed and an audit row, *)
(* and commits.  The row is not locked between the read and the write, and *)
(* the handlers run in the threads of several workers: what a handler      *)
(* decided on may have changed when its write commits.                     *)
(***************************************************************************)
EXTENDS Naturals, FiniteSets

CONSTANTS
    Versions,   \* the policy versions, identified by policy_id and version
    PolicyOf,   \* PolicyOf[v]: the policy_id of version v
    Principals, \* who calls the API: a subject in a role
    SubjectOf,  \* SubjectOf[p]: the subject of principal p
    RoleOf,     \* RoleOf[p]: the role of principal p
    Proposals,  \* the pairs of origin and change_class that proposals come with
    AutoRule,   \* the subject "system:AA-1" that auto-approval is stamped with
    Nobody,     \* approved_by of a version that was never approved
    Requests,   \* bound: the operations that clients call, on which versions
    Workers,    \* the threads that run handlers
    MaxTime     \* bound: the time

Roles == {"viewer", "author", "reviewer", "approver", "admin", "service"}

Operations == {"create", "propose", "submit", "approve", "reject", "revoke"}

Subjects == {SubjectOf[p] : p \in Principals}

Origins == {"manual", "feed", "synthesizer", "autotuner"}

ChangeClasses == {"monotonic_add", "other"}

ASSUME LifecycleAssumption ==
    /\ IsFiniteSet(Versions)
    /\ SubjectOf \in [Principals -> Subjects]
    /\ RoleOf \in [Principals -> Roles]
    /\ Proposals \subseteq Origins \X ChangeClasses
    /\ AutoRule \notin Subjects /\ Nobody \notin Subjects /\ AutoRule # Nobody
    /\ Requests \subseteq Operations \X Versions
    /\ MaxTime \in Nat

VARIABLES
    row,        \* row[v]: the committed row of version v in table policies
    audit,      \* the entries of table policy_audit
    worker,     \* worker[w]: the request thread w executes and what it read
    clock       \* the time of the last stamp

lifecycleVars == <<row, audit, worker, clock>>

-----------------------------------------------------------------------------
(* Rows.  Of the document only metadata.status matters: it is what the API  *)
(* writes into a document that was hashed before.                           *)

Statuses == {"draft", "in_review", "approved", "deprecated", "revoked"}

Approvers == Subjects \cup {AutoRule, Nobody}

NoRow == [exists |-> FALSE, status |-> "draft", origin |-> "manual", change |-> "other",
          author |-> Nobody, approver |-> Nobody, at |-> 0, doc |-> "draft", hashed |-> "draft"]

Rows ==
    [exists : BOOLEAN, status : Statuses, origin : Origins, change : ChangeClasses,
     author : Subjects \cup {Nobody}, approver : Approvers, at : 0 .. MaxTime,
     doc : Statuses, hashed : Statuses]

\* _insert_policy: the document is stamped "draft" and then hashed.
NewRow(author, origin, change) ==
    [NoRow EXCEPT !.exists = TRUE, !.author = author, !.origin = origin, !.change = change]

\* The gateway recomputes document_hash from the document.
DocIntact(r) == r.doc = r.hashed

Actions == {"created", "submitted", "approved", "rejected", "revoked"}

Entry(v, action, actor) == [v |-> v, action |-> action, actor |-> actor]

\* require_role: an admin may do everything.
Authorized(op) ==
    {"admin"} \cup
    CASE op = "create"  -> {"author"}
      [] op = "propose" -> {"service"}
      [] op = "submit"  -> {"author"}
      [] op = "approve" -> {"approver"}
      [] op = "reject"  -> {"reviewer", "approver"}
      [] op = "revoke"  -> {"approver"}

Calls(p, op, v) == <<op, v>> \in Requests /\ RoleOf[p] \in Authorized(op)

\* _AUTO_APPROVAL_RULES.
AutoApproved(origin, change) == origin = "feed" /\ change = "monotonic_add"

IdleWorker == [op |-> "none", by |-> Nobody, v |-> Nobody, origin |-> "manual",
               change |-> "other", at |-> 0]

-----------------------------------------------------------------------------

LifecycleTypeOK ==
    /\ row \in [Versions -> Rows]
    /\ audit \subseteq [v : Versions, action : Actions, actor : Subjects \cup {AutoRule}]
    /\ worker \in [Workers ->
          [op : Operations \cup {"none"}, by : Subjects \cup {Nobody},
           v : Versions \cup {Nobody}, origin : Origins, change : ChangeClasses,
           at : 0 .. MaxTime]]
    /\ clock \in 0 .. MaxTime

LifecycleInit ==
    /\ row = [v \in Versions |-> NoRow]
    /\ audit = {}
    /\ worker = [w \in Workers |-> IdleWorker]
    /\ clock = 0

-----------------------------------------------------------------------------
(* The first half of a handler: the role check, the SELECT of the row and   *)
(* the checks on it.  A request that fails one is answered and changes      *)
(* nothing.                                                                 *)

Serve(w, op, p, v) ==
    /\ worker[w].op = "none"
    /\ Calls(p, op, v)
    /\ worker' = [worker EXCEPT ![w] = [IdleWorker EXCEPT !.op = op, !.by = SubjectOf[p], !.v = v]]
    /\ UNCHANGED <<row, audit>>

\* datetime.now: two stamps may be equal, a later one is not smaller.
Now == clock' \in clock .. MaxTime

BeginCreate(w, p, v) ==
    /\ ~row[v].exists
    /\ Serve(w, "create", p, v)
    /\ UNCHANGED clock

\* A proposal cannot claim origin manual.  The time stamp of an auto-approval is
\* taken by the handler, before the commit.
BeginPropose(w, p, v, origin, change) ==
    /\ worker[w].op = "none"
    /\ Calls(p, "propose", v)
    /\ origin # "manual"
    /\ ~row[v].exists
    /\ Now
    /\ worker' = [worker EXCEPT ![w] =
          [op |-> "propose", by |-> SubjectOf[p], v |-> v, origin |-> origin,
           change |-> change, at |-> clock']]
    /\ UNCHANGED <<row, audit>>

BeginSubmit(w, p, v) ==
    /\ row[v].exists /\ row[v].status = "draft"
    /\ Serve(w, "submit", p, v)
    /\ UNCHANGED clock

\* Mutant of BeginApprove: the author's own approval is not refused.
BeginApproveOwn(w, p, v) ==
    /\ worker[w].op = "none"
    /\ Calls(p, "approve", v)
    /\ row[v].exists /\ row[v].status = "in_review"
    /\ Now
    /\ worker' = [worker EXCEPT ![w] =
          [IdleWorker EXCEPT !.op = "approve", !.by = SubjectOf[p], !.v = v, !.at = clock']]
    /\ UNCHANGED <<row, audit>>

\* Separation of duty: only an admin may approve what they created.
BeginApprove(w, p, v) ==
    /\ worker[w].op = "none"
    /\ Calls(p, "approve", v)
    /\ row[v].exists /\ row[v].status = "in_review"
    /\ row[v].author # SubjectOf[p] \/ RoleOf[p] = "admin"
    /\ Now
    /\ worker' = [worker EXCEPT ![w] =
          [IdleWorker EXCEPT !.op = "approve", !.by = SubjectOf[p], !.v = v, !.at = clock']]
    /\ UNCHANGED <<row, audit>>

BeginReject(w, p, v) ==
    /\ row[v].exists /\ row[v].status = "in_review"
    /\ Serve(w, "reject", p, v)
    /\ UNCHANGED clock

BeginRevoke(w, p, v) ==
    /\ row[v].exists /\ row[v].status \in {"approved", "deprecated"}
    /\ Serve(w, "revoke", p, v)
    /\ UNCHANGED clock

-----------------------------------------------------------------------------
(* The second half: the UPDATE or INSERT, the audit entry and the commit.   *)

Finish(w) == worker' = [worker EXCEPT ![w] = IdleWorker]

\* The primary key refuses a second row for the version: the request fails.
InsertConflict(w) ==
    /\ worker[w].op \in {"create", "propose"}
    /\ row[worker[w].v].exists
    /\ Finish(w)
    /\ UNCHANGED <<row, audit, clock>>

Create(w) ==
    LET q == worker[w] IN
    /\ q.op = "create"
    /\ ~row[q.v].exists
    /\ row' = [row EXCEPT ![q.v] = NewRow(q.by, "manual", "other")]
    /\ audit' = audit \cup {Entry(q.v, "created", q.by)}
    /\ Finish(w)
    /\ UNCHANGED clock

\* Auto-approval stamps the document after its hash was taken, and before the
\* row is inserted.
Propose(w) ==
    LET q == worker[w] IN
    /\ q.op = "propose"
    /\ ~row[q.v].exists
    /\ IF AutoApproved(q.origin, q.change)
       THEN /\ row' = [row EXCEPT ![q.v] =
                  [NewRow(q.by, q.origin, q.change) EXCEPT
                      !.status = "approved", !.approver = AutoRule, !.at = q.at,
                      !.doc = "approved"]]
            /\ audit' = audit \cup {Entry(q.v, "created", q.by), Entry(q.v, "approved", AutoRule)}
       ELSE /\ row' = [row EXCEPT ![q.v] = NewRow(q.by, q.origin, q.change)]
            /\ audit' = audit \cup {Entry(q.v, "created", q.by)}
    /\ Finish(w)
    /\ UNCHANGED clock

\* Mutant of Submit: the name of the audit action is written as the status.
SubmitActionAsStatus(w) ==
    LET q == worker[w] IN
    /\ q.op = "submit"
    /\ row' = [row EXCEPT ![q.v].status = "submitted"]
    /\ audit' = audit \cup {Entry(q.v, "submitted", q.by)}
    /\ Finish(w)
    /\ UNCHANGED clock

Submit(w) ==
    LET q == worker[w] IN
    /\ q.op = "submit"
    /\ row' = [row EXCEPT ![q.v].status = "in_review"]
    /\ audit' = audit \cup {Entry(q.v, "submitted", q.by)}
    /\ Finish(w)
    /\ UNCHANGED clock

\* Mutant of Approve: the stamped document is written back.
ApproveStampingDocument(w) ==
    LET q == worker[w] IN
    /\ q.op = "approve"
    /\ row' = [row EXCEPT ![q.v].status = "approved", ![q.v].approver = q.by,
                          ![q.v].at = q.at, ![q.v].doc = "approved"]
    /\ audit' = audit \cup {Entry(q.v, "approved", q.by)}
    /\ Finish(w)
    /\ UNCHANGED clock

\* The handlers also stamp the document they loaded, in place; the JSONB column
\* does not track that, so the UPDATE leaves the stored document alone.
Approve(w) ==
    LET q == worker[w] IN
    /\ q.op = "approve"
    /\ row' = [row EXCEPT ![q.v].status = "approved", ![q.v].approver = q.by, ![q.v].at = q.at]
    /\ audit' = audit \cup {Entry(q.v, "approved", q.by)}
    /\ Finish(w)
    /\ UNCHANGED clock

Reject(w) ==
    LET q == worker[w] IN
    /\ q.op = "reject"
    /\ row' = [row EXCEPT ![q.v].status = "draft"]
    /\ audit' = audit \cup {Entry(q.v, "rejected", q.by)}
    /\ Finish(w)
    /\ UNCHANGED clock

Revoke(w) ==
    LET q == worker[w] IN
    /\ q.op = "revoke"
    /\ row' = [row EXCEPT ![q.v].status = "revoked"]
    /\ audit' = audit \cup {Entry(q.v, "revoked", q.by)}
    /\ Finish(w)
    /\ UNCHANGED clock

\* The worker or its database connection dies: nothing was committed.
Abandon(w) ==
    /\ worker[w].op # "none"
    /\ Finish(w)
    /\ UNCHANGED <<row, audit, clock>>

-----------------------------------------------------------------------------

Begin(w, p, v) ==
    \/ BeginCreate(w, p, v)
    \/ \E q \in Proposals : BeginPropose(w, p, v, q[1], q[2])
    \/ BeginSubmit(w, p, v)
    \/ BeginApprove(w, p, v)
    \/ BeginReject(w, p, v)
    \/ BeginRevoke(w, p, v)

End(w) ==
    \/ InsertConflict(w)
    \/ Create(w)
    \/ Propose(w)
    \/ Submit(w)
    \/ Approve(w)
    \/ Reject(w)
    \/ Revoke(w)
    \/ Abandon(w)

LifecycleNext ==
    \E w \in Workers :
        \/ \E p \in Principals, v \in Versions : Begin(w, p, v)
        \/ End(w)

LifecycleSpec == LifecycleInit /\ [][LifecycleNext]_lifecycleVars

-----------------------------------------------------------------------------
(* Properties. *)

MayApprove(s) == \E p \in Principals : SubjectOf[p] = s /\ RoleOf[p] \in Authorized("approve")

IsAdmin(s) == \E p \in Principals : SubjectOf[p] = s /\ RoleOf[p] = "admin"

\* Invariant I3 and separation of duty, through every race of handlers: an
\* approved version came through the workflow.  Either rule AA-1 applied to it,
\* or somebody submitted it for review and somebody who may approve, and is not
\* its author unless an admin, approved it; and the audit table says so.
ApprovedByWorkflow ==
    \A v \in Versions : row[v].status = "approved" =>
        /\ Entry(v, "approved", row[v].approver) \in audit
        /\ \/ row[v].approver = AutoRule /\ AutoApproved(row[v].origin, row[v].change)
           \/ /\ MayApprove(row[v].approver)
              /\ row[v].approver # row[v].author \/ IsAdmin(row[v].approver)
              /\ \E s \in Subjects : Entry(v, "submitted", s) \in audit

\* Documents are append-only: once a version is in the registry, its document,
\* the hash of the document and its author stay what they are.
DocumentImmutable ==
    [][\A v \in Versions : row[v].exists =>
          /\ row'[v].exists
          /\ row'[v].doc = row[v].doc /\ row'[v].hashed = row[v].hashed
          /\ row'[v].author = row[v].author]_row
=============================================================================
