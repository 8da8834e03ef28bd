------------------------ MODULE PolicyLifecycle_proofs ------------------------
(***************************************************************************)
(* Proofs about PolicyLifecycle for any set of versions, principals,       *)
(* workers and proposals: type correctness, approval through the workflow  *)
(* with separation of duty, and immutable documents.                       *)
(*                                                                         *)
(* The handlers do not lock what they read.  The properties hold all the   *)
(* same because what an approval rests on is never taken back: a row, once *)
(* inserted, stays and keeps its author, and the audit table only grows.   *)
(***************************************************************************)
EXTENDS PolicyLifecycle, TLAPS

Submitted(v) == \E s \in Subjects : Entry(v, "submitted", s) \in audit

\* A version that waits for review was submitted.
ReviewedWasSubmitted ==
    \A v \in Versions :
        /\ row[v].status = "in_review" => Submitted(v)
        /\ ~row[v].exists => row[v].status = "draft"

\* What the handler of request q has checked, as far as nobody can take it back.
Checked(q) ==
    /\ q.v \in Versions /\ q.by \in Subjects
    /\ q.op \in {"submit", "approve", "reject", "revoke"} => row[q.v].exists
    /\ q.op = "approve" =>
          /\ MayApprove(q.by)
          /\ q.by # row[q.v].author \/ IsAdmin(q.by)
          /\ Submitted(q.v)

\* What a handler has checked still holds when the handler writes.
StillTrue == \A w \in Workers : worker[w].op # "none" => Checked(worker[w])

\* The inductive invariant.
LifecycleInv ==
    LifecycleTypeOK /\ ReviewedWasSubmitted /\ StillTrue /\ ApprovedByWorkflow

-----------------------------------------------------------------------------

\* An empty registry satisfies the invariant.
LEMMA LifecycleInvInit == LifecycleInit => LifecycleInv
<1>. SUFFICES ASSUME LifecycleInit PROVE LifecycleInv
    OBVIOUS
<1>1. NoRow \in Rows
    BY LifecycleAssumption DEF NoRow, Rows, Statuses, Origins, ChangeClasses, Approvers
<1>2. IdleWorker \in [op : Operations \cup {"none"}, by : Subjects \cup {Nobody},
                      v : Versions \cup {Nobody}, origin : Origins, change : ChangeClasses,
                      at : 0 .. MaxTime]
    BY LifecycleAssumption DEF IdleWorker, Origins, ChangeClasses
<1>3. LifecycleTypeOK
    BY <1>1, <1>2, LifecycleAssumption DEF LifecycleInit, LifecycleTypeOK
<1>4. ReviewedWasSubmitted /\ ApprovedByWorkflow
    BY DEF LifecycleInit, ReviewedWasSubmitted, ApprovedByWorkflow, NoRow
<1>5. StillTrue
    BY DEF LifecycleInit, StillTrue, IdleWorker
<1>. QED BY <1>3, <1>4, <1>5 DEF LifecycleInv

\* A handler starts: it has read a row, and writes nothing.
LEMMA BeginStep ==
    ASSUME LifecycleInv,
           NEW w \in Workers, NEW q, worker' = [worker EXCEPT ![w] = q],
           q \in [op : Operations \cup {"none"}, by : Subjects \cup {Nobody},
                  v : Versions \cup {Nobody}, origin : Origins, change : ChangeClasses,
                  at : 0 .. MaxTime],
           q.op # "none" => Checked(q),
           row' = row, audit' = audit, clock' \in 0 .. MaxTime
    PROVE  LifecycleInv'
<1>1. LifecycleTypeOK'
    BY DEF LifecycleInv, LifecycleTypeOK
<1>2. ReviewedWasSubmitted' /\ ApprovedByWorkflow'
    BY DEF LifecycleInv, ReviewedWasSubmitted, ApprovedByWorkflow, Submitted
<1>3. StillTrue'
  <2>1. \A u \in Workers : worker'[u] = IF u = w THEN q ELSE worker[u]
      BY DEF LifecycleInv, LifecycleTypeOK
  <2>2. \A u \in Workers : worker'[u].op # "none" => Checked(worker'[u])
      BY <2>1 DEF LifecycleInv, StillTrue
  <2>. QED BY <2>2 DEF StillTrue, Checked, Submitted
<1>. QED BY <1>1, <1>2, <1>3 DEF LifecycleInv

\* A handler commits a row that keeps what the version had and for which the
\* audit table has the entries it needs.
LEMMA WriteStep ==
    ASSUME LifecycleInv,
           NEW w \in Workers, worker' = [worker EXCEPT ![w] = IdleWorker],
           NEW v \in Versions, NEW new \in Rows, row' = [row EXCEPT ![v] = new],
           audit \subseteq audit',
           audit' \subseteq [v : Versions, action : Actions, actor : Subjects \cup {AutoRule}],
           clock' = clock,
           new.exists, row[v].exists => new.author = row[v].author,
           new.status = "in_review" => \E s \in Subjects : Entry(v, "submitted", s) \in audit',
           new.status = "approved" =>
              /\ Entry(v, "approved", new.approver) \in audit'
              /\ \/ new.approver = AutoRule /\ AutoApproved(new.origin, new.change)
                 \/ /\ MayApprove(new.approver)
                    /\ new.approver # new.author \/ IsAdmin(new.approver)
                    /\ \E s \in Subjects : Entry(v, "submitted", s) \in audit'
    PROVE  LifecycleInv'
<1>0. LifecycleTypeOK /\ ReviewedWasSubmitted /\ StillTrue /\ ApprovedByWorkflow
    BY DEF LifecycleInv
<1>1. \A u \in Versions : row'[u] = IF u = v THEN new ELSE row[u]
    BY <1>0 DEF LifecycleTypeOK
<1>2. \A u \in Versions : Submitted(u) => Submitted(u)'
    BY DEF Submitted
<1>3. \A u \in Workers : worker'[u] = IF u = w THEN IdleWorker ELSE worker[u]
    BY <1>0 DEF LifecycleTypeOK
<1>4. LifecycleTypeOK'
  <2>1. IdleWorker \in [op : Operations \cup {"none"}, by : Subjects \cup {Nobody},
                        v : Versions \cup {Nobody}, origin : Origins, change : ChangeClasses,
                        at : 0 .. MaxTime]
      BY LifecycleAssumption DEF IdleWorker, Origins, ChangeClasses
  <2>. QED BY <1>0, <2>1 DEF LifecycleTypeOK
<1>5. ReviewedWasSubmitted'
    BY <1>0, <1>1, <1>2 DEF ReviewedWasSubmitted, Submitted
<1>6. ApprovedByWorkflow'
    BY <1>0, <1>1 DEF ApprovedByWorkflow
<1>7. StillTrue'
  <2>1. ASSUME NEW q, Checked(q)
        PROVE  /\ q.op \in {"submit", "approve", "reject", "revoke"} => row'[q.v].exists
               /\ q.op = "approve" => q.by # row'[q.v].author \/ IsAdmin(q.by)
               /\ q.op = "approve" => Submitted(q.v)'
      BY <1>1, <1>2, <2>1 DEF Checked
  <2>2. \A u \in Workers : worker'[u].op # "none" => worker'[u] = worker[u] /\ Checked(worker[u])
      BY <1>0, <1>3 DEF StillTrue, IdleWorker
  <2>. QED BY <2>1, <2>2 DEF StillTrue, Checked, Submitted
<1>. QED BY <1>4, <1>5, <1>6, <1>7 DEF LifecycleInv

-----------------------------------------------------------------------------
(* The two halves of the handlers. *)

Notes == [op : Operations \cup {"none"}, by : Subjects \cup {Nobody}, v : Versions \cup {Nobody},
          origin : Origins, change : ChangeClasses, at : 0 .. MaxTime]

\* What a handler keeps of a request, without and with a time stamp.
Noted(op, s, v) == [IdleWorker EXCEPT !.op = op, !.by = s, !.v = v]
NotedAt(op, s, v, at) == [IdleWorker EXCEPT !.op = op, !.by = s, !.v = v, !.at = at]

\* These notes are well typed.
LEMMA NotesType ==
    ASSUME NEW op \in Operations, NEW s \in Subjects, NEW v \in Versions, NEW at \in 0 .. MaxTime
    PROVE  /\ Noted(op, s, v) \in Notes
           /\ Noted(op, s, v).op = op /\ Noted(op, s, v).by = s /\ Noted(op, s, v).v = v
           /\ NotedAt(op, s, v, at) \in Notes /\ NotedAt(op, s, v, at).op = op
           /\ NotedAt(op, s, v, at).by = s /\ NotedAt(op, s, v, at).v = v
<1>1. IdleWorker \in Notes
    BY LifecycleAssumption DEF IdleWorker, Notes, Origins, ChangeClasses
<1>. QED BY <1>1 DEF Notes, Noted, NotedAt

\* New rows are well typed drafts.
LEMMA NewRowType ==
    ASSUME NEW s \in Subjects, NEW origin \in Origins, NEW change \in ChangeClasses
    PROVE  /\ NewRow(s, origin, change) \in Rows
           /\ NewRow(s, origin, change).exists
           /\ NewRow(s, origin, change).status = "draft"
<1>1. NoRow \in Rows /\ NoRow.status = "draft"
    BY LifecycleAssumption DEF NoRow, Rows, Statuses, Origins, ChangeClasses, Approvers
<1>. QED BY <1>1 DEF NewRow, Rows

\* A row as it is approved.
ApprovedRow(r, s, at, doc) ==
    [r EXCEPT !.status = "approved", !.approver = s, !.at = at, !.doc = doc]

\* Approving a row changes its status, approver and time stamp.
LEMMA ApprovedRowType ==
    ASSUME NEW r \in Rows, NEW s \in Approvers, NEW at \in 0 .. MaxTime, NEW doc \in Statuses
    PROVE  LET new == ApprovedRow(r, s, at, doc) IN
           /\ new \in Rows
           /\ (r.exists => new.exists) /\ new.status = "approved" /\ new.approver = s
           /\ new.author = r.author /\ new.origin = r.origin /\ new.change = r.change
<1>1. "approved" \in Statuses
    BY DEF Statuses
<1>. QED BY <1>1 DEF Rows, ApprovedRow

\* Every handler's read half preserves the invariant.
LEMMA BeginPreserves ==
    ASSUME LifecycleInv, NEW w \in Workers, NEW p \in Principals, NEW v \in Versions,
           Begin(w, p, v)
    PROVE  LifecycleInv'
<1>0. /\ LifecycleTypeOK /\ ReviewedWasSubmitted
      /\ SubjectOf[p] \in Subjects
      /\ clock \in 0 .. MaxTime /\ MaxTime \in Nat
    BY LifecycleAssumption DEF LifecycleInv, LifecycleTypeOK
<1>2. ASSUME NEW op \in Operations \ {"approve"}, Serve(w, op, p, v), clock' = clock,
             op \in {"submit", "reject", "revoke"} => row[v].exists
      PROVE  LifecycleInv'
  <2>. DEFINE new == Noted(op, SubjectOf[p], v)
  <2>1. 0 \in 0 .. MaxTime
      BY <1>0
  <2>2. worker' = [worker EXCEPT ![w] = new] /\ row' = row /\ audit' = audit
      BY <1>2 DEF Serve, Noted
  <2>3. new \in Notes /\ new.op = op /\ new.by = SubjectOf[p] /\ new.v = v
      BY <1>0, <2>1, NotesType
  <2>. HIDE DEF new
  <2>4. Checked(new)
      BY <1>0, <1>2, <2>3 DEF Checked
  <2>. QED BY <1>0, <1>2, <2>2, <2>3, <2>4, BeginStep DEF Notes
<1>3. CASE BeginCreate(w, p, v)
    BY <1>2, <1>3 DEF BeginCreate, Operations
<1>4. ASSUME NEW q \in Proposals, BeginPropose(w, p, v, q[1], q[2])
      PROVE  LifecycleInv'
  <2>. DEFINE new == [op |-> "propose", by |-> SubjectOf[p], v |-> v, origin |-> q[1],
                      change |-> q[2], at |-> clock']
  <2>1. q[1] \in Origins /\ q[2] \in ChangeClasses
      BY LifecycleAssumption
  <2>2. clock' \in 0 .. MaxTime
      BY <1>0, <1>4 DEF BeginPropose, Now
  <2>3. new \in [op : Operations \cup {"none"}, by : Subjects \cup {Nobody},
                 v : Versions \cup {Nobody}, origin : Origins,
                 change : ChangeClasses, at : 0 .. MaxTime]
      BY <1>0, <2>1, <2>2 DEF Operations
  <2>4. Checked(new)
      BY <1>0 DEF Checked
  <2>5. worker' = [worker EXCEPT ![w] = new] /\ row' = row /\ audit' = audit
      BY <1>4 DEF BeginPropose
  <2>. HIDE DEF new
  <2>. QED BY <2>2, <2>3, <2>4, <2>5, BeginStep
<1>5. CASE BeginSubmit(w, p, v)
    BY <1>2, <1>5 DEF BeginSubmit, Operations
<1>6. CASE BeginApprove(w, p, v)
  <2>1. clock' \in 0 .. MaxTime
      BY <1>0, <1>6 DEF BeginApprove, Now
  <2>. DEFINE new == NotedAt("approve", SubjectOf[p], v, clock')
  <2>2. worker' = [worker EXCEPT ![w] = new] /\ row' = row /\ audit' = audit
      BY <1>6 DEF BeginApprove, NotedAt
  <2>3. new \in Notes /\ new.op = "approve" /\ new.by = SubjectOf[p] /\ new.v = v
    <3>1. "approve" \in Operations
        BY DEF Operations
    <3>. QED BY <1>0, <2>1, <3>1, NotesType
  <2>. HIDE DEF new
  <2>4. MayApprove(SubjectOf[p])
      BY <1>6 DEF BeginApprove, Calls, MayApprove
  <2>5. row[v].exists /\ Submitted(v) /\ (SubjectOf[p] # row[v].author \/ IsAdmin(SubjectOf[p]))
      BY <1>0, <1>6 DEF BeginApprove, IsAdmin, ReviewedWasSubmitted
  <2>6. Checked(new)
      BY <1>0, <2>3, <2>4, <2>5 DEF Checked
  <2>. QED BY <2>1, <2>2, <2>3, <2>6, BeginStep DEF Notes
<1>7. CASE BeginReject(w, p, v)
    BY <1>2, <1>7 DEF BeginReject, Operations
<1>8. CASE BeginRevoke(w, p, v)
    BY <1>2, <1>8 DEF BeginRevoke, Operations
<1>. QED BY <1>3, <1>4, <1>5, <1>6, <1>7, <1>8 DEF Begin

\* Every handler's write half preserves the invariant.
LEMMA EndPreserves ==
    ASSUME LifecycleInv, NEW w \in Workers, End(w)
    PROVE  LifecycleInv'
<1>. DEFINE q == worker[w]
            v == worker[w].v
<1>0. LifecycleTypeOK /\ ReviewedWasSubmitted /\ StillTrue /\ ApprovedByWorkflow
    BY DEF LifecycleInv
<1>1. /\ q.op # "none" => Checked(q)
      /\ q.origin \in Origins /\ q.change \in ChangeClasses /\ q.at \in 0 .. MaxTime
      /\ \A u \in Versions : row[u] \in Rows
      /\ audit \subseteq [v : Versions, action : Actions, actor : Subjects \cup {AutoRule}]
      /\ clock \in 0 .. MaxTime
    BY <1>0 DEF LifecycleTypeOK, StillTrue
<1>2. ASSUME Finish(w), UNCHANGED <<row, audit, clock>>
      PROVE  LifecycleInv'
  <2>1. IdleWorker \in [op : Operations \cup {"none"}, by : Subjects \cup {Nobody},
                        v : Versions \cup {Nobody}, origin : Origins, change : ChangeClasses,
                        at : 0 .. MaxTime]
      BY LifecycleAssumption DEF IdleWorker, Origins, ChangeClasses
  <2>. QED BY <1>1, <1>2, <2>1, BeginStep DEF Finish, IdleWorker
<1>3. CASE InsertConflict(w)
    BY <1>2, <1>3 DEF InsertConflict
<1>4. CASE Abandon(w)
    BY <1>2, <1>4 DEF Abandon
<1>5. ASSUME q.op # "none"
      PROVE  /\ v \in Versions /\ q.by \in Subjects /\ row[v] \in Rows
             /\ \A action \in Actions, s \in Subjects \cup {AutoRule} :
                   Entry(v, action, s) \in [v : Versions, action : Actions, actor : Subjects \cup {AutoRule}]
    BY <1>1, <1>5 DEF Checked, Entry
<1>7. CASE Create(w)
  <2>. DEFINE new == NewRow(q.by, "manual", "other")
  <2>1. /\ q.op = "create" /\ ~row[v].exists
        /\ row' = [row EXCEPT ![v] = new]
        /\ audit' = audit \cup {Entry(v, "created", q.by)}
        /\ worker' = [worker EXCEPT ![w] = IdleWorker] /\ clock' = clock
      BY <1>7 DEF Create, Finish
  <2>2. new \in Rows /\ new.exists /\ new.status = "draft"
      BY <1>5, <2>1, NewRowType DEF Origins, ChangeClasses
  <2>3. v \in Versions /\ audit' \subseteq [v : Versions, action : Actions, actor : Subjects \cup {AutoRule}]
      BY <1>1, <1>5, <2>1 DEF Actions
  <2>. HIDE DEF new, v, q
  <2>. QED BY <2>1, <2>2, <2>3, WriteStep
<1>8. CASE Propose(w)
  <2>1. q.op = "propose" /\ ~row[v].exists /\ worker' = [worker EXCEPT ![w] = IdleWorker]
        /\ clock' = clock
      BY <1>8 DEF Propose, Finish
  <2>2. CASE AutoApproved(q.origin, q.change)
    <3>. DEFINE new == [NewRow(q.by, q.origin, q.change) EXCEPT
                           !.status = "approved", !.approver = AutoRule, !.at = q.at,
                           !.doc = "approved"]
    <3>1. /\ row' = [row EXCEPT ![v] = new]
          /\ audit' = audit \cup {Entry(v, "created", q.by), Entry(v, "approved", AutoRule)}
        BY <1>8, <2>2 DEF Propose
    <3>2. /\ new \in Rows /\ new.exists /\ new.status = "approved" /\ new.approver = AutoRule
          /\ new.origin = q.origin /\ new.change = q.change
      <4>1. AutoRule \in Approvers /\ "approved" \in Statuses
          BY DEF Approvers, Statuses
      <4>2. /\ NewRow(q.by, q.origin, q.change) \in Rows /\ NewRow(q.by, q.origin, q.change).exists
          BY <1>1, <1>5, <2>1, NewRowType
      <4>3. /\ NewRow(q.by, q.origin, q.change).origin = q.origin
            /\ NewRow(q.by, q.origin, q.change).change = q.change
          BY DEF NewRow, NoRow
      <4>4. new = ApprovedRow(NewRow(q.by, q.origin, q.change), AutoRule, q.at, "approved")
          BY DEF ApprovedRow
      <4>. HIDE DEF new, q
      <4>. QED BY <1>1, <4>1, <4>2, <4>3, <4>4, ApprovedRowType
    <3>3. v \in Versions /\ audit' \subseteq [v : Versions, action : Actions, actor : Subjects \cup {AutoRule}]
        BY <1>1, <1>5, <2>1, <3>1 DEF Actions
    <3>4. Entry(v, "approved", AutoRule) \in audit' /\ audit \subseteq audit'
        BY <3>1
    <3>. HIDE DEF new, v, q
    <3>. QED BY <2>1, <2>2, <3>1, <3>2, <3>3, <3>4, WriteStep
  <2>3. CASE ~AutoApproved(q.origin, q.change)
    <3>. DEFINE new == NewRow(q.by, q.origin, q.change)
    <3>1. row' = [row EXCEPT ![v] = new] /\ audit' = audit \cup {Entry(v, "created", q.by)}
        BY <1>8, <2>3 DEF Propose
    <3>2. new \in Rows /\ new.exists /\ new.status = "draft"
        BY <1>1, <1>5, <2>1, NewRowType
    <3>3. v \in Versions /\ audit' \subseteq [v : Versions, action : Actions, actor : Subjects \cup {AutoRule}]
        BY <1>1, <1>5, <2>1, <3>1 DEF Actions
    <3>. HIDE DEF new, v, q
    <3>. QED BY <2>1, <3>1, <3>2, <3>3, WriteStep
  <2>. QED BY <2>2, <2>3
<1>9. CASE Submit(w)
  <2>. DEFINE new == [row[v] EXCEPT !.status = "in_review"]
  <2>1. /\ q.op = "submit" /\ row' = [row EXCEPT ![v] = new]
        /\ audit' = audit \cup {Entry(v, "submitted", q.by)}
        /\ worker' = [worker EXCEPT ![w] = IdleWorker] /\ clock' = clock
      BY <1>9 DEF Submit, Finish
  <2>2. v \in Versions /\ q.by \in Subjects /\ row[v].exists
      BY <1>1, <2>1 DEF Checked
  <2>3. new \in Rows /\ new.exists /\ new.status = "in_review" /\ new.author = row[v].author
      BY <1>1, <2>2 DEF Rows, Statuses
  <2>4. audit' \subseteq [v : Versions, action : Actions, actor : Subjects \cup {AutoRule}]
      BY <1>1, <1>5, <2>1 DEF Actions
  <2>5. \E s \in Subjects : Entry(v, "submitted", s) \in audit'
      BY <2>1, <2>2
  <2>. HIDE DEF new, v, q
  <2>. QED BY <2>1, <2>2, <2>3, <2>4, <2>5, WriteStep
<1>10. CASE Approve(w)
  <2>. DEFINE new == [row[v] EXCEPT !.status = "approved", !.approver = q.by, !.at = q.at]
  <2>1. /\ q.op = "approve" /\ row' = [row EXCEPT ![v] = new]
        /\ audit' = audit \cup {Entry(v, "approved", q.by)}
        /\ worker' = [worker EXCEPT ![w] = IdleWorker] /\ clock' = clock
      BY <1>10 DEF Approve, Finish
  <2>2. /\ v \in Versions /\ q.by \in Subjects /\ row[v].exists
        /\ MayApprove(q.by) /\ Submitted(v)
        /\ q.by # row[v].author \/ IsAdmin(q.by)
      BY <1>1, <2>1 DEF Checked
  <2>3. /\ new \in Rows /\ new.exists /\ new.status = "approved" /\ new.author = row[v].author
        /\ new.approver = q.by
    <3>1. row[v].doc \in Statuses /\ row[v] \in Rows /\ q.by \in Approvers
        BY <1>1, <2>2 DEF Rows, Approvers
    <3>2. new = ApprovedRow(row[v], q.by, q.at, row[v].doc)
        BY <3>1 DEF Rows, ApprovedRow
    <3>. HIDE DEF new, v, q
    <3>. QED BY <1>1, <2>2, <3>1, <3>2, ApprovedRowType
  <2>4. audit' \subseteq [v : Versions, action : Actions, actor : Subjects \cup {AutoRule}]
      BY <1>1, <1>5, <2>1 DEF Actions
  <2>5. \E s \in Subjects : Entry(v, "submitted", s) \in audit'
      BY <2>1, <2>2 DEF Submitted
  <2>. HIDE DEF new, v, q
  <2>. QED BY <2>1, <2>2, <2>3, <2>4, <2>5, WriteStep
<1>11. ASSUME NEW status \in {"draft", "revoked"}, NEW action \in Actions,
              q.op \in {"reject", "revoke"},
              row' = [row EXCEPT ![v].status = status],
              audit' = audit \cup {Entry(v, action, q.by)},
              Finish(w), clock' = clock
       PROVE  LifecycleInv'
  <2>. DEFINE new == [row[v] EXCEPT !.status = status]
  <2>1. row' = [row EXCEPT ![v] = new]
      BY <1>11
  <2>2. v \in Versions /\ q.by \in Subjects /\ row[v].exists
      BY <1>1, <1>11 DEF Checked
  <2>3. /\ new \in Rows /\ new.exists /\ new.author = row[v].author
        /\ new.status # "approved" /\ new.status # "in_review"
      BY <1>1, <2>2 DEF Rows, Statuses
  <2>4. audit' \subseteq [v : Versions, action : Actions, actor : Subjects \cup {AutoRule}]
      BY <1>1, <1>5, <1>11
  <2>. HIDE DEF new, v, q
  <2>. QED BY <1>11, <2>1, <2>2, <2>3, <2>4, WriteStep DEF Finish
<1>12. CASE Reject(w)
    BY <1>11, <1>12 DEF Reject, Actions
<1>13. CASE Revoke(w)
    BY <1>11, <1>13 DEF Revoke, Actions
<1>. QED BY <1>3, <1>4, <1>7, <1>8, <1>9, <1>10, <1>12, <1>13 DEF End

\* Every step preserves the invariant.
LEMMA LifecycleInvNext == LifecycleInv /\ [LifecycleNext]_lifecycleVars => LifecycleInv'
<1>. SUFFICES ASSUME LifecycleInv, [LifecycleNext]_lifecycleVars PROVE LifecycleInv'
    OBVIOUS
<1>1. CASE LifecycleNext
    BY <1>1, BeginPreserves, EndPreserves DEF LifecycleNext
<1>2. CASE UNCHANGED lifecycleVars
    BY <1>2 DEF lifecycleVars, LifecycleInv, LifecycleTypeOK, ReviewedWasSubmitted, Submitted,
            StillTrue, Checked, ApprovedByWorkflow
<1>. QED BY <1>1, <1>2

-----------------------------------------------------------------------------
(* The theorems. *)

\* The inductive invariant holds of every reachable state.
THEOREM LifecycleInvariant == LifecycleSpec => []LifecycleInv
    BY LifecycleInvInit, LifecycleInvNext, PTL DEF LifecycleSpec

\* The tables and the handlers' locals keep their types.
THEOREM LifecycleTypeCorrect == LifecycleSpec => []LifecycleTypeOK
    BY LifecycleInvariant, PTL DEF LifecycleInv

\* No version is approved around the workflow or by its own author, whatever
\* handlers of any number of people run at the same time on what they read.
THEOREM LifecycleApprovedByWorkflow == LifecycleSpec => []ApprovedByWorkflow
    BY LifecycleInvariant, PTL DEF LifecycleInv

\* One step leaves every registered document, its hash and its author alone.
LEMMA DocumentStep ==
    ASSUME LifecycleInv, [LifecycleNext]_lifecycleVars
    PROVE  [\A v \in Versions : row[v].exists =>
              /\ row'[v].exists
              /\ row'[v].doc = row[v].doc /\ row'[v].hashed = row[v].hashed
              /\ row'[v].author = row[v].author]_row
<1>1. \A u \in Versions : row[u] \in Rows
    BY DEF LifecycleInv, LifecycleTypeOK
<1>2. row \in [Versions -> Rows]
    BY DEF LifecycleInv, LifecycleTypeOK
<1>. SUFFICES ASSUME row' # row, NEW u \in Versions, row[u].exists
              PROVE  /\ row'[u].exists
                     /\ row'[u].doc = row[u].doc /\ row'[u].hashed = row[u].hashed
                     /\ row'[u].author = row[u].author
    OBVIOUS
<1>3. PICK w \in Workers : Create(w) \/ Propose(w) \/ Submit(w) \/ Approve(w) \/ Reject(w) \/ Revoke(w)
  <2>1. ASSUME NEW w \in Workers, NEW p \in Principals, NEW v \in Versions, Begin(w, p, v)
        PROVE  FALSE
      BY <2>1 DEF Begin, BeginCreate, BeginPropose, BeginSubmit, BeginApprove, BeginReject,
              BeginRevoke, Serve
  <2>2. PICK w \in Workers : End(w)
      BY <2>1 DEF LifecycleNext, lifecycleVars
  <2>. QED BY <2>2 DEF End, InsertConflict, Abandon
<1>4. CASE Create(w) \/ Propose(w)
  <2>1. row'[u] = row[u]
      BY <1>2, <1>4 DEF Create, Propose
  <2>. QED BY <2>1
<1>5. CASE Submit(w) \/ Approve(w) \/ Reject(w) \/ Revoke(w)
    BY <1>1, <1>2, <1>5 DEF Submit, Approve, Reject, Revoke, Rows
<1>. QED BY <1>3, <1>4, <1>5

\* A registered document is never changed, whoever writes its row.
THEOREM LifecycleDocumentImmutable == LifecycleSpec => DocumentImmutable
    BY LifecycleInvariant, DocumentStep, PTL DEF LifecycleSpec, DocumentImmutable
=============================================================================
