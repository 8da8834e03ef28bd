------------------------- MODULE RequestPath_proofs -------------------------
(***************************************************************************)
(* Proofs about RequestPath, for any bundles, guards, detectors, requests  *)
(* and texts.  The invariant is a conjunction over the requests, and a     *)
(* step is a step of one of them.                                          *)
(*                                                                         *)
(* The first part is about the evidence and the bundle of a request (IInv) *)
(* and the second about its text: what the loop of ApplyActions makes of   *)
(* any text and any edits that lie within it, that the spans of detectors  *)
(* are such edits, and then, on top of IInv, that what was hidden stays    *)
(* hidden (HInv).                                                          *)
(***************************************************************************)
EXTENDS RequestPath, FiniteSetTheorems, WellFoundedInduction, TLAPS

Fields == {"pc", "kind", "idx", "dir", "pol", "text", "original", "body", "verdict", "answer"}

\* The phase dir of r is through with policy p of its bundle.
Through(r, dir, p) ==
    /\ p \in 1 .. Len(Policies(r))
    /\ \/ req[r].kind = "proxy" /\ req[r].dir = "output" /\ dir = "input"
       \/ dir = req[r].dir /\ p < req[r].pol
       \/ dir = req[r].dir /\ p = req[r].pol /\ req[r].pc = "answered"

\* Where a handler is.
Place(r) ==
    /\ DOMAIN req[r] = Fields
    /\ req[r].pc \in {"idle", "policy", "guards", "upstream", "answered"}
    /\ req[r].kind \in {"proxy", "check"}
    /\ req[r].idx \in 0 .. index
    /\ req[r].dir \in Directions
    /\ req[r].answer \in {"none", "error", "refused", "blocked", "relayed", "checked"}
    /\ req[r].pc = "answered" <=> req[r].answer # "none"

\* A handler without an index has done nothing; one with an index is at one of
\* its policies, or past the last one.
Progress(r) ==
    /\ req[r].pc = "idle" => req[r].idx = 0
    /\ req[r].idx = 0 => /\ req[r].pc \in {"idle", "answered"}
                         /\ req[r].text = req[r].original
                         /\ req[r].answer # "blocked"
                         /\ events[r] = {}
    /\ req[r].idx # 0 => req[r].pol \in 1 .. Len(Policies(r)) + 1
    /\ req[r].pc = "guards" => req[r].pol <= Len(Policies(r))
    /\ req[r].pc = "upstream" => /\ req[r].kind = "proxy" /\ req[r].dir = "input"
                                 /\ req[r].pol = Len(Policies(r)) + 1

FailedOpen(g, o) == g.failMode = "open" /\ o.err /\ o.verdict = "FAIL"

\* What the guards have returned so far.
Returned(r) ==
    req[r].pc = "guards" =>
        /\ DOMAIN outcomes[r] = ToRun(r)
        /\ \A i \in ToRun(r) : ~FailedOpen(Guard(r, i), outcomes[r][i])

\* The evidence is about what the handler is through with, ...
Honest(r) ==
    \A e \in events[r] :
        /\ e.bundle = req[r].idx
        /\ Through(r, e.dir, e.policy)
        /\ ~FailedOpen(GuardOf(e), e)

IsOf(e, dir, p, i) == e.dir = dir /\ e.policy = p /\ e.guard = i

\* ... and there is one event for each guard.
Recorded(r) ==
    \A dir \in Directions : \A p \in 1 .. Len(Policies(r)) :
        \A i \in DOMAIN Policies(r)[p].guards :
            (req[r].idx # 0 /\ Through(r, dir, p) /\ dir \in Policies(r)[p].guards[i].dirs) =>
                \E e \in events[r] : /\ IsOf(e, dir, p, i)
                                     /\ \A f \in events[r] : IsOf(f, dir, p, i) => f = e

\* A guard of the current phase that may act in this way has failed.
SomeFailed(r, actions) ==
    \E e \in events[r] :
        /\ e.dir = req[r].dir /\ e.verdict = "FAIL"
        /\ GuardOf(e).onFail \in actions /\ ~GuardOf(e).shadow

Explained(r) ==
    /\ req[r].answer = "blocked" => SomeFailed(r, {"block", "block_and_explain"})
    /\ req[r].text # req[r].original => SomeFailed(r, {"redact", "mask"})

RequestInv(r) ==
    Place(r) /\ Progress(r) /\ Returned(r) /\ Honest(r) /\ Recorded(r) /\ Explained(r)

IInv ==
    /\ index \in 0 .. Len(Bundles)
    /\ DOMAIN req = Requests /\ DOMAIN outcomes = Requests /\ DOMAIN events = Requests
    /\ \A r \in Requests : RequestInv(r)

-----------------------------------------------------------------------------

LEMMA BundleTypes ==
    /\ Len(Bundles) \in Nat /\ DOMAIN Bundles = 1 .. Len(Bundles)
    /\ \A n \in 1 .. Len(Bundles) :
          Len(Bundles[n]) \in Nat /\ DOMAIN Bundles[n] = 1 .. Len(Bundles[n])
BY BundlesAssumption

LEMMA InitIInv == Init => IInv
BY BundleTypes DEF Init, IInv, RequestInv, Place, Progress, Returned, Honest, Recorded, Explained,
   NoRequest, Fields, Directions

\* The other requests.
LEMMA OthersKeep ==
    ASSUME NEW r, IInv, RequestInv(r), index' >= index, index' \in 0 .. Len(Bundles),
           req'[r] = req[r], outcomes'[r] = outcomes[r], events'[r] = events[r]
    PROVE  RequestInv(r)'
<1>1. Place(r)'
  BY BundleTypes DEF IInv, RequestInv, Place
<1>2. Progress(r)'
  BY DEF IInv, RequestInv, Progress, Policies
<1>3. Returned(r)'
  BY DEF RequestInv, Returned, ToRun, Guard, Policy, Policies
<1>4. Honest(r)'
  BY DEF RequestInv, Honest, Through, GuardOf, Policies
<1>5. Recorded(r)'
  BY DEF RequestInv, Recorded, Through, Policies
<1>6. Explained(r)'
  BY DEF RequestInv, Explained, SomeFailed
<1> QED BY <1>1, <1>2, <1>3, <1>4, <1>5, <1>6 DEF RequestInv

LEMMA InstallKeeps == IInv /\ Install => IInv'
<1> SUFFICES ASSUME IInv, Install PROVE IInv'
  OBVIOUS
<1>1. index' >= index /\ index' \in 0 .. Len(Bundles)
  BY BundleTypes DEF IInv, Install
<1>2. \A r \in Requests : RequestInv(r)'
  BY <1>1, OthersKeep DEF Install, IInv
<1> QED BY <1>1, <1>2 DEF IInv, Install

\* A step of the handler of r.
StepOf(r) ==
    /\ index' = index
    /\ DOMAIN req' = Requests /\ DOMAIN outcomes' = Requests /\ DOMAIN events' = Requests
    /\ \A s \in Requests \ {r} :
          req'[s] = req[s] /\ outcomes'[s] = outcomes[s] /\ events'[s] = events[s]

LEMMA OneStep ==
    ASSUME NEW r \in Requests, IInv, StepOf(r), RequestInv(r)'
    PROVE  IInv'
<1>1. index' >= index /\ index' \in 0 .. Len(Bundles)
  BY BundleTypes DEF IInv, StepOf
<1>2. \A s \in Requests : RequestInv(s)'
  BY <1>1, OthersKeep DEF StepOf, IInv
<1> QED BY <1>1, <1>2 DEF IInv, StepOf

LEMMA ArriveKeeps ==
    ASSUME NEW r \in Requests, NEW b \in Inputs, IInv, Arrive(r, b)
    PROVE  IInv'
<1> DEFINE q == req[r]
           n == req'[r]
<1>1. StepOf(r) /\ outcomes'[r] = outcomes[r] /\ events'[r] = events[r]
  BY DEF IInv, StepOf, Arrive, Answered
<1>2. q.pc = "idle" /\ q.idx = 0 /\ events[r] = {} /\ DOMAIN q = Fields /\ RequestInv(r)
  BY DEF Arrive, IInv, RequestInv, Place, Progress
<1>3. CASE n = [q EXCEPT !.pc = "answered", !.answer = "error"] \/ n = [q EXCEPT !.pc = "answered", !.answer = "refused"]
  <2>1. /\ DOMAIN n = Fields /\ n.pc = "answered" /\ n.answer \in {"error", "refused"}
        /\ n.idx = 0 /\ n.kind = q.kind /\ n.dir = q.dir /\ n.text = q.text /\ n.original = q.original
    BY <1>2, <1>3 DEF Fields
  <2>2. Place(r)' /\ Progress(r)' /\ Returned(r)' /\ Honest(r)' /\ Explained(r)'
    BY <1>1, <1>2, <2>1 DEF RequestInv, Place, Progress, Returned, Honest, Explained, StepOf
  <2>3. Recorded(r)'
    BY <2>1 DEF Recorded, Through, Policies
  <2> QED BY <1>1, <2>2, <2>3, OneStep DEF RequestInv
<1>4. CASE n = [NoRequest EXCEPT !.pc = "policy", !.kind = b.kind, !.idx = index, !.dir = b.dir,
                                  !.pol = 1, !.body = b.msgs, !.text = Concat(b.msgs),
                                  !.original = Concat(b.msgs)] /\ index # 0
  <2>1. /\ DOMAIN n = Fields /\ n.pc = "policy" /\ n.answer = "none" /\ n.pol = 1
        /\ n.idx = index /\ n.kind = b.kind /\ n.dir = b.dir /\ n.text = n.original
    BY <1>4 DEF Fields, NoRequest
  <2>2. index \in 1 .. Len(Bundles) /\ index' = index
    BY <1>1, <1>4, BundleTypes DEF IInv, StepOf
  <2>3. Place(r)' /\ Progress(r)' /\ Returned(r)' /\ Honest(r)' /\ Explained(r)'
    BY <1>1, <1>2, <2>1, <2>2, BundleTypes, InputsAssumption
       DEF Place, Progress, Returned, Honest, Explained, Policies
  <2>4. Recorded(r)'
    <3>1. n.dir = "output" => n.kind # "proxy"
      BY <2>1, InputsAssumption
    <3> QED BY <2>1, <3>1 DEF Recorded, Through, Policies
  <2> QED BY <1>1, <2>3, <2>4, OneStep DEF RequestInv
<1> QED
  <2>1. r \in DOMAIN req
    BY DEF IInv
  <2>2. CASE index = 0
    <3>1. req' = [req EXCEPT ![r].pc = "answered", ![r].answer = "error"]
      BY <2>2 DEF Arrive, Answered
    <3> QED BY <3>1, <2>1, <1>3
  <2>3. CASE index # 0 /\ b.stream
    <3>1. req' = [req EXCEPT ![r].pc = "answered", ![r].answer = "refused"]
      BY <2>3 DEF Arrive, Answered
    <3> QED BY <3>1, <2>1, <1>3
  <2>4. CASE index # 0 /\ ~b.stream
    BY <2>1, <2>4, <1>4 DEF Arrive
  <2> QED BY <2>2, <2>3, <2>4

LEMMA StartGuardsKeeps ==
    ASSUME NEW r \in Requests, IInv, StartGuards(r)
    PROVE  IInv'
<1> DEFINE q == req[r]
           n == req'[r]
<1>1. StepOf(r) /\ outcomes'[r] = [i \in ToRun(r) |-> Pending] /\ events'[r] = events[r]
  BY DEF IInv, StepOf, StartGuards
<1>2. q.pc = "policy" /\ q.pol <= Len(Policies(r)) /\ DOMAIN q = Fields /\ RequestInv(r)
  BY DEF StartGuards, IInv, RequestInv, Place
<1>3. /\ DOMAIN n = Fields /\ n.pc = "guards" /\ n.answer = q.answer /\ n.pol = q.pol
      /\ n.idx = q.idx /\ n.kind = q.kind /\ n.dir = q.dir /\ n.text = q.text /\ n.original = q.original
  BY <1>2 DEF Fields, StartGuards, IInv
<1>4. Place(r)' /\ Progress(r)'
  BY <1>1, <1>2, <1>3 DEF RequestInv, Place, Progress, Policies, StepOf
<1>5. Returned(r)'
  <2>1. ToRun(r)' = ToRun(r)
    BY <1>3 DEF ToRun, Policy, Policies
  <2>2. \A i \in ToRun(r) : outcomes'[r][i].verdict = "pending"
    BY <1>1 DEF Pending, Pass
  <2> QED BY <1>1, <2>1, <2>2 DEF Returned, FailedOpen
<1>6. \A dir, p : Through(r, dir, p)' <=> Through(r, dir, p)
  BY <1>2, <1>3 DEF Through, Policies
<1>7. Honest(r)' /\ Recorded(r)' /\ Explained(r)'
  BY <1>1, <1>2, <1>3, <1>6 DEF RequestInv, Honest, GuardOf, Recorded, Explained, SomeFailed, Policies
<1> QED BY <1>1, <1>4, <1>5, <1>7, OneStep DEF RequestInv

\* No detector makes a guard fail against its own fail mode.
LEMMA FailModeIsObeyed ==
    ASSUME NEW g, NEW p, NEW text, NEW o \in RunOne(g, p, text)
    PROVE  ~FailedOpen(g, o)
<1>1. \A d : \A a \in Answers(d, text) : a.err = FALSE
  BY DEF Answers, Pass
<1>2. ~FailedOpen(g, ErrorResult(g, p))
  BY DEF FailedOpen, ErrorResult, FailMode, Pass
<1>3. o = ErrorResult(g, p) \/ o \in Answers(g.detector, text) \/ o \in Answers(g.escalation, text)
  BY DEF RunOne
<1> QED BY <1>1, <1>2, <1>3 DEF FailedOpen

LEMMA GuardReturnsKeeps ==
    ASSUME NEW r \in Requests, NEW i \in DOMAIN outcomes[r], IInv, GuardReturns(r, i)
    PROVE  IInv'
<1>1. StepOf(r) /\ req'[r] = req[r] /\ events'[r] = events[r]
  BY DEF IInv, StepOf, GuardReturns
<1>2. req[r].pc = "guards" /\ RequestInv(r)
  BY DEF GuardReturns, IInv
<1>3. PICK o \in RunOne(Guard(r, i), Policy(r), req[r].text) :
         outcomes' = [outcomes EXCEPT ![r][i] = o]
  BY DEF GuardReturns
<1>4. outcomes'[r] = [outcomes[r] EXCEPT ![i] = o]
  BY <1>3 DEF IInv
<1>5. ToRun(r)' = ToRun(r) /\ \A j : Guard(r, j)' = Guard(r, j)
  BY <1>1 DEF ToRun, Guard, Policy, Policies
<1>6. Returned(r)'
  <2>1. DOMAIN outcomes[r] = ToRun(r) /\ \A j \in ToRun(r) : ~FailedOpen(Guard(r, j), outcomes[r][j])
    BY <1>2 DEF RequestInv, Returned
  <2>2. ~FailedOpen(Guard(r, i), o)
    BY <1>3, FailModeIsObeyed
  <2>3. DOMAIN outcomes'[r] = ToRun(r) /\ \A j \in ToRun(r) : ~FailedOpen(Guard(r, j), outcomes'[r][j])
    BY <1>4, <2>1, <2>2
  <2> QED BY <1>1, <1>5, <2>3 DEF Returned, Guard, Policy, Policies
<1>7. Place(r)' /\ Progress(r)' /\ Explained(r)'
  BY <1>1, <1>2 DEF RequestInv, StepOf, Place, Progress, Explained, SomeFailed, Policies
<1>8. Honest(r)' /\ Recorded(r)'
  BY <1>1, <1>2 DEF RequestInv, Honest, Recorded, Through, GuardOf, Policies
<1> QED BY <1>1, <1>6, <1>7, <1>8, OneStep DEF RequestInv

\* A step after the last policy of a phase that does not touch the text.
LEMMA PhaseLeft ==
    ASSUME NEW r \in Requests, IInv, StepOf(r),
           outcomes'[r] = outcomes[r], events'[r] = events[r],
           req[r].idx # 0, req[r].pol = Len(Policies(r)) + 1,
           DOMAIN req'[r] = Fields,
           req'[r].idx = req[r].idx, req'[r].kind = req[r].kind, req'[r].dir = req[r].dir,
           req'[r].pol = req[r].pol, req'[r].text = req[r].text,
           req'[r].original = req[r].original,
           \/ /\ req'[r].pc = "upstream" /\ req'[r].answer = "none"
              /\ req[r].kind = "proxy" /\ req[r].dir = "input"
           \/ req'[r].pc = "answered" /\ req'[r].answer \in {"error", "relayed", "checked"}
    PROVE  IInv'
<1>1. RequestInv(r)
  BY DEF IInv
<1>2. Place(r)' /\ Progress(r)' /\ Returned(r)'
  BY <1>1 DEF RequestInv, Place, Progress, Returned, Policies, StepOf
<1>3. Len(Policies(r)) \in Nat
  BY <1>1, BundleTypes DEF IInv, RequestInv, Place, Policies
<1>4. Honest(r)'
  BY <1>1, <1>3 DEF RequestInv, Honest, GuardOf, Through, Policies
<1>5. Recorded(r)'
  BY <1>1, <1>3 DEF RequestInv, Recorded, Through, Policies
<1>6. Explained(r)'
  BY <1>1 DEF RequestInv, Explained, SomeFailed
<1> QED BY <1>2, <1>4, <1>5, <1>6, OneStep DEF RequestInv

LEMMA PhaseDoneAtEnd ==
    ASSUME NEW r \in Requests, IInv, PhaseDone(r)
    PROVE  /\ req[r].pc = "policy" /\ req[r].idx # 0 /\ req[r].pol = Len(Policies(r)) + 1
           /\ DOMAIN req[r] = Fields /\ req[r].answer = "none"
<1>1. RequestInv(r)
  BY DEF IInv
<1>2. Len(Policies(r)) \in Nat \/ req[r].idx = 0
  BY <1>1, BundleTypes DEF IInv, RequestInv, Place, Policies
<1> QED BY <1>1, <1>2 DEF PhaseDone, RequestInv, Place, Progress

LEMMA ForwardKeeps ==
    ASSUME NEW r \in Requests, IInv, Forward(r) PROVE IInv'
<1> DEFINE q == req[r]
           n == req'[r]
<1>1. StepOf(r) /\ outcomes'[r] = outcomes[r] /\ events'[r] = events[r]
  BY DEF IInv, StepOf, Forward
<1>2. n = [q EXCEPT !.pc = "upstream"] /\ q.kind = "proxy" /\ q.dir = "input" /\ PhaseDone(r)
  BY DEF IInv, Forward
<1>3. /\ DOMAIN n = Fields /\ n.pc = "upstream" /\ n.answer = q.answer /\ n.pol = q.pol
      /\ n.idx = q.idx /\ n.kind = q.kind /\ n.dir = q.dir /\ n.text = q.text /\ n.original = q.original
  BY <1>2, PhaseDoneAtEnd DEF Fields
<1> QED BY <1>1, <1>2, <1>3, PhaseDoneAtEnd, PhaseLeft

LEMMA RelayKeeps ==
    ASSUME NEW r \in Requests, IInv, Relay(r) PROVE IInv'
<1> DEFINE q == req[r]
           n == req'[r]
<1>1. StepOf(r) /\ outcomes'[r] = outcomes[r] /\ events'[r] = events[r]
  BY DEF IInv, StepOf, Relay
<1>2. PhaseDone(r) /\ DOMAIN q = Fields
  BY PhaseDoneAtEnd DEF Relay
<1>3. PICK body : req' = [req EXCEPT ![r].pc = "answered", ![r].answer = "relayed", ![r].body = body]
  BY <1>2 DEF IInv, Relay, Fields
<1>4. /\ DOMAIN n = Fields /\ n.pc = "answered" /\ n.answer = "relayed" /\ n.pol = q.pol
      /\ n.idx = q.idx /\ n.kind = q.kind /\ n.dir = q.dir /\ n.text = q.text /\ n.original = q.original
  BY <1>2, <1>3 DEF Fields, IInv
<1> QED BY <1>1, <1>2, <1>4, PhaseDoneAtEnd, PhaseLeft

LEMMA CheckAnswersKeeps ==
    ASSUME NEW r \in Requests, IInv, CheckAnswers(r) PROVE IInv'
<1> DEFINE q == req[r]
           n == req'[r]
<1>1. StepOf(r) /\ outcomes'[r] = outcomes[r] /\ events'[r] = events[r]
  BY DEF IInv, StepOf, CheckAnswers, Answered
<1>2. PhaseDone(r) /\ DOMAIN q = Fields
  BY PhaseDoneAtEnd DEF CheckAnswers
<1>3. /\ DOMAIN n = Fields /\ n.pc = "answered" /\ n.answer = "checked" /\ n.pol = q.pol
      /\ n.idx = q.idx /\ n.kind = q.kind /\ n.dir = q.dir /\ n.text = q.text /\ n.original = q.original
  BY <1>2 DEF Fields, IInv, CheckAnswers, Answered
<1> QED BY <1>1, <1>2, <1>3, PhaseDoneAtEnd, PhaseLeft

LEMMA UpstreamAnswersKeeps ==
    ASSUME NEW r \in Requests, NEW o \in Outputs, IInv, UpstreamAnswers(r, o)
    PROVE  IInv'
<1> DEFINE q == req[r]
           n == req'[r]
<1>1. StepOf(r) /\ outcomes'[r] = outcomes[r] /\ events'[r] = events[r]
  BY DEF IInv, StepOf, UpstreamAnswers, Answered, Begin
<1>2. /\ RequestInv(r) /\ DOMAIN q = Fields /\ q.idx \in 1 .. Len(Bundles)
      /\ q.pc = "upstream" /\ q.kind = "proxy" /\ q.dir = "input"
      /\ q.pol = Len(Policies(r)) + 1 /\ Len(Policies(r)) \in Nat
  <2>1. RequestInv(r) /\ q.pc = "upstream" /\ index \in 0 .. Len(Bundles)
    BY DEF IInv, UpstreamAnswers
  <2>2. /\ DOMAIN q = Fields /\ q.idx \in 1 .. Len(Bundles)
        /\ q.kind = "proxy" /\ q.dir = "input" /\ q.pol = Len(Policies(r)) + 1
    BY <2>1, BundleTypes DEF RequestInv, Place, Progress
  <2> QED BY <2>1, <2>2, BundleTypes DEF Policies
<1>3. ASSUME NEW answer \in {"error", "relayed"}, Answered(r, answer) PROVE IInv'
  <2>1. /\ DOMAIN n = Fields /\ n.pc = "answered" /\ n.answer = answer /\ n.pol = q.pol
        /\ n.idx = q.idx /\ n.kind = q.kind /\ n.dir = q.dir /\ n.text = q.text /\ n.original = q.original
    BY <1>2, <1>3 DEF Fields, IInv, Answered
  <2> QED BY <1>1, <1>2, <2>1, PhaseLeft
<1>4. ASSUME Begin(r, "output", o.msgs) PROVE IInv'
  <2>1. /\ DOMAIN n = Fields /\ n.pc = "policy" /\ n.answer = q.answer /\ n.pol = 1
        /\ n.idx = q.idx /\ n.kind = q.kind /\ n.dir = "output" /\ n.text = n.original
    BY <1>2, <1>4 DEF Fields, IInv, Begin
  <2>2. Place(r)' /\ Progress(r)' /\ Returned(r)' /\ Explained(r)'
    BY <1>1, <1>2, <2>1 DEF RequestInv, Place, Progress, Returned, Explained, Policies, Directions, StepOf
  <2>3. Honest(r)'
    BY <1>1, <1>2, <2>1 DEF RequestInv, Honest, Through, GuardOf, Policies
  <2>4. Recorded(r)'
    BY <1>1, <1>2, <2>1 DEF RequestInv, Recorded, Through, Policies
  <2> QED BY <1>1, <2>2, <2>3, <2>4, OneStep DEF RequestInv
<1> QED BY <1>3, <1>4 DEF UpstreamAnswers

\* Without an edit the text stays as it is.
LEMMA NoEditNoChange ==
    ASSUME NEW text, NEW s \in SortedEdits({})
    PROVE  Rewrite(text, s) = text
<1>1. s \in [1 .. 0 -> {}]
  BY FS_EmptySet DEF SortedEdits, SetToSeqs
<1>2. s = <<>>
  BY <1>1
<1> QED BY <1>2 DEF Rewrite

LEMMA GatherKeeps ==
    ASSUME NEW r \in Requests, IInv, Gather(r) PROVE IInv'
<1> DEFINE q == req[r]
           n == req'[r]
           acted == \E i \in Acting(r) : Guard(r, i).onFail \in {"redact", "mask"}
<1>1. /\ StepOf(r)
      /\ events'[r] = events[r] \cup {Event(r, i) : i \in DOMAIN outcomes[r]}
  BY DEF IInv, StepOf, Gather
<1>2. /\ RequestInv(r) /\ DOMAIN outcomes[r] = ToRun(r) /\ DOMAIN q = Fields
      /\ q.pc = "guards" /\ q.answer = "none" /\ q.idx \in 1 .. Len(Bundles)
      /\ q.pol \in 1 .. Len(Policies(r)) /\ Len(Policies(r)) \in Nat
  <2>1. RequestInv(r) /\ q.pc = "guards" /\ index \in 0 .. Len(Bundles)
    BY DEF IInv, Gather
  <2>2. DOMAIN outcomes[r] = ToRun(r) /\ DOMAIN q = Fields /\ q.answer = "none" /\ q.idx \in 1 .. Len(Bundles)
    BY <2>1, BundleTypes DEF RequestInv, Place, Progress, Returned
  <2>3. Len(Policies(r)) \in Nat
    BY <2>2, BundleTypes DEF Policies
  <2>4. q.pol \in 1 .. Len(Policies(r))
    BY <2>1, <2>2, <2>3 DEF RequestInv, Progress
  <2> QED BY <2>1, <2>2, <2>3, <2>4
<1>3. /\ DOMAIN n = Fields /\ n.idx = q.idx /\ n.kind = q.kind /\ n.dir = q.dir
      /\ n.original = q.original
      /\ \/ /\ n.pc = "answered" /\ n.pol = q.pol /\ n.text = q.text
            /\ n.answer \in {"blocked", "checked"} /\ Blocks(r)
         \/ /\ n.pc = "policy" /\ n.pol = q.pol + 1 /\ n.answer = "none"
            /\ acted \/ n.text = q.text
  <2>1. CASE Blocks(r)
    <3>1. PICK answer \in {"blocked", "checked"} :
             req' = [req EXCEPT ![r].pc = "answered", ![r].verdict = "FAIL", ![r].answer = answer]
      BY <2>1 DEF Gather
    <3> QED BY <1>2, <2>1, <3>1 DEF IInv, Fields
  <2>2. CASE ~Blocks(r)
    <3> DEFINE v == IF \E i \in DOMAIN outcomes[r] : outcomes[r][i].verdict = "FAIL"
                    THEN "FAIL" ELSE req[r].verdict
    <3>1. PICK s \in SortedEdits(Edits(r)) :
             req' = [req EXCEPT ![r].pc = "policy", ![r].pol = @ + 1,
                                ![r].text = Rewrite(@, s), ![r].verdict = v]
      BY <2>2 DEF Gather
    <3> HIDE DEF v
    <3>2. acted \/ Edits(r) = {}
      BY DEF Edits
    <3>3. acted \/ Rewrite(q.text, s) = q.text
      BY <3>2, NoEditNoChange
    <3>4. n.text = Rewrite(q.text, s)
      BY <1>2, <3>1 DEF IInv, Fields
    <3>5. /\ DOMAIN n = Fields /\ n.idx = q.idx /\ n.kind = q.kind /\ n.dir = q.dir
          /\ n.original = q.original /\ n.pc = "policy" /\ n.pol = q.pol + 1 /\ n.answer = "none"
      BY <1>2, <3>1 DEF IInv, Fields
    <3> QED BY <3>3, <3>4, <3>5
  <2> QED BY <2>1, <2>2
<1>4. \A i : LET e == Event(r, i) IN
         /\ e.bundle = q.idx /\ e.dir = q.dir /\ e.policy = q.pol /\ e.guard = i
         /\ e.verdict = outcomes[r][i].verdict /\ e.err = outcomes[r][i].err
         /\ GuardOf(e) = Guard(r, i)
  BY DEF Event, GuardOf, Guard, Policy, Policies
<1>5. Policies(r)' = Policies(r) /\ \A e : GuardOf(e)' = GuardOf(e)
  BY <1>3 DEF Policies, GuardOf
<1>6. ASSUME NEW dir, NEW p
      PROVE  Through(r, dir, p)' <=> (Through(r, dir, p) \/ (dir = q.dir /\ p = q.pol))
  <2>1. CASE n.pc = "answered" /\ n.pol = q.pol
    BY <1>2, <1>3, <1>5, <2>1 DEF Through
  <2>2. CASE n.pc = "policy" /\ n.pol = q.pol + 1
    BY <1>2, <1>3, <1>5, <2>2 DEF Through
  <2> QED BY <1>3, <2>1, <2>2
<1>7. ~Through(r, q.dir, q.pol)
  BY <1>2 DEF Through
<1> HIDE DEF q, n, acted
<1>8. Place(r)' /\ Progress(r)' /\ Returned(r)'
  <2>1. index' = index
    BY <1>1 DEF StepOf
  <2>2. Place(r)'
    BY <1>2, <1>3, <2>1 DEF RequestInv, Place, q, n
  <2>3. Returned(r)'
    BY <1>3 DEF Returned, n
  <2>4. Progress(r)'
    BY <1>2, <1>3, <1>5 DEF Progress, q, n
  <2> QED BY <2>2, <2>3, <2>4
<1>9. Honest(r)'
  <2>1. ASSUME NEW e \in events[r]
        PROVE  e.bundle = q.idx /\ Through(r, e.dir, e.policy) /\ ~FailedOpen(GuardOf(e), e)
    BY <1>2, <2>1 DEF RequestInv, Honest, q
  <2>2. ASSUME NEW i \in DOMAIN outcomes[r]
        PROVE  ~FailedOpen(GuardOf(Event(r, i)), Event(r, i))
    BY <1>2, <1>4 DEF RequestInv, Returned, FailedOpen, q
  <2>3. \A e \in events'[r] : /\ e.bundle = q.idx
                              /\ Through(r, e.dir, e.policy) \/ (e.dir = q.dir /\ e.policy = q.pol)
                              /\ ~FailedOpen(GuardOf(e), e)
    BY <1>1, <1>4, <2>1, <2>2
  <2>4. n.idx = q.idx
    BY <1>3
  <2>5. ASSUME NEW e \in events'[r]
        PROVE  e.bundle = req'[r].idx /\ Through(r, e.dir, e.policy)' /\ ~FailedOpen(GuardOf(e), e)
    <3>1. Through(r, e.dir, e.policy)' <=> (Through(r, e.dir, e.policy) \/ (e.dir = q.dir /\ e.policy = q.pol))
      BY <1>6
    <3> QED BY <2>3, <2>4, <3>1 DEF n
  <2> QED BY <2>5 DEF Honest, GuardOf
<1>10. Recorded(r)'
  <2> SUFFICES ASSUME NEW dir \in Directions, NEW p \in 1 .. Len(Policies(r)),
                      NEW i \in DOMAIN Policies(r)[p].guards,
                      dir \in Policies(r)[p].guards[i].dirs,
                      Through(r, dir, p) \/ (dir = q.dir /\ p = q.pol)
               PROVE  \E e \in events'[r] : /\ IsOf(e, dir, p, i)
                                           /\ \A f \in events'[r] : IsOf(f, dir, p, i) => f = e
    BY <1>5, <1>6 DEF Recorded, IsOf
  <2>1. CASE Through(r, dir, p)
    <3>1. PICK e \in events[r] : /\ IsOf(e, dir, p, i)
                                /\ \A f \in events[r] : IsOf(f, dir, p, i) => f = e
      BY <1>2, <2>1 DEF RequestInv, Recorded, q
    <3>2. \A j : ~IsOf(Event(r, j), dir, p, i)
      BY <1>4, <1>7, <2>1 DEF IsOf
    <3> QED BY <1>1, <3>1, <3>2
  <2>2. CASE dir = q.dir /\ p = q.pol
    <3>1. i \in DOMAIN outcomes[r]
      BY <1>2, <2>2 DEF ToRun, Policy, Policies, q
    <3>2. \A f \in events[r] : ~IsOf(f, dir, p, i)
      BY <1>2, <1>7, <2>2 DEF RequestInv, Honest, IsOf
    <3>3. \A j : IsOf(Event(r, j), dir, p, i) <=> j = i
      BY <1>4, <2>2 DEF IsOf
    <3> QED BY <1>1, <3>1, <3>2, <3>3
  <2> QED BY <2>1, <2>2
<1>11. Explained(r)'
  <2>1. ASSUME NEW actions, NEW i \in Acting(r), Guard(r, i).onFail \in actions
        PROVE  SomeFailed(r, actions)'
    <3>1. Event(r, i) \in events'[r] /\ outcomes[r][i].verdict = "FAIL" /\ ~Guard(r, i).shadow
      BY <1>1, <2>1 DEF Acting
    <3> QED BY <1>3, <1>4, <1>5, <2>1, <3>1 DEF SomeFailed, q, n
  <2>2. n.answer = "blocked" => SomeFailed(r, {"block", "block_and_explain"})'
    BY <1>3, <2>1 DEF Blocks
  <2>3. acted => SomeFailed(r, {"redact", "mask"})'
    BY <2>1 DEF acted
  <2>4. ASSUME q.text # q.original PROVE SomeFailed(r, {"redact", "mask"})'
    <3>1. SomeFailed(r, {"redact", "mask"})
      BY <1>2, <2>4 DEF RequestInv, Explained, q
    <3> QED BY <1>1, <1>3, <1>5, <3>1 DEF SomeFailed, q, n
  <2>5. n.text # n.original => SomeFailed(r, {"redact", "mask"})'
    BY <1>3, <2>3, <2>4
  <2> QED BY <2>2, <2>5 DEF Explained, n
<1> QED BY <1>1, <1>8, <1>9, <1>10, <1>11, OneStep DEF RequestInv

-----------------------------------------------------------------------------

LEMMA StepKeeps == IInv /\ [Next]_vars => IInv'
<1> SUFFICES ASSUME IInv, [Next]_vars PROVE IInv'
  OBVIOUS
<1>1. ASSUME NEW r \in Requests, Handler(r) PROVE IInv'
  BY <1>1, StartGuardsKeeps, GuardReturnsKeeps, GatherKeeps, ForwardKeeps, UpstreamAnswersKeeps,
     RelayKeeps, CheckAnswersKeeps DEF Handler
<1>2. CASE UNCHANGED vars
  <2>1. index' = index /\ req' = req /\ outcomes' = outcomes /\ events' = events
    BY <1>2 DEF vars
  <2>2. index' >= index /\ index' \in 0 .. Len(Bundles)
    BY <2>1, BundleTypes DEF IInv
  <2>3. \A r \in Requests : RequestInv(r)'
    BY <2>1, <2>2, OthersKeep DEF IInv
  <2> QED BY <2>1, <2>2, <2>3 DEF IInv
<1> QED BY <1>1, <1>2, InstallKeeps, ArriveKeeps DEF Next

\* The invariant about the evidence and the bundle of a request holds in every state.
THEOREM Invariance == Spec => []IInv
BY InitIInv, StepKeeps, PTL DEF Spec

\* A handler is always at a place of its code, on a bundle that was installed, and
\* while guards run there is an outcome for each guard of the policy.
THEOREM TypeCorrect == Spec => []TypeOK
<1>1. ASSUME IInv PROVE TypeOK
  <2>1. ASSUME NEW r \in Requests
        PROVE  Place(r) /\ Progress(r) /\ Returned(r)
    BY <1>1 DEF IInv, RequestInv
  <2> QED BY <1>1, <2>1 DEF TypeOK, IInv, Place, Progress, Returned
<1> QED BY <1>1, Invariance, PTL

\* However often the index is swapped, the evidence of a request is of one bundle.
THEOREM RequestsUseOneBundle == Spec => []OneBundle
<1>1. ASSUME IInv PROVE OneBundle
  BY <1>1 DEF IInv, RequestInv, Honest, OneBundle
<1> QED BY <1>1, Invariance, PTL

\* There is exactly one event for each guard of all that a request has been through.
THEOREM GuardsAreRecorded == Spec => []EveryGuardRecorded
<1>1. ASSUME IInv PROVE EveryGuardRecorded
  <2> SUFFICES ASSUME NEW r \in Requests, NEW x \in Passed(r),
                      NEW i \in DOMAIN Bundles[req[r].idx][x[2]].guards,
                      x[1] \in Bundles[req[r].idx][x[2]].guards[i].dirs
               PROVE  Cardinality({e \in events[r] :
                          e.dir = x[1] /\ e.policy = x[2] /\ e.guard = i}) = 1
    BY DEF EveryGuardRecorded
  <2>1. RequestInv(r) /\ req[r].idx # 0 /\ req[r].idx \in 0 .. Len(Bundles) /\ req[r].dir \in Directions
    BY <1>1, BundleTypes DEF IInv, RequestInv, Place, Passed
  <2>2. Through(r, x[1], x[2]) /\ x[1] \in Directions /\ x[2] \in 1 .. Len(Policies(r))
    BY <2>1, BundleTypes DEF Passed, Through, Policies, Directions
  <2>3. PICK e \in events[r] : /\ IsOf(e, x[1], x[2], i)
                              /\ \A f \in events[r] : IsOf(f, x[1], x[2], i) => f = e
    BY <2>1, <2>2 DEF RequestInv, Recorded, Policies
  <2>4. {f \in events[r] : f.dir = x[1] /\ f.policy = x[2] /\ f.guard = i} = {e}
    BY <2>3 DEF IsOf
  <2> QED BY <2>4, FS_Singleton
<1> QED BY <1>1, Invariance, PTL

\* Only a guard that has failed, is no shadow and did not fail open blocks a request
\* or changes its text.
THEOREM EffectsHaveACause == Spec => []EffectsExplained
<1>1. ASSUME IInv PROVE EffectsExplained
  <2>1. ASSUME NEW r \in Requests, NEW actions, SomeFailed(r, actions)
        PROVE  \E e \in events[r] :
                  /\ e.dir = req[r].dir /\ e.verdict = "FAIL"
                  /\ GuardOf(e).onFail \in actions /\ ~GuardOf(e).shadow
                  /\ e.err => GuardOf(e).failMode # "open"
    BY <1>1, <2>1 DEF IInv, RequestInv, Honest, SomeFailed, FailedOpen
  <2>2. \A r \in Requests : Explained(r)
    BY <1>1 DEF IInv, RequestInv
  <2> QED BY <2>1, <2>2 DEF EffectsExplained, Explained
<1> QED BY <1>1, Invariance, PTL

-----------------------------------------------------------------------------
(* Texts whose bytes are told apart.                                        *)

\* A non-empty set of natural numbers has a least element.
LEMMA LeastNatural ==
    ASSUME NEW T \in SUBSET Nat, T # {}
    PROVE  \E x \in T : \A y \in T : x <= y
<1> DEFINE R == OpToRel(<, Nat)
<1>1. IsWellFoundedOn(R, Nat)
  BY NatLessThanWellFounded
<1> HIDE DEF R
<1>2. PICK x \in T : \A y \in T : ~ (<<y, x>> \in R)
  BY <1>1, WFMin
<1>3. \A y \in T : y < x => <<y, x>> \in R
  BY DEF R, OpToRel
<1>4. ASSUME NEW y \in T PROVE x <= y
  <2>1. x \in Nat /\ y \in Nat
    OBVIOUS
  <2>2. ~(y < x)
    BY <1>2, <1>3
  <2> QED BY <2>1, <2>2
<1> QED BY <1>4

\* Each byte that somebody wrote occurs once.
Distinct(text) ==
    \A i, j \in DOMAIN text : text[i] = text[j] /\ text[i] \notin Marks => i = j

\* What somebody wrote in out is of this part of the text.
From(out, text, low, high) ==
    \A i \in DOMAIN out : out[i] \notin Marks => \E p \in low + 1 .. high : out[i] = text[p]

\* Two texts that have no byte in common, one after the other.
LEMMA Joining ==
    ASSUME NEW B, NEW out \in Seq(B), Distinct(out), NEW more \in Seq(B), Distinct(more),
           \A i \in DOMAIN out, k \in DOMAIN more : out[i] \notin Marks => out[i] # more[k]
    PROVE  /\ out \o more \in Seq(B) /\ Distinct(out \o more)
           /\ BytesOf(out \o more) = BytesOf(out) \cup BytesOf(more)
<1> DEFINE all == out \o more
<1>1. /\ all \in Seq(B) /\ Len(out) \in Nat /\ Len(more) \in Nat
      /\ DOMAIN out = 1 .. Len(out) /\ DOMAIN more = 1 .. Len(more)
      /\ DOMAIN all = 1 .. Len(out) + Len(more)
      /\ \A k \in 1 .. Len(out) : all[k] = out[k]
      /\ \A k \in Len(out) + 1 .. Len(out) + Len(more) : all[k] = more[k - Len(out)]
  OBVIOUS
<1> HIDE DEF all
<1>2. ASSUME NEW k \in 1 .. Len(more) PROVE all[k + Len(out)] = more[k]
  <2>1. /\ k + Len(out) \in Len(out) + 1 .. Len(out) + Len(more)
        /\ (k + Len(out)) - Len(out) = k
    BY <1>1
  <2> QED BY <1>1, <2>1
<1>3. Distinct(all)
  <2> SUFFICES ASSUME NEW i \in DOMAIN all, NEW j \in DOMAIN all, all[i] = all[j], all[i] \notin Marks
               PROVE  i = j
    BY DEF Distinct
  <2>1. ASSUME i \in 1 .. Len(out), j \in 1 .. Len(out) PROVE i = j
    BY <1>1, <2>1 DEF Distinct
  <2>2. ASSUME i \in 1 .. Len(out), j \notin 1 .. Len(out) PROVE FALSE
    <3>1. j - Len(out) \in DOMAIN more /\ all[j] = more[j - Len(out)]
      BY <1>1, <2>2
    <3> QED BY <1>1, <2>2, <3>1
  <2>3. ASSUME i \notin 1 .. Len(out), j \in 1 .. Len(out) PROVE FALSE
    <3>1. i - Len(out) \in DOMAIN more /\ all[i] = more[i - Len(out)]
      BY <1>1, <2>3
    <3> QED BY <1>1, <2>3, <3>1
  <2>4. ASSUME i \notin 1 .. Len(out), j \notin 1 .. Len(out) PROVE i = j
    <3>1. i - Len(out) \in DOMAIN more /\ all[i] = more[i - Len(out)]
      BY <1>1, <2>4
    <3>2. j - Len(out) \in DOMAIN more /\ all[j] = more[j - Len(out)]
      <4>1. j \in Len(out) + 1 .. Len(out) + Len(more)
        BY <1>1, <2>4
      <4>2. j - Len(out) \in DOMAIN more
        BY <1>1, <4>1
      <4>3. all[j] = more[j - Len(out)]
        BY <1>1, <4>1
      <4> QED BY <4>2, <4>3
    <3> DEFINE a == i - Len(out)
               b == j - Len(out)
    <3>3. a \in DOMAIN more /\ b \in DOMAIN more /\ more[a] = more[b] /\ more[a] \notin Marks
      BY <3>1, <3>2
    <3> HIDE DEF a, b
    <3>4. a = b
      BY <3>3 DEF Distinct
    <3>5. i - Len(out) = j - Len(out)
      BY <3>4 DEF a, b
    <3> QED BY <1>1, <3>5
  <2> QED BY <2>1, <2>2, <2>3, <2>4
<1>4. BytesOf(all) = BytesOf(out) \cup BytesOf(more)
  <2>1. ASSUME NEW x \in BytesOf(all) PROVE x \in BytesOf(out) \cup BytesOf(more)
    <3>1. PICK i \in DOMAIN all : x = all[i]
      BY DEF BytesOf
    <3>2. ASSUME i \notin 1 .. Len(out) PROVE x \in BytesOf(more)
      <4>1. i - Len(out) \in DOMAIN more /\ all[i] = more[i - Len(out)]
        BY <1>1, <3>2
      <4> QED BY <3>1, <4>1 DEF BytesOf
    <3> QED BY <1>1, <3>1, <3>2 DEF BytesOf
  <2>2. BytesOf(out) \subseteq BytesOf(all)
    BY <1>1 DEF BytesOf
  <2>3. ASSUME NEW x \in BytesOf(more) PROVE x \in BytesOf(all)
    <3>1. PICK k \in 1 .. Len(more) : x = more[k]
      BY <1>1 DEF BytesOf
    <3>2. k + Len(out) \in DOMAIN all /\ all[k + Len(out)] = x
      BY <1>1, <1>2, <3>1
    <3> QED BY <3>2 DEF BytesOf
  <2> QED BY <2>1, <2>2, <2>3
<1> QED BY <1>1, <1>3, <1>4 DEF all

\* A text that is continued by a later part of another one.
LEMMA Continued ==
    ASSUME NEW B, NEW text \in Seq(B), Distinct(text), NEW pos \in 0 .. Len(text),
           NEW high \in pos .. Len(text),
           NEW out \in Seq(B), Distinct(out), From(out, text, 0, pos),
           NEW more \in Seq(B), Distinct(more), From(more, text, pos, high)
    PROVE  /\ out \o more \in Seq(B) /\ Distinct(out \o more) /\ From(out \o more, text, 0, high)
           /\ BytesOf(out \o more) = BytesOf(out) \cup BytesOf(more)
           /\ \A p \in 1 .. pos : text[p] \notin Marks => text[p] \notin BytesOf(more)
<1> DEFINE all == out \o more
<1>1. /\ all \in Seq(B) /\ Len(out) \in Nat /\ Len(more) \in Nat /\ Len(text) \in Nat
      /\ DOMAIN out = 1 .. Len(out) /\ DOMAIN more = 1 .. Len(more) /\ DOMAIN text = 1 .. Len(text)
      /\ DOMAIN all = 1 .. Len(out) + Len(more)
      /\ \A k \in 1 .. Len(out) : all[k] = out[k]
      /\ \A k \in Len(out) + 1 .. Len(out) + Len(more) : all[k] = more[k - Len(out)]
  OBVIOUS
<1> HIDE DEF all
<1>2. ASSUME NEW p \in 1 .. pos, text[p] \notin Marks PROVE text[p] \notin BytesOf(more)
  <2> SUFFICES ASSUME NEW k \in DOMAIN more, text[p] = more[k] PROVE FALSE
    BY DEF BytesOf
  <2>1. PICK q \in pos + 1 .. high : more[k] = text[q]
    BY <1>2 DEF From
  <2>2. p \in DOMAIN text /\ q \in DOMAIN text /\ p # q
    BY <1>1
  <2> QED BY <1>2, <2>1, <2>2 DEF Distinct
<1>3. \A i \in DOMAIN out, k \in DOMAIN more : out[i] \notin Marks => out[i] # more[k]
  <2> SUFFICES ASSUME NEW i \in DOMAIN out, NEW k \in DOMAIN more, out[i] \notin Marks, out[i] = more[k]
               PROVE  FALSE
    OBVIOUS
  <2>1. PICK p \in 0 + 1 .. pos : out[i] = text[p]
    BY DEF From
  <2>2. p \in 1 .. pos
    OBVIOUS
  <2> QED BY <1>2, <2>1, <2>2 DEF BytesOf
<1>4. /\ Distinct(all) /\ BytesOf(all) = BytesOf(out) \cup BytesOf(more)
  BY <1>3, Joining DEF all
<1>5. From(all, text, 0, high)
  <2> SUFFICES ASSUME NEW i \in DOMAIN all, all[i] \notin Marks
               PROVE  \E p \in 0 + 1 .. high : all[i] = text[p]
    BY DEF From
  <2>1. ASSUME i \in 1 .. Len(out) PROVE \E p \in 0 + 1 .. high : all[i] = text[p]
    <3>1. PICK p \in 0 + 1 .. pos : out[i] = text[p]
      BY <1>1, <2>1 DEF From
    <3>2. p \in 0 + 1 .. high
      OBVIOUS
    <3> QED BY <1>1, <2>1, <3>1, <3>2
  <2>2. ASSUME i \notin 1 .. Len(out) PROVE \E p \in 0 + 1 .. high : all[i] = text[p]
    <3>1. i - Len(out) \in DOMAIN more /\ all[i] = more[i - Len(out)]
      BY <1>1, <2>2
    <3>2. PICK p \in pos + 1 .. high : more[i - Len(out)] = text[p]
      BY <3>1 DEF From
    <3>3. p \in 0 + 1 .. high
      OBVIOUS
    <3> QED BY <3>1, <3>2, <3>3
  <2> QED BY <2>1, <2>2
<1> QED BY <1>1, <1>2, <1>4, <1>5 DEF all

\* A part of a text.
LEMMA PartOf ==
    ASSUME NEW B, NEW text \in Seq(B), Distinct(text), NEW low \in 0 .. Len(text),
           NEW high \in low .. Len(text)
    PROVE  /\ SubSeq(text, low + 1, high) \in Seq(B)
           /\ Len(SubSeq(text, low + 1, high)) = high - low
           /\ \A i \in 1 .. high - low : SubSeq(text, low + 1, high)[i] = text[low + i]
           /\ Distinct(SubSeq(text, low + 1, high))
           /\ From(SubSeq(text, low + 1, high), text, low, high)
<1> DEFINE part == SubSeq(text, low + 1, high)
<1>1. Len(text) \in Nat /\ DOMAIN text = 1 .. Len(text)
  OBVIOUS
<1>2. /\ part \in Seq(B) /\ Len(part) = high - low /\ DOMAIN part = 1 .. high - low
  <2>1. \A i \in low + 1 .. high : text[i] \in B
    BY <1>1
  <2> QED BY <1>1, <2>1
<1>3. \A i \in 1 .. high - low : part[i] = text[low + i]
  BY <1>1
<1> HIDE DEF part
<1>4. Distinct(part)
  <2> SUFFICES ASSUME NEW i \in 1 .. high - low, NEW j \in 1 .. high - low, part[i] = part[j],
                      part[i] \notin Marks
               PROVE  i = j
    BY <1>2 DEF Distinct
  <2>1. low + i \in DOMAIN text /\ low + j \in DOMAIN text
    BY <1>1
  <2>2. low + i = low + j
    BY <1>3, <2>1 DEF Distinct
  <2> QED BY <2>2
<1>5. From(part, text, low, high)
  <2> SUFFICES ASSUME NEW i \in 1 .. high - low
               PROVE  \E p \in low + 1 .. high : part[i] = text[p]
    BY <1>2 DEF From
  <2>1. low + i \in low + 1 .. high
    OBVIOUS
  <2> QED BY <1>3, <2>1
<1> QED BY <1>2, <1>3, <1>4, <1>5 DEF part

-----------------------------------------------------------------------------
(* The loop of ApplyActions.                                                *)

\* An edit that lies within the text.
Fits(e, text) ==
    /\ e.start \in Nat /\ e.end \in Nat /\ e.start <= e.end /\ e.end <= Len(text)
    /\ e.action \in {"redact", "mask"}

\* What replaces a segment is of the segment, or the gateway's own.
LEMMA ReplacementOf ==
    ASSUME NEW B, Marks \subseteq B, NEW text \in Seq(B), Distinct(text), NEW e, Fits(e, text)
    PROVE  /\ Replacement(text, e) \in Seq(B) /\ Distinct(Replacement(text, e))
           /\ From(Replacement(text, e), text, e.start, e.end)
           /\ e.action = "redact" => Replacement(text, e) = <<Redacted>>
<1> DEFINE seg == Segment(text, e)
<1>1. /\ e.start \in 0 .. Len(text) /\ e.end \in e.start .. Len(text) /\ Len(text) \in Nat
  BY DEF Fits
<1>2. /\ seg \in Seq(B) /\ Len(seg) = e.end - e.start /\ Distinct(seg)
      /\ From(seg, text, e.start, e.end)
  BY <1>1, PartOf DEF Segment
<1>3. ASSUME e.action = "redact"
      PROVE  /\ Replacement(text, e) = <<Redacted>> /\ <<Redacted>> \in Seq(B)
             /\ Distinct(<<Redacted>>) /\ From(<<Redacted>>, text, e.start, e.end)
  BY <1>3 DEF Replacement, Marks, Distinct, From
<1>4. ASSUME e.action # "redact"
      PROVE  /\ Replacement(text, e) \in Seq(B) /\ Distinct(Replacement(text, e))
             /\ From(Replacement(text, e), text, e.start, e.end)
  <2> HIDE DEF seg
  <2> DEFINE n == IF Len(seg) > KeepLast THEN Len(seg) - KeepLast ELSE Len(seg)
             masked == [i \in 1 .. Len(seg) |-> IF i <= n THEN Star ELSE seg[i]]
  <2>1. Replacement(text, e) = masked
    BY <1>4 DEF Replacement, Masked, seg
  <2> HIDE DEF n
  <2>2. Star \in B /\ Star \in Marks
    BY DEF Marks
  <2>3. /\ DOMAIN masked = DOMAIN seg
        /\ \A i \in DOMAIN seg : masked[i] = Star \/ masked[i] = seg[i]
    BY <1>2
  <2>4. masked \in Seq(B)
    <3>1. \A i \in 1 .. Len(seg) : masked[i] \in B
      BY <1>2, <2>2
    <3>2. Len(seg) \in Nat
      BY <1>2
    <3> QED BY <3>1, <3>2
  <2> HIDE DEF masked
  <2>5. Distinct(masked) /\ From(masked, text, e.start, e.end)
    BY <1>2, <2>2, <2>3 DEF Distinct, From
  <2> QED BY <2>1, <2>4, <2>5
<1> QED BY <1>3, <1>4

\* How far the loop is, and what it has written.
WrittenSoFar(done, text, B) ==
    /\ done.pos \in 0 .. Len(text)
    /\ done.out \in Seq(B) /\ Distinct(done.out) /\ From(done.out, text, 0, done.pos)

\* The bytes at positions of the text that are passed and not written.
Gone(done, text) == {p \in 1 .. done.pos : text[p] \notin Marks /\ text[p] \notin BytesOf(done.out)}

\* What an edit hides is gone.
Erased(done, text, e) ==
    \A p \in e.start + 1 .. e.end :
        text[p] \in Hides(text, e) /\ text[p] \notin Marks => p \in Gone(done, text)

\* An edit that is made continues the text, and what it hides is gone for good.
LEMMA CutContinues ==
    ASSUME NEW B, Marks \subseteq B, NEW text \in Seq(B), Distinct(text), NEW e, Fits(e, text),
           NEW done, WrittenSoFar(done, text, B), done.pos <= e.start
    PROVE  /\ WrittenSoFar(Cut(text, done, e), text, B)
           /\ Cut(text, done, e).pos = e.end
           /\ Gone(done, text) \subseteq Gone(Cut(text, done, e), text)
           /\ Erased(Cut(text, done, e), text, e)
<1> DEFINE pos == done.pos
           out == done.out
           part == SubSeq(text, pos + 1, e.start)
           repl == Replacement(text, e)
           next == Cut(text, done, e)
<1>1. /\ pos \in 0 .. Len(text) /\ e.start \in pos .. Len(text) /\ e.start \in 0 .. Len(text)
      /\ e.end \in e.start .. Len(text) /\ Len(text) \in Nat /\ DOMAIN text = 1 .. Len(text)
      /\ out \in Seq(B) /\ Distinct(out) /\ From(out, text, 0, pos)
  BY DEF Fits, WrittenSoFar
<1>2. next.out = (out \o part) \o repl /\ next.pos = e.end
  <2>1. ~(e.start < done.pos)
    BY <1>1
  <2>2. next = [out |-> (out \o part) \o repl, pos |-> e.end]
    BY <2>1 DEF Cut
  <2> HIDE DEF next
  <2> QED BY <2>2
<1>3. part \in Seq(B) /\ Distinct(part) /\ From(part, text, pos, e.start)
  BY <1>1, PartOf
<1>4. repl \in Seq(B) /\ Distinct(repl) /\ From(repl, text, e.start, e.end)
  BY ReplacementOf
<1> HIDE DEF next, part, repl, pos, out
<1>5. /\ out \o part \in Seq(B) /\ Distinct(out \o part) /\ From(out \o part, text, 0, e.start)
      /\ BytesOf(out \o part) = BytesOf(out) \cup BytesOf(part)
      /\ \A p \in 1 .. pos : text[p] \notin Marks => text[p] \notin BytesOf(part)
  BY <1>1, <1>3, Continued
<1>6. /\ (out \o part) \o repl \in Seq(B) /\ Distinct((out \o part) \o repl)
      /\ From((out \o part) \o repl, text, 0, e.end)
      /\ BytesOf((out \o part) \o repl) = BytesOf(out \o part) \cup BytesOf(repl)
      /\ \A p \in 1 .. e.start : text[p] \notin Marks => text[p] \notin BytesOf(repl)
  <2> DEFINE so == out \o part
             low == e.start
             high == e.end
  <2>1. /\ so \in Seq(B) /\ Distinct(so) /\ From(so, text, 0, low)
        /\ low \in 0 .. Len(text) /\ high \in low .. Len(text)
        /\ repl \in Seq(B) /\ Distinct(repl) /\ From(repl, text, low, high)
    BY <1>1, <1>4, <1>5
  <2> HIDE DEF so, low, high
  <2>2. /\ so \o repl \in Seq(B) /\ Distinct(so \o repl) /\ From(so \o repl, text, 0, high)
        /\ BytesOf(so \o repl) = BytesOf(so) \cup BytesOf(repl)
        /\ \A p \in 1 .. low : text[p] \notin Marks => text[p] \notin BytesOf(repl)
    BY <2>1, Continued
  <2> QED BY <2>2 DEF so, low, high
<1>7. WrittenSoFar(next, text, B)
  BY <1>1, <1>2, <1>6 DEF WrittenSoFar
<1>8. ASSUME NEW p \in Gone(done, text) PROVE p \in Gone(next, text)
  <2>1. p \in 1 .. pos /\ text[p] \notin Marks /\ text[p] \notin BytesOf(out)
    BY DEF Gone, pos, out
  <2>2. p \in 1 .. e.start /\ p \in 1 .. e.end
    BY <1>1, <2>1
  <2>3. text[p] \notin BytesOf(next.out)
    BY <1>2, <1>5, <1>6, <2>1, <2>2
  <2> QED BY <1>2, <2>1, <2>2, <2>3 DEF Gone
<1>9. ASSUME NEW p \in e.start + 1 .. e.end, text[p] \in Hides(text, e), text[p] \notin Marks
      PROVE  p \in Gone(next, text)
  <2>1. text[p] \notin BytesOf(repl)
    BY <1>9 DEF Hides, repl
  <2>2. text[p] \notin BytesOf(out \o part)
    <3> SUFFICES ASSUME NEW i \in DOMAIN (out \o part), (out \o part)[i] = text[p] PROVE FALSE
      BY DEF BytesOf
    <3>1. PICK q \in 0 + 1 .. e.start : (out \o part)[i] = text[q]
      BY <1>5, <1>9 DEF From
    <3>2. p \in DOMAIN text /\ q \in DOMAIN text /\ p # q
      BY <1>1
    <3> QED BY <1>9, <3>1, <3>2 DEF Distinct
  <2>3. p \in 1 .. e.end
    BY <1>1
  <2> QED BY <1>2, <1>6, <1>9, <2>1, <2>2, <2>3 DEF Gone
<1> QED BY <1>2, <1>7, <1>8, <1>9 DEF Erased, next

\* One step of the loop over the edits.
Loop(f, n, text, s) == IF n = 0 THEN [out |-> <<>>, pos |-> 0] ELSE Cut(text, f[n - 1], s[n])

IsLoop(f, m, text, s) == f = [n \in 0 .. m |-> Loop(f, n, text, s)]

\* The loop has a result for every number of edits.
LEMMA LoopExists ==
    ASSUME NEW text, NEW E, NEW s \in Seq(E)
    PROVE  \E f : IsLoop(f, Len(s), text, s)
<1> DEFINE Has(m) == \E f : IsLoop(f, m, text, s)
           Bad == {m \in 0 .. Len(s) : ~Has(m)}
<1>1. Bad = {}
  <2> SUFFICES ASSUME Bad # {} PROVE FALSE
    OBVIOUS
  <2>1. Bad \in SUBSET Nat
    OBVIOUS
  <2>2. PICK m \in Bad : \A k \in Bad : m <= k
    <3> HIDE DEF Bad
    <3> QED BY <2>1, LeastNatural
  <2>3. ASSUME m = 0 PROVE FALSE
    <3> DEFINE f == [n \in 0 .. 0 |-> [out |-> <<>>, pos |-> 0]]
    <3>1. f = [n \in 0 .. 0 |-> Loop(f, n, text, s)]
      BY DEF Loop
    <3>2. IsLoop(f, 0, text, s)
      BY <3>1 DEF IsLoop
    <3> QED BY <2>3, <3>2
  <2>4. ASSUME m # 0 PROVE FALSE
    <3>1. m - 1 \in 0 .. Len(s) /\ ~(m <= m - 1) /\ m \in Nat
      BY <2>4
    <3>2. Has(m - 1)
      BY <2>2, <3>1
    <3>3. PICK f : f = [n \in 0 .. m - 1 |-> Loop(f, n, text, s)]
      BY <3>2 DEF IsLoop
    <3> DEFINE g == [n \in 0 .. m |-> IF n = m THEN Loop(f, m, text, s) ELSE f[n]]
    <3>4. ASSUME NEW n \in 0 .. m PROVE g[n] = Loop(g, n, text, s)
      <4>1. n # 0 => g[n - 1] = f[n - 1]
        BY <3>1
      <4>2. Loop(g, n, text, s) = Loop(f, n, text, s)
        BY <4>1 DEF Loop
      <4>3. n # m => n \in 0 .. m - 1
        BY <3>1
      <4>4. n # m => f[n] = Loop(f, n, text, s)
        BY <3>3, <4>3
      <4> QED BY <4>2, <4>4
    <3>5. g = [n \in 0 .. m |-> Loop(g, n, text, s)]
      <4>1. g = [n \in 0 .. m |-> g[n]]
        OBVIOUS
      <4> HIDE DEF g
      <4> QED BY <3>4, <4>1
    <3>6. IsLoop(g, m, text, s)
      BY <3>5 DEF IsLoop
    <3> QED BY <3>6
  <2> QED BY <2>3, <2>4
<1>2. Len(s) \in 0 .. Len(s)
  OBVIOUS
<1> QED BY <1>1, <1>2

\* The loop computes what the definition of Rewrite says.
LEMMA RewriteIsLoop ==
    ASSUME NEW text, NEW E, NEW s \in Seq(E), s # <<>>
    PROVE  \E f : /\ IsLoop(f, Len(s), text, s)
                  /\ Rewrite(text, s) = f[Len(s)].out \o SubSeq(text, f[Len(s)].pos + 1, Len(text))
<1> DEFINE done == CHOOSE f : f = [n \in 0 .. Len(s) |->
                        IF n = 0 THEN [out |-> <<>>, pos |-> 0] ELSE Cut(text, f[n - 1], s[n])]
<1>1. \E f : f = [n \in 0 .. Len(s) |->
                        IF n = 0 THEN [out |-> <<>>, pos |-> 0] ELSE Cut(text, f[n - 1], s[n])]
  <2>1. PICK f : IsLoop(f, Len(s), text, s)
    BY LoopExists
  <2>2. f = [n \in 0 .. Len(s) |->
                IF n = 0 THEN [out |-> <<>>, pos |-> 0] ELSE Cut(text, f[n - 1], s[n])]
    BY <2>1, Zenon DEF Loop, IsLoop
  <2> QED BY <2>2
<1>2. done = [n \in 0 .. Len(s) |->
                IF n = 0 THEN [out |-> <<>>, pos |-> 0] ELSE Cut(text, done[n - 1], s[n])]
  BY <1>1
<1>3. Rewrite(text, s) = done[Len(s)].out \o SubSeq(text, done[Len(s)].pos + 1, Len(text))
  BY DEF Rewrite
<1> HIDE DEF done
<1>4. IsLoop(done, Len(s), text, s)
  BY <1>2, Zenon DEF Loop, IsLoop
<1> QED BY <1>3, <1>4

\* A redaction hides its whole segment.
LEMMA RedactionHides ==
    ASSUME NEW B, Marks \subseteq B, NEW text \in Seq(B), Distinct(text), NEW e, Fits(e, text),
           e.action = "redact", NEW p \in e.start + 1 .. e.end, text[p] \notin Marks
    PROVE  text[p] \in Hides(text, e)
<1>1. /\ e.start \in 0 .. Len(text) /\ e.end \in e.start .. Len(text) /\ Len(text) \in Nat
  BY DEF Fits
<1> DEFINE seg == Segment(text, e)
<1>2. /\ seg \in Seq(B) /\ Len(seg) = e.end - e.start
      /\ \A i \in 1 .. e.end - e.start : seg[i] = text[e.start + i]
  <2> DEFINE low == e.start
             high == e.end
  <2>1. low \in 0 .. Len(text) /\ high \in low .. Len(text) /\ seg = SubSeq(text, low + 1, high)
    BY <1>1 DEF Segment
  <2> HIDE DEF low, high, seg
  <2>2. /\ seg \in Seq(B) /\ Len(seg) = high - low
        /\ \A i \in 1 .. high - low : seg[i] = text[low + i]
    BY <2>1, PartOf
  <2> QED BY <2>2 DEF low, high
<1> HIDE DEF seg
<1>3. p - e.start \in 1 .. e.end - e.start /\ e.start + (p - e.start) = p
  BY <1>1
<1>4. p - e.start \in DOMAIN seg /\ seg[p - e.start] = text[p]
  BY <1>2, <1>3
<1>5. text[p] \in BytesOf(seg)
  BY <1>4 DEF BytesOf
<1>6. BytesOf(Replacement(text, e)) = {Redacted}
  BY DEF Replacement, BytesOf
<1> QED BY <1>5, <1>6 DEF Hides, seg, Marks

\* Edits in the order of their starts, and one that meets no other.
InOrder(s) == \A i, j \in 1 .. Len(s) : i < j => s[i].start <= s[j].start

Alone(s, k) == \A j \in 1 .. Len(s) : j # k => ~Meets(s[k], s[j])

\* What the loop has achieved after n edits.
HiddenSoFar(done, n, text, s) ==
    /\ \A k \in 1 .. n : Alone(s, k) => Erased(done, text, s[k])
    /\ (\A j \in 1 .. Len(s) : s[j].action = "redact") =>
          \A k \in 1 .. n : s[k].start < s[k].end /\ text[s[k].start + 1] \notin Marks
                                => s[k].start + 1 \in Gone(done, text)

AtAnEnd(done, n, text, s) ==
    done.pos # 0 => \E j \in 1 .. n : done.pos = s[j].end /\ Erased(done, text, s[j])

LoopInv(done, n, text, s, B) ==
    WrittenSoFar(done, text, B) /\ AtAnEnd(done, n, text, s) /\ HiddenSoFar(done, n, text, s)

\* One edit more, made or skipped.
LEMMA CutKeepsLoopInv ==
    ASSUME NEW B, Marks \subseteq B, NEW text \in Seq(B), Distinct(text),
           NEW E, NEW s \in Seq(E), \A i \in 1 .. Len(s) : Fits(s[i], text), InOrder(s),
           NEW n \in 1 .. Len(s), NEW done, LoopInv(done, n - 1, text, s, B)
    PROVE  LoopInv(Cut(text, done, s[n]), n, text, s, B)
<1> DEFINE e == s[n]
           next == Cut(text, done, e)
<1>1. /\ Fits(e, text) /\ WrittenSoFar(done, text, B) /\ Len(text) \in Nat /\ Len(s) \in Nat
      /\ e.start \in Nat /\ e.end \in Nat /\ done.pos \in 0 .. Len(text)
  BY DEF LoopInv, WrittenSoFar, Fits
<1>2. \A k \in 1 .. n : k # n => k \in 1 .. n - 1
  OBVIOUS
<1>3. CASE done.pos <= e.start
  <2>1. /\ WrittenSoFar(next, text, B) /\ next.pos = e.end
        /\ Gone(done, text) \subseteq Gone(next, text) /\ Erased(next, text, e)
    BY <1>1, <1>3, CutContinues
  <2> HIDE DEF next
  <2>2. AtAnEnd(next, n, text, s)
    BY <2>1 DEF AtAnEnd
  <2>3. ASSUME NEW k \in 1 .. n, Alone(s, k) PROVE Erased(next, text, s[k])
    <3>1. k # n => Erased(done, text, s[k])
      BY <1>2, <2>3 DEF LoopInv, HiddenSoFar
    <3> QED BY <2>1, <3>1 DEF Erased
  <2>4. ASSUME \A j \in 1 .. Len(s) : s[j].action = "redact", NEW k \in 1 .. n,
               s[k].start < s[k].end, text[s[k].start + 1] \notin Marks
        PROVE  s[k].start + 1 \in Gone(next, text)
    <3>1. k # n => s[k].start + 1 \in Gone(done, text)
      BY <1>2, <2>4 DEF LoopInv, HiddenSoFar
    <3>2. ASSUME k = n PROVE s[k].start + 1 \in Gone(next, text)
      <4>1. e.start + 1 \in e.start + 1 .. e.end /\ e.action = "redact"
        BY <1>1, <2>4, <3>2
      <4>2. text[e.start + 1] \in Hides(text, e)
        BY <1>1, <2>4, <3>2, <4>1, RedactionHides
      <4> QED BY <2>1, <2>4, <3>2, <4>1, <4>2 DEF Erased
    <3> QED BY <2>1, <3>1, <3>2
  <2> QED BY <2>1, <2>2, <2>3, <2>4 DEF LoopInv, HiddenSoFar, next
<1>4. CASE ~(done.pos <= e.start)
  <2>1. e.start < done.pos /\ done.pos # 0
    BY <1>1, <1>4
  <2>2. next = done
    BY <2>1 DEF Cut
  <2>3. PICK j \in 1 .. n - 1 : done.pos = s[j].end /\ Erased(done, text, s[j])
    BY <2>1 DEF LoopInv, AtAnEnd
  <2>4. /\ j \in 1 .. Len(s) /\ j # n /\ j \in 1 .. n /\ s[j].start <= e.start /\ e.start < s[j].end
        /\ s[j].start \in Nat /\ s[j].end \in Nat /\ Fits(s[j], text)
    BY <1>1, <2>1, <2>3 DEF InOrder, Fits
  <2>5. AtAnEnd(done, n, text, s)
    BY <2>3, <2>4 DEF AtAnEnd
  <2>6. ASSUME NEW k \in 1 .. n, Alone(s, k) PROVE Erased(done, text, s[k])
    <3>1. k # n => Erased(done, text, s[k])
      BY <1>2, <2>6 DEF LoopInv, HiddenSoFar
    <3>2. ASSUME k = n PROVE ~(e.start < e.end)
      <4>1. ~Meets(e, s[j])
        BY <2>4, <2>6, <3>2 DEF Alone
      <4> QED BY <1>1, <2>4, <4>1 DEF Meets
    <3>3. ASSUME k = n PROVE Erased(done, text, s[k])
      BY <1>1, <3>2, <3>3 DEF Erased
    <3> QED BY <3>1, <3>3
  <2>7. ASSUME \A i \in 1 .. Len(s) : s[i].action = "redact", NEW k \in 1 .. n,
               s[k].start < s[k].end, text[s[k].start + 1] \notin Marks
        PROVE  s[k].start + 1 \in Gone(done, text)
    <3>1. k # n => s[k].start + 1 \in Gone(done, text)
      BY <1>2, <2>7 DEF LoopInv, HiddenSoFar
    <3>2. ASSUME k = n PROVE s[k].start + 1 \in Gone(done, text)
      <4> DEFINE p == e.start + 1
                 g == s[j]
      <4>1. p \in g.start + 1 .. g.end /\ g.action = "redact" /\ text[p] \notin Marks /\ Fits(g, text)
        BY <1>1, <2>4, <2>7, <3>2
      <4>3. Erased(done, text, g)
        BY <2>3
      <4> HIDE DEF p, g
      <4>2. text[p] \in Hides(text, g)
        BY <4>1, RedactionHides
      <4>4. p \in Gone(done, text)
        BY <4>1, <4>2, <4>3 DEF Erased
      <4> QED BY <3>2, <4>4 DEF p
    <3> QED BY <3>1, <3>2
  <2>8. HiddenSoFar(done, n, text, s)
    BY <2>6, <2>7 DEF HiddenSoFar
  <2> QED BY <1>1, <2>2, <2>5, <2>8 DEF LoopInv
<1> QED BY <1>3, <1>4

\* After all edits.
LEMMA LoopInvariant ==
    ASSUME NEW B, Marks \subseteq B, NEW text \in Seq(B), Distinct(text),
           NEW E, NEW s \in Seq(E), \A i \in 1 .. Len(s) : Fits(s[i], text), InOrder(s),
           NEW f, IsLoop(f, Len(s), text, s)
    PROVE  LoopInv(f[Len(s)], Len(s), text, s, B)
<1> DEFINE Bad == {n \in 0 .. Len(s) : ~LoopInv(f[n], n, text, s, B)}
<1>1. Len(s) \in Nat
  OBVIOUS
<1>2. \A n \in 0 .. Len(s) : f[n] = Loop(f, n, text, s)
  BY DEF IsLoop
<1>3. Bad = {}
  <2> SUFFICES ASSUME Bad # {} PROVE FALSE
    OBVIOUS
  <2>1. Bad \in SUBSET Nat
    OBVIOUS
  <2>2. PICK n \in Bad : \A k \in Bad : n <= k
    <3> HIDE DEF Bad
    <3> QED BY <2>1, LeastNatural
  <2>3. n \in 0 .. Len(s) /\ ~LoopInv(f[n], n, text, s, B)
    OBVIOUS
  <2>4. ASSUME n = 0 PROVE FALSE
    <3> DEFINE none == [out |-> <<>>, pos |-> 0]
    <3>1. f[n] = none /\ none.out = <<>> /\ none.pos = 0
      BY <1>2, <2>4 DEF Loop
    <3> HIDE DEF none
    <3>2. WrittenSoFar(none, text, B)
      BY <3>1 DEF WrittenSoFar, Distinct, From
    <3>3. AtAnEnd(none, 0, text, s) /\ HiddenSoFar(none, 0, text, s)
      BY <3>1 DEF AtAnEnd, HiddenSoFar
    <3> QED BY <2>3, <2>4, <3>1, <3>2, <3>3 DEF LoopInv
  <2>5. ASSUME n # 0 PROVE FALSE
    <3>1. n - 1 \in 0 .. Len(s) /\ ~(n <= n - 1) /\ n \in 1 .. Len(s)
      BY <2>3, <2>5
    <3>2. LoopInv(f[n - 1], n - 1, text, s, B)
      BY <2>2, <3>1
    <3>3. f[n] = Cut(text, f[n - 1], s[n])
      BY <1>2, <2>3, <2>5 DEF Loop
    <3>4. LoopInv(Cut(text, f[n - 1], s[n]), n, text, s, B)
      BY <3>1, <3>2, CutKeepsLoopInv
    <3> QED BY <2>3, <3>3, <3>4
  <2> QED BY <2>4, <2>5
<1>4. Len(s) \in 0 .. Len(s)
  BY <1>1
<1> QED BY <1>3, <1>4

\* The sorted edits are the edits, each of them once.
LEMMA SortedEditsAreTheEdits ==
    ASSUME NEW edits, IsFiniteSet(edits), NEW s \in SortedEdits(edits)
    PROVE  /\ s \in Seq(edits) /\ InOrder(s)
           /\ \A i, j \in 1 .. Len(s) : i # j => s[i] # s[j]
           /\ \A e \in edits : \E k \in 1 .. Len(s) : s[k] = e
<1> DEFINE n == Cardinality(edits)
<1>1. n \in Nat /\ IsFiniteSet(1 .. n) /\ Cardinality(1 .. n) = n
  <2>1. n \in Nat
    BY FS_CardinalityType
  <2> HIDE DEF n
  <2>2. 1 \in Int /\ n \in Int /\ (n < 1 => n = 0)
    BY <2>1
  <2>3. IsFiniteSet(1 .. n) /\ Cardinality(1 .. n) = IF 1 > n THEN 0 ELSE n - 1 + 1
    BY <2>2, FS_Interval
  <2> QED BY <2>1, <2>2, <2>3
<1>2. /\ s \in [1 .. n -> edits]
      /\ \A i, j \in 1 .. n : i # j => s[i] # s[j]
      /\ \A i, j \in 1 .. n : i < j => s[i].start <= s[j].start
  <2>1. s \in SetToSeqs(edits) /\ \A i, j \in DOMAIN s : i < j => s[i].start <= s[j].start
    BY DEF SortedEdits
  <2>2. s \in [1 .. n -> edits] /\ \A i, j \in 1 .. n : i # j => s[i] # s[j]
    BY <2>1 DEF SetToSeqs
  <2> HIDE DEF n
  <2> QED BY <2>1, <2>2
<1>3. \A e \in edits : \E k \in 1 .. n : s[k] = e
  <2>1. s \in Injection(1 .. n, edits)
    BY <1>2 DEF Injection, IsInjective
  <2>2. Cardinality(1 .. n) = Cardinality(edits) <=> s \in Surjection(1 .. n, edits)
    <3> HIDE DEF n
    <3> QED BY <2>1, FS_Injection
  <2>3. s \in Surjection(1 .. n, edits)
    BY <1>1, <2>2
  <2> HIDE DEF n
  <2> QED BY <2>3 DEF Surjection
<1> HIDE DEF n
<1>4. s \in Seq(edits) /\ Len(s) = n
  BY <1>1, <1>2
<1> QED BY <1>2, <1>3, <1>4 DEF InOrder

LEMMA MustHideCases ==
    ASSUME NEW text, NEW edits, NEW x \in MustHide(text, edits)
    PROVE  \/ \E e \in edits : (\A f \in edits \ {e} : ~Meets(e, f)) /\ x \in Hides(text, e)
           \/ \E e \in edits : /\ e.start < e.end /\ \A f \in edits : f.action = "redact"
                                /\ x = text[e.start + 1]
<1>1. ASSUME x \in UNION {Hides(text, e) : e \in {d \in edits : \A f \in edits \ {d} : ~Meets(d, f)}}
      PROVE  \E e \in edits : (\A f \in edits \ {e} : ~Meets(e, f)) /\ x \in Hides(text, e)
  BY <1>1, Zenon
<1>2. ASSUME x \in {text[e.start + 1] : e \in {d \in edits : /\ d.start < d.end
                                                         /\ \A f \in edits : f.action = "redact"}}
      PROVE  \E e \in edits : /\ e.start < e.end /\ \A f \in edits : f.action = "redact"
                              /\ x = text[e.start + 1]
  BY <1>2, Zenon
<1> QED BY <1>1, <1>2, Zenon DEF MustHide

\* What a loop has erased is not in the text that Rewrite returns, nor is anything new.
LEMMA RewriteHides ==
    ASSUME NEW B, Marks \subseteq B, NEW text \in Seq(B), Distinct(text),
           NEW edits, IsFiniteSet(edits), \A e \in edits : Fits(e, text),
           NEW s \in SortedEdits(edits)
    PROVE  /\ Rewrite(text, s) \in Seq(B) /\ Distinct(Rewrite(text, s))
           /\ From(Rewrite(text, s), text, 0, Len(text))
           /\ Own(MustHide(text, edits)) \cap BytesOf(Rewrite(text, s)) = {}
<1> DEFINE result == Rewrite(text, s)
<1>1. /\ s \in Seq(edits) /\ InOrder(s) /\ Len(s) \in Nat
      /\ \A i, j \in 1 .. Len(s) : i # j => s[i] # s[j]
      /\ \A e \in edits : \E k \in 1 .. Len(s) : s[k] = e
  BY SortedEditsAreTheEdits
<1>2. \A i \in 1 .. Len(s) : s[i] \in edits /\ Fits(s[i], text)
  BY <1>1
<1>3. Len(text) \in Nat /\ DOMAIN text = 1 .. Len(text)
  OBVIOUS
<1>4. CASE s = <<>>
  <2>1. edits = {}
    BY <1>1, <1>4
  <2>2. MustHide(text, edits) = {}
    BY <2>1 DEF MustHide
  <2>3. result = text
    BY <1>4 DEF Rewrite
  <2>4. From(text, text, 0, Len(text))
    BY <1>3 DEF From
  <2> HIDE DEF result
  <2> QED BY <2>2, <2>3, <2>4 DEF Own, result
<1>5. CASE s # <<>>
  <2>1. PICK f : /\ IsLoop(f, Len(s), text, s)
                 /\ result = f[Len(s)].out \o SubSeq(text, f[Len(s)].pos + 1, Len(text))
    BY <1>1, <1>5, RewriteIsLoop
  <2> DEFINE done == f[Len(s)]
             out == done.out
             pos == done.pos
             all == Len(text)
             rest == SubSeq(text, pos + 1, all)
  <2>2. LoopInv(done, Len(s), text, s, B)
    <3> HIDE DEF done
    <3> QED BY <1>1, <1>2, <2>1, LoopInvariant DEF done
  <2> HIDE DEF done
  <2>3. /\ pos \in 0 .. all /\ all \in pos .. Len(text) /\ pos \in 0 .. Len(text)
        /\ out \in Seq(B) /\ Distinct(out) /\ From(out, text, 0, pos)
    BY <1>3, <2>2 DEF LoopInv, WrittenSoFar
  <2>4. result = out \o rest
    BY <2>1 DEF done
  <2> HIDE DEF out, pos, all
  <2>5. rest \in Seq(B) /\ Distinct(rest) /\ From(rest, text, pos, all)
    BY <2>3, PartOf
  <2> HIDE DEF rest, result
  <2>6. /\ result \in Seq(B) /\ Distinct(result) /\ From(result, text, 0, all)
        /\ BytesOf(result) = BytesOf(out) \cup BytesOf(rest)
        /\ \A p \in 1 .. pos : text[p] \notin Marks => text[p] \notin BytesOf(rest)
    BY <2>3, <2>4, <2>5, Continued
  <2>7. ASSUME NEW p \in Gone(done, text) PROVE text[p] \notin BytesOf(result)
    <3>1. p \in 1 .. pos /\ text[p] \notin Marks /\ text[p] \notin BytesOf(out)
      BY DEF Gone, pos, out
    <3> QED BY <2>6, <3>1
  <2>8. ASSUME NEW e \in edits, \A g \in edits \ {e} : ~Meets(e, g),
               NEW x \in Hides(text, e), x \notin Marks
        PROVE  x \notin BytesOf(result)
    <3>1. PICK k \in 1 .. Len(s) : s[k] = e
      BY <1>1
    <3>2. Alone(s, k)
      BY <1>1, <1>2, <2>8, <3>1 DEF Alone
    <3>3. Erased(done, text, e)
      BY <1>1, <2>2, <3>1, <3>2 DEF LoopInv, HiddenSoFar
    <3>4. PICK p \in e.start + 1 .. e.end : x = text[p]
      <4> DEFINE low == e.start
                 high == e.end
      <4>1. low \in 0 .. Len(text) /\ high \in low .. Len(text)
        BY <1>3 DEF Fits
      <4> HIDE DEF low, high
      <4>2. /\ Len(SubSeq(text, low + 1, high)) = high - low
            /\ \A i \in 1 .. high - low : SubSeq(text, low + 1, high)[i] = text[low + i]
            /\ SubSeq(text, low + 1, high) \in Seq(B)
        BY <4>1, PartOf
      <4>3. x \in BytesOf(SubSeq(text, low + 1, high))
        BY DEF Hides, Segment, low, high
      <4>4. PICK i \in 1 .. high - low : x = SubSeq(text, low + 1, high)[i]
        BY <4>2, <4>3 DEF BytesOf
      <4>5. low + i \in low + 1 .. high /\ x = text[low + i]
        BY <4>1, <4>2, <4>4
      <4> QED BY <4>5 DEF low, high
    <3> QED BY <2>7, <2>8, <3>3, <3>4 DEF Erased
  <2>9. ASSUME NEW e \in edits, e.start < e.end, \A g \in edits : g.action = "redact",
               text[e.start + 1] \notin Marks
        PROVE  text[e.start + 1] \notin BytesOf(result)
    <3>1. PICK k \in 1 .. Len(s) : s[k] = e
      BY <1>1
    <3>2. e.start + 1 \in Gone(done, text)
      BY <1>1, <1>2, <2>2, <2>9, <3>1 DEF LoopInv, HiddenSoFar
    <3> QED BY <2>7, <3>2
  <2>10. ASSUME NEW x \in MustHide(text, edits), x \notin Marks PROVE x \notin BytesOf(result)
    BY <2>8, <2>9, <2>10, MustHideCases
  <2>11. Own(MustHide(text, edits)) \cap BytesOf(result) = {}
    BY <2>10 DEF Own
  <2>12. all = Len(text)
    BY DEF all
  <2> QED BY <2>6, <2>11, <2>12 DEF result
<1> QED BY <1>4, <1>5

\* What has to be hidden is in the text.
LEMMA HidesItsOwn ==
    ASSUME NEW B, NEW text \in Seq(B), NEW edits, \A e \in edits : Fits(e, text)
    PROVE  MustHide(text, edits) \subseteq BytesOf(text)
<1>1. Len(text) \in Nat /\ DOMAIN text = 1 .. Len(text)
  OBVIOUS
<1>2. ASSUME NEW e \in edits, NEW x \in Hides(text, e) PROVE x \in BytesOf(text)
  <2>1. e.start \in Nat /\ e.end \in Nat /\ e.start <= e.end /\ e.end <= Len(text)
    BY DEF Fits
  <2>2. x \in BytesOf(SubSeq(text, e.start + 1, e.end))
    BY DEF Hides, Segment
  <2> DEFINE low == e.start
             high == e.end
  <2>3. low \in 0 .. Len(text) /\ high \in low .. Len(text) /\ x \in BytesOf(SubSeq(text, low + 1, high))
    BY <1>1, <2>1, <2>2
  <2> HIDE DEF low, high
  <2>4. PICK i \in DOMAIN SubSeq(text, low + 1, high) : x = SubSeq(text, low + 1, high)[i]
    BY <2>3 DEF BytesOf
  <2>5. i \in 1 .. high - low /\ x = text[low + i]
    BY <1>1, <2>3, <2>4
  <2>6. low + i \in DOMAIN text
    BY <1>1, <2>3, <2>5
  <2> QED BY <2>5, <2>6 DEF BytesOf
<1>3. ASSUME NEW e \in edits, e.start < e.end PROVE text[e.start + 1] \in BytesOf(text)
  <2>1. e.start + 1 \in DOMAIN text
    BY <1>1, <1>3 DEF Fits
  <2> QED BY <2>1 DEF BytesOf
<1> QED BY <1>2, <1>3, MustHideCases

-----------------------------------------------------------------------------
(* Characters and bytes.                                                    *)

LEMMA CharStartsAreFinite ==
    ASSUME NEW B, NEW text \in Seq(B)
    PROVE  /\ CharStarts(text) \subseteq 1 .. Len(text) /\ IsFiniteSet(CharStarts(text))
           /\ Cardinality(CharStarts(text)) \in Nat /\ Cardinality(CharStarts(text)) <= Len(text)
<1> DEFINE n == Len(text)
           C == CharStarts(text)
<1>1. n \in Nat /\ C \subseteq 1 .. n
  BY DEF CharStarts
<1> HIDE DEF n, C
<1>2. 1 \in Int /\ n \in Int
  BY <1>1
<1>3. IsFiniteSet(1 .. n) /\ Cardinality(1 .. n) = IF 1 > n THEN 0 ELSE n - 1 + 1
  BY <1>2, FS_Interval
<1>4. IsFiniteSet(C) /\ Cardinality(C) <= Cardinality(1 .. n)
  BY <1>1, <1>3, FS_Subset
<1>5. Cardinality(C) \in Nat
  BY <1>4, FS_CardinalityType
<1>6. Cardinality(C) <= n
  BY <1>1, <1>3, <1>4, <1>5
<1> QED BY <1>1, <1>4, <1>5, <1>6 DEF n, C

\* Characters are counted from zero, and none twice.
LEMMA BeforeCounts ==
    ASSUME NEW B, NEW text \in Seq(B), NEW i \in CharStarts(text)
    PROVE  /\ Before(text, i) \in 0 .. Cardinality(CharStarts(text)) - 1
           /\ \A j \in CharStarts(text) : i < j => Before(text, i) < Before(text, j)
<1> DEFINE C == CharStarts(text)
           Less(j) == {k \in C : k < j}
<1>1. C \subseteq Nat /\ IsFiniteSet(C) /\ Cardinality(C) \in Nat
  <2>1. Len(text) \in Nat
    OBVIOUS
  <2> QED BY <2>1, CharStartsAreFinite
<1>2. i \in C /\ \A j : Before(text, j) = Cardinality(Less(j))
  BY DEF Before
<1> HIDE DEF C
<1>3. ASSUME NEW j \in C PROVE IsFiniteSet(Less(j)) /\ Cardinality(Less(j)) \in Nat
  <2>1. Less(j) \in SUBSET C
    OBVIOUS
  <2> HIDE DEF Less
  <2>2. IsFiniteSet(Less(j))
    BY <1>1, <2>1, FS_Subset
  <2> QED BY <2>2, FS_CardinalityType
<1>4. ASSUME NEW T, Less(i) \in SUBSET T, i \in T, IsFiniteSet(T)
      PROVE  Cardinality(Less(i)) < Cardinality(T)
  <2>1. Less(i) # T
    BY <1>1, <1>2, <1>4
  <2> HIDE DEF Less
  <2>2. Cardinality(Less(i)) <= Cardinality(T) /\ (Cardinality(T) = Cardinality(Less(i)) => T = Less(i))
    BY <1>4, FS_Subset
  <2>3. Cardinality(Less(i)) \in Nat /\ Cardinality(T) \in Nat
    BY <1>2, <1>3, <1>4, FS_CardinalityType
  <2> QED BY <2>1, <2>2, <2>3
<1>5. Cardinality(Less(i)) < Cardinality(C)
  <2>1. Less(i) \in SUBSET C
    OBVIOUS
  <2> HIDE DEF Less
  <2> QED BY <1>1, <1>2, <1>4, <2>1
<1>6. ASSUME NEW j \in C, i < j PROVE Cardinality(Less(i)) < Cardinality(Less(j))
  <2>1. Less(i) \in SUBSET Less(j) /\ i \in Less(j)
    <3>1. i \in Nat /\ j \in Nat /\ \A k \in C : k \in Nat
      BY <1>1, <1>2
    <3>2. \A k \in C : k < i => k < j
      BY <1>6, <3>1
    <3> QED BY <1>2, <1>6, <3>2
  <2>2. IsFiniteSet(Less(j))
    BY <1>3
  <2> HIDE DEF Less
  <2> QED BY <1>4, <2>1, <2>2
<1>7. Cardinality(Less(i)) \in 0 .. Cardinality(C) - 1
  <2>1. Cardinality(Less(i)) \in Nat
    BY <1>2, <1>3
  <2> HIDE DEF Less
  <2> QED BY <1>1, <1>5, <2>1
<1> HIDE DEF Less
<1> QED BY <1>2, <1>6, <1>7 DEF C

\* Every character begins somewhere.
LEMMA EveryCharacterBegins ==
    ASSUME NEW B, NEW text \in Seq(B), NEW n \in 0 .. Cardinality(CharStarts(text)) - 1
    PROVE  \E i \in CharStarts(text) : Before(text, i) = n
<1> DEFINE C == CharStarts(text)
           N == Cardinality(C)
           g == [i \in C |-> Before(text, i)]
<1>1. C \subseteq Nat /\ IsFiniteSet(C) /\ N \in Nat /\ n \in 0 .. N - 1
  <2>1. Len(text) \in Nat
    OBVIOUS
  <2> QED BY <2>1, CharStartsAreFinite
<1>2. \A i \in C : Before(text, i) \in 0 .. N - 1
  BY BeforeCounts
<1>3. \A i, j \in C : i < j => Before(text, i) < Before(text, j)
  BY BeforeCounts
<1> HIDE DEF C, N
<1>4. g \in [C -> 0 .. N - 1]
  BY <1>2
<1>5. ASSUME NEW i \in C, NEW j \in C, g[i] = g[j] PROVE i = j
  <2>1. i \in Nat /\ j \in Nat /\ Before(text, i) = Before(text, j) /\ Before(text, i) \in 0 .. N - 1
    BY <1>1, <1>2, <1>5
  <2>2. ~(i < j) /\ ~(j < i)
    BY <1>3, <2>1
  <2> QED BY <2>1, <2>2
<1>6. g \in Injection(C, 0 .. N - 1)
  BY <1>4, <1>5 DEF Injection, IsInjective
<1>7. IsFiniteSet(0 .. N - 1) /\ Cardinality(0 .. N - 1) = N
  <2> DEFINE M == N - 1
  <2>1. 0 \in Int /\ M \in Int /\ M - 0 + 1 = N /\ (0 > M => N = 0)
    BY <1>1
  <2> HIDE DEF M
  <2>2. IsFiniteSet(0 .. M) /\ Cardinality(0 .. M) = IF 0 > M THEN 0 ELSE M - 0 + 1
    BY <2>1, FS_Interval
  <2> QED BY <2>1, <2>2 DEF M
<1> HIDE DEF g
<1>8. g \in Surjection(C, 0 .. N - 1)
  BY <1>6, <1>7, FS_Injection DEF N
<1>9. PICK i \in C : g[i] = n
  BY <1>1, <1>8 DEF Surjection
<1> QED BY <1>9 DEF g, C

\* The byte offsets of a span of characters are in order, and within the text.
LEMMA ByteOffsetsAreInOrder ==
    ASSUME NEW B, NEW text \in Seq(B), NEW low \in Nat, NEW high \in Nat, low <= high,
           high <= Cardinality(CharStarts(text))
    PROVE  /\ ByteOffset(text, low) \in Nat /\ ByteOffset(text, high) \in Nat
           /\ ByteOffset(text, low) <= ByteOffset(text, high)
           /\ ByteOffset(text, high) <= Len(text)
<1> DEFINE C == CharStarts(text)
           N == Cardinality(C)
           At(n) == CHOOSE i \in C : Before(text, i) = n
<1>1. C \subseteq 1 .. Len(text) /\ N \in Nat /\ N <= Len(text) /\ Len(text) \in Nat
  BY CharStartsAreFinite
<1>2. ASSUME NEW n \in Nat, n < N PROVE At(n) \in C /\ Before(text, At(n)) = n
  <2>1. n \in 0 .. Cardinality(CharStarts(text)) - 1
    BY <1>1, <1>2
  <2>2. \E i \in C : Before(text, i) = n
    BY <2>1, EveryCharacterBegins
  <2> HIDE DEF C
  <2> QED BY <2>2
<1>3. \A n : ByteOffset(text, n) = IF n = N THEN Len(text) ELSE At(n) - 1
  BY DEF ByteOffset
<1>4. \A i, j \in C : i < j => Before(text, i) < Before(text, j)
  BY BeforeCounts
<1> HIDE DEF C, N, At
<1>5. low <= N /\ high <= N
  BY <1>1 DEF N, C
<1>6. ASSUME NEW n \in Nat, n < N PROVE ByteOffset(text, n) \in 0 .. Len(text)
  <2>1. At(n) \in 1 .. Len(text)
    BY <1>1, <1>2, <1>6
  <2>2. n # N
    BY <1>1, <1>6
  <2>3. ByteOffset(text, n) = At(n) - 1
    BY <1>3, <2>2
  <2> QED BY <1>1, <2>1, <2>3
<1>7. CASE high = N
  <2>1. ByteOffset(text, high) = Len(text)
    BY <1>3, <1>7
  <2>2. low < N => ByteOffset(text, low) \in 0 .. Len(text)
    BY <1>6
  <2>3. ~(low < N) => low = high
    BY <1>1, <1>5, <1>7
  <2> QED BY <1>1, <2>1, <2>2, <2>3
<1>8. CASE high # N
  <2>1. high < N /\ low < N
    BY <1>1, <1>5, <1>8
  <2>2. ByteOffset(text, low) = At(low) - 1 /\ ByteOffset(text, high) = At(high) - 1
    BY <1>1, <1>3, <2>1
  <2>3. /\ At(low) \in C /\ At(high) \in C /\ At(low) \in 1 .. Len(text) /\ At(high) \in 1 .. Len(text)
        /\ Before(text, At(low)) = low /\ Before(text, At(high)) = high
    BY <1>1, <1>2, <2>1
  <2>4. ~(At(high) < At(low))
    <3>1. At(high) < At(low) => high < low
      BY <1>4, <2>3
    <3> QED BY <3>1
  <2> QED BY <1>1, <2>2, <2>3, <2>4
<1> QED BY <1>7, <1>8

\* Every span of a detector becomes an edit that lies within the text.
LEMMA SpansFit ==
    ASSUME NEW B, NEW text \in Seq(B), NEW g, NEW f \in Findings, FitsIn(text, f), NEW s \in f,
           NEW action \in {"redact", "mask"}
    PROVE  Fits([start |-> AsBytes(g, text, s).start, end |-> AsBytes(g, text, s).end,
                 action |-> action], text)
<1>1. s.start \in Nat /\ s.end \in Nat /\ s.start <= s.end /\ s.end <= Cardinality(CharStarts(text))
  BY FindingsAssumption DEF FitsIn
<1>2. Cardinality(CharStarts(text)) \in Nat /\ Cardinality(CharStarts(text)) <= Len(text) /\ Len(text) \in Nat
  BY CharStartsAreFinite
<1> DEFINE low == s.start
           high == s.end
<1>3. /\ ByteOffset(text, low) \in Nat /\ ByteOffset(text, high) \in Nat
      /\ ByteOffset(text, low) <= ByteOffset(text, high)
      /\ ByteOffset(text, high) <= Len(text)
  <2>1. low \in Nat /\ high \in Nat /\ low <= high /\ high <= Cardinality(CharStarts(text))
    BY <1>1
  <2> HIDE DEF low, high
  <2> QED BY <2>1, ByteOffsetsAreInOrder
<1> DEFINE a == AsBytes(g, text, s)
           e == [start |-> a.start, end |-> a.end, action |-> action]
<1>4. a.start \in Nat /\ a.end \in Nat /\ a.start <= a.end /\ a.end <= Len(text)
  <2>1. CASE g.detector \in CharDetectors
    <3>1. a.start = low /\ a.end = high
      BY <2>1 DEF AsBytes
    <3> QED BY <1>1, <1>2, <3>1
  <2>2. CASE g.detector \notin CharDetectors
    <3>1. a.start = ByteOffset(text, low) /\ a.end = ByteOffset(text, high)
      BY <2>2 DEF AsBytes
    <3> QED BY <1>3, <3>1
  <2> QED BY <2>1, <2>2
<1> HIDE DEF a
<1>5. e.start = a.start /\ e.end = a.end /\ e.action = action
  OBVIOUS
<1> QED BY <1>4, <1>5 DEF Fits, a

-----------------------------------------------------------------------------
(* The text of a list of messages.                                          *)

Bodies == Inputs \cup Outputs

\* One step of the loop of Concat, and its result for the first m messages.
Joined(f, n, ms) ==
    IF n = 0 THEN <<>> ELSE f[n - 1] \o (IF n = 1 THEN ms[n] ELSE <<NewLine>> \o ms[n])

IsJoin(f, m, ms) == f = [n \in 0 .. m |-> Joined(f, n, ms)]

LEMMA JoinExists ==
    ASSUME NEW E, NEW ms \in Seq(E)
    PROVE  \E f : IsJoin(f, Len(ms), ms)
<1> DEFINE Bad == {m \in 0 .. Len(ms) : ~ \E f : IsJoin(f, m, ms)}
<1>1. Bad = {}
  <2> SUFFICES ASSUME Bad # {} PROVE FALSE
    OBVIOUS
  <2>1. Bad \in SUBSET Nat
    OBVIOUS
  <2>2. PICK m \in Bad : \A k \in Bad : m <= k
    <3> HIDE DEF Bad
    <3> QED BY <2>1, LeastNatural
  <2>3. ASSUME m = 0 PROVE FALSE
    <3> DEFINE f == [n \in 0 .. 0 |-> <<>>]
    <3>1. f = [n \in 0 .. 0 |-> Joined(f, n, ms)]
      BY DEF Joined
    <3>2. IsJoin(f, 0, ms)
      BY <3>1 DEF IsJoin
    <3> QED BY <2>3, <3>2
  <2>4. ASSUME m # 0 PROVE FALSE
    <3>1. m - 1 \in 0 .. Len(ms) /\ ~(m <= m - 1) /\ m \in Nat
      BY <2>4
    <3>2. PICK f : f = [n \in 0 .. m - 1 |-> Joined(f, n, ms)]
      BY <2>2, <3>1 DEF IsJoin
    <3> DEFINE g == [n \in 0 .. m |-> IF n = m THEN Joined(f, m, ms) ELSE f[n]]
    <3>3. ASSUME NEW n \in 0 .. m PROVE g[n] = Joined(g, n, ms)
      <4>1. n # 0 => g[n - 1] = f[n - 1]
        BY <3>1
      <4>2. Joined(g, n, ms) = Joined(f, n, ms)
        BY <4>1 DEF Joined
      <4>3. n # m => n \in 0 .. m - 1
        BY <3>1
      <4>4. n # m => f[n] = Joined(f, n, ms)
        BY <3>2, <4>3
      <4> QED BY <4>2, <4>4
    <3>4. g = [n \in 0 .. m |-> Joined(g, n, ms)]
      <4>1. g = [n \in 0 .. m |-> g[n]]
        OBVIOUS
      <4> HIDE DEF g
      <4> QED BY <3>3, <4>1
    <3>5. IsJoin(g, m, ms)
      BY <3>4 DEF IsJoin
    <3> QED BY <3>5
  <2> QED BY <2>3, <2>4
<1>2. Len(ms) \in 0 .. Len(ms)
  OBVIOUS
<1> QED BY <1>1, <1>2

LEMMA ConcatIsJoin ==
    ASSUME NEW E, NEW ms \in Seq(E)
    PROVE  \E f : IsJoin(f, Len(ms), ms) /\ Concat(ms) = f[Len(ms)]
<1> DEFINE upto == CHOOSE f : f = [n \in 0 .. Len(ms) |->
                        IF n = 0 THEN <<>>
                        ELSE f[n - 1] \o (IF n = 1 THEN ms[n] ELSE <<NewLine>> \o ms[n])]
<1>1. \E f : f = [n \in 0 .. Len(ms) |->
                        IF n = 0 THEN <<>>
                        ELSE f[n - 1] \o (IF n = 1 THEN ms[n] ELSE <<NewLine>> \o ms[n])]
  <2>1. PICK f : IsJoin(f, Len(ms), ms)
    BY JoinExists
  <2>2. f = [n \in 0 .. Len(ms) |->
                IF n = 0 THEN <<>>
                ELSE f[n - 1] \o (IF n = 1 THEN ms[n] ELSE <<NewLine>> \o ms[n])]
    BY <2>1, Zenon DEF Joined, IsJoin
  <2> QED BY <2>2
<1>2. upto = [n \in 0 .. Len(ms) |->
                IF n = 0 THEN <<>>
                ELSE upto[n - 1] \o (IF n = 1 THEN ms[n] ELSE <<NewLine>> \o ms[n])]
  BY <1>1
<1>3. Concat(ms) = upto[Len(ms)]
  BY DEF Concat
<1> HIDE DEF upto
<1>4. IsJoin(upto, Len(ms), ms)
  BY <1>2, Zenon DEF Joined, IsJoin
<1> QED BY <1>3, <1>4

\* A text of the first n messages: each of their bytes, and nothing else.
Joins(text, n, ms, B) ==
    /\ text \in Seq(B) /\ Distinct(text)
    /\ \A i \in 1 .. n : BytesOf(ms[i]) \subseteq BytesOf(text)
    /\ \A x \in BytesOf(text) : x \in Marks \/ \E i \in 1 .. n : x \in BytesOf(ms[i])

LEMMA JoinKeepsJoins ==
    ASSUME NEW b \in Bodies, NEW B, B = Written(b) \cup Marks,
           NEW n \in 1 .. Len(b.msgs), NEW text, Joins(text, n - 1, b.msgs, B)
    PROVE  Joins(text \o (IF n = 1 THEN b.msgs[n] ELSE <<NewLine>> \o b.msgs[n]), n, b.msgs, B)
<1> DEFINE ms == b.msgs
           m == ms[n]
           nl == <<NewLine>>
           more == IF n = 1 THEN m ELSE nl \o m
           all == text \o more
<1>1. /\ ms \in Seq(Seq(Written(b))) /\ Written(b) \cap Marks = {}
      /\ \A i, j \in DOMAIN ms : \A k \in DOMAIN ms[i], l \in DOMAIN ms[j] :
           ms[i][k] = ms[j][l] => i = j /\ k = l
  BY MessagesAssumption DEF Bodies
<1>2. n \in DOMAIN ms /\ m \in Seq(Written(b)) /\ m \in Seq(B)
  <2>1. n \in DOMAIN ms /\ m \in Seq(Written(b))
    BY <1>1
  <2>2. m \in Seq(B)
    <3> HIDE DEF m
    <3> QED BY <2>1
  <2> QED BY <2>1, <2>2
<1>3. \A i \in 1 .. n : i # n => i \in 1 .. n - 1
  OBVIOUS
<1>4. Distinct(m)
  BY <1>1, <1>2 DEF Distinct
<1>5. nl \in Seq(B) /\ Distinct(nl) /\ BytesOf(nl) = {NewLine}
      /\ \A i \in DOMAIN nl : nl[i] \in Marks
  BY DEF Distinct, BytesOf, Marks
<1>6. more \in Seq(B) /\ Distinct(more) /\ BytesOf(m) \subseteq BytesOf(more)
      /\ BytesOf(more) \subseteq BytesOf(m) \cup Marks
  <2> HIDE DEF m, nl
  <2>1. nl \o m \in Seq(B) /\ Distinct(nl \o m) /\ BytesOf(nl \o m) = BytesOf(nl) \cup BytesOf(m)
    BY <1>2, <1>4, <1>5, Joining
  <2> QED BY <1>2, <1>4, <1>5, <2>1 DEF Marks
<1>7. text \in Seq(B) /\ Distinct(text)
  BY DEF Joins
<1>8. ASSUME NEW i \in DOMAIN text, NEW k \in DOMAIN more, text[i] \notin Marks, text[i] = more[k]
      PROVE  FALSE
  <2>1. text[i] \in BytesOf(text) /\ text[i] \in BytesOf(more)
    BY <1>8 DEF BytesOf
  <2>2. PICK j \in 1 .. n - 1 : text[i] \in BytesOf(ms[j])
    BY <1>8, <2>1 DEF Joins
  <2>3. text[i] \in BytesOf(m)
    BY <1>6, <1>8, <2>1
  <2>4. j \in DOMAIN ms /\ j # n
    BY <1>1
  <2>5. PICK k1 \in DOMAIN ms[j] : text[i] = ms[j][k1]
    BY <2>2 DEF BytesOf
  <2>6. PICK k2 \in DOMAIN ms[n] : text[i] = ms[n][k2]
    BY <2>3 DEF BytesOf
  <2> QED BY <1>1, <1>2, <2>4, <2>5, <2>6
<1> HIDE DEF more
<1>9. all \in Seq(B) /\ Distinct(all) /\ BytesOf(all) = BytesOf(text) \cup BytesOf(more)
  BY <1>6, <1>7, <1>8, Joining
<1> HIDE DEF all
<1>10. ASSUME NEW i \in 1 .. n PROVE BytesOf(ms[i]) \subseteq BytesOf(all)
  <2>1. i # n => BytesOf(ms[i]) \subseteq BytesOf(text)
    BY <1>3 DEF Joins
  <2> QED BY <1>6, <1>9, <2>1
<1>11. ASSUME NEW x \in BytesOf(all), x \notin Marks PROVE \E i \in 1 .. n : x \in BytesOf(ms[i])
  <2>1. CASE x \in BytesOf(text)
    <3>1. PICK i \in 1 .. n - 1 : x \in BytesOf(ms[i])
      BY <1>11, <2>1 DEF Joins
    <3> QED BY <3>1
  <2>2. CASE x \in BytesOf(more)
    <3>1. x \in BytesOf(ms[n]) /\ n \in 1 .. n
      BY <1>6, <1>11, <2>2
    <3> QED BY <3>1
  <2> QED BY <1>9, <2>1, <2>2
<1>12. Joins(all, n, ms, B)
  BY <1>9, <1>10, <1>11 DEF Joins
<1> QED BY <1>12 DEF all, more

\* The text of a body contains its messages, and is of its bytes.
LEMMA ConcatJoins ==
    ASSUME NEW b \in Bodies
    PROVE  Joins(Concat(b.msgs), Len(b.msgs), b.msgs, Written(b) \cup Marks)
<1> DEFINE ms == b.msgs
           B == Written(b) \cup Marks
<1>1. ms \in Seq(Seq(Written(b))) /\ Len(ms) \in Nat
  BY MessagesAssumption DEF Bodies
<1>2. PICK f : IsJoin(f, Len(ms), ms) /\ Concat(ms) = f[Len(ms)]
  BY <1>1, ConcatIsJoin
<1> DEFINE Bad == {n \in 0 .. Len(ms) : ~Joins(f[n], n, ms, B)}
<1>3. \A n \in 0 .. Len(ms) : f[n] = Joined(f, n, ms)
  BY <1>2 DEF IsJoin
<1>4. Bad = {}
  <2> SUFFICES ASSUME Bad # {} PROVE FALSE
    OBVIOUS
  <2>1. Bad \in SUBSET Nat
    OBVIOUS
  <2>2. PICK n \in Bad : \A k \in Bad : n <= k
    <3> HIDE DEF Bad
    <3> QED BY <2>1, LeastNatural
  <2>3. n \in 0 .. Len(ms) /\ ~Joins(f[n], n, ms, B)
    OBVIOUS
  <2>4. ASSUME n = 0 PROVE FALSE
    <3>1. f[n] = <<>>
      BY <1>3, <2>4 DEF Joined
    <3>2. Joins(<<>>, 0, ms, B)
      BY DEF Joins, Distinct, BytesOf
    <3> QED BY <2>3, <2>4, <3>1, <3>2
  <2>5. ASSUME n # 0 PROVE FALSE
    <3>1. n - 1 \in 0 .. Len(ms) /\ ~(n <= n - 1) /\ n \in 1 .. Len(ms)
      BY <1>1, <2>3, <2>5
    <3>2. Joins(f[n - 1], n - 1, ms, B)
      BY <2>2, <3>1
    <3>3. f[n] = f[n - 1] \o (IF n = 1 THEN ms[n] ELSE <<NewLine>> \o ms[n])
      BY <1>3, <2>3, <2>5 DEF Joined
    <3>4. Joins(f[n - 1] \o (IF n = 1 THEN ms[n] ELSE <<NewLine>> \o ms[n]), n, ms, B)
      BY <3>1, <3>2, JoinKeepsJoins
    <3> QED BY <2>3, <3>3, <3>4
  <2> QED BY <2>4, <2>5
<1>5. Len(ms) \in 0 .. Len(ms)
  BY <1>1
<1>6. Joins(f[Len(ms)], Len(ms), ms, B)
  BY <1>4, <1>5
<1> QED BY <1>2, <1>6

-----------------------------------------------------------------------------
(* The invariant about what was hidden.                                     *)

Wrote(bodies) == UNION {Written(b) : b \in bodies}

\* The bytes the text of r may have, apart from the gateway's own.
Source(r) == IF req[r].kind = "proxy" /\ req[r].dir = "output" THEN Wrote(Outputs) ELSE Wrote(Inputs)

\* The text, and what was hidden from it or, earlier, from the input.
TextInv(r) ==
    /\ req[r].text \in Seq(Source(r) \cup Marks) /\ Distinct(req[r].text)
    /\ Own(hidden[r]) \cap BytesOf(req[r].text) = {}
    /\ Own(hidden[r]) \subseteq Wrote(Inputs) \cup Source(r)

\* The guards have looked at the text as it is.
SpansInv(r) ==
    req[r].pc = "guards" =>
        \A i \in DOMAIN outcomes[r] :
            \/ outcomes[r][i].spans = {}
            \/ outcomes[r][i].spans \in Findings /\ FitsIn(req[r].text, outcomes[r][i].spans)

\* The text was made of the messages of the body.
BodyInv(r) ==
    req[r].pc \in {"policy", "guards"} =>
        /\ req[r].body \in Seq(Seq(Source(r)))
        /\ \A i \in DOMAIN req[r].body : BytesOf(req[r].body[i]) \subseteq BytesOf(req[r].original)

\* What was forwarded is of the input, and nothing is hidden from the input any more.
ForwardInv(r) ==
    upstream[r] # <<>> =>
        /\ \/ req[r].pc \in {"upstream", "answered"}
           \/ req[r].kind = "proxy" /\ req[r].dir = "output"
        /\ BytesOf(Last(upstream[r])) \subseteq Wrote(Inputs) \cup Marks
        /\ Own(hidden[r]) \cap BytesOf(Last(upstream[r])) = {}

RelayInv(r) ==
    req[r].dir = "output" /\ req[r].answer = "relayed" /\ req[r].body # <<>>
        => Own(hidden[r]) \cap BytesOf(Head(req[r].body)) = {}

FreshInv(r) == req[r].pc = "idle" => hidden[r] = {} /\ upstream[r] = <<>>

HiddenInv(r) ==
    TextInv(r) /\ SpansInv(r) /\ BodyInv(r) /\ ForwardInv(r) /\ RelayInv(r) /\ FreshInv(r)

HInv ==
    /\ DOMAIN hidden = Requests /\ DOMAIN upstream = Requests
    /\ \A r \in Requests : HiddenInv(r)

-----------------------------------------------------------------------------

LEMMA InitHInv == Init => HInv
<1> SUFFICES ASSUME Init, NEW r \in Requests PROVE HiddenInv(r)
  BY DEF Init, HInv
<1>1. /\ req[r] = NoRequest /\ hidden[r] = {} /\ upstream[r] = <<>> /\ Own({}) = {}
  BY DEF Init, Own
<1>2. NoRequest.text = <<>> /\ NoRequest.pc = "idle" /\ NoRequest.dir = "input"
  BY DEF NoRequest
<1>3. TextInv(r)
  BY <1>1, <1>2 DEF TextInv, Distinct
<1> QED BY <1>1, <1>2, <1>3 DEF HiddenInv, SpansInv, BodyInv, ForwardInv, RelayInv, FreshInv

\* The other requests.
OthersSame(r) ==
    /\ DOMAIN hidden' = Requests /\ DOMAIN upstream' = Requests
    /\ \A s \in Requests \ {r} : /\ req'[s] = req[s] /\ outcomes'[s] = outcomes[s]
                                /\ upstream'[s] = upstream[s] /\ hidden'[s] = hidden[s]

LEMMA SameHidden ==
    ASSUME NEW r, HiddenInv(r), req'[r] = req[r], outcomes'[r] = outcomes[r],
           upstream'[r] = upstream[r], hidden'[r] = hidden[r]
    PROVE  HiddenInv(r)'
<1>1. Source(r)' = Source(r)
  BY DEF Source
<1>2. TextInv(r)'
  BY <1>1 DEF HiddenInv, TextInv
<1>3. SpansInv(r)'
  BY DEF HiddenInv, SpansInv
<1>4. BodyInv(r)'
  BY <1>1 DEF HiddenInv, BodyInv
<1>5. ForwardInv(r)' /\ RelayInv(r)' /\ FreshInv(r)'
  BY DEF HiddenInv, ForwardInv, RelayInv, FreshInv
<1> QED BY <1>2, <1>3, <1>4, <1>5 DEF HiddenInv

LEMMA OneHiddenStep ==
    ASSUME NEW r \in Requests, HInv, OthersSame(r), HiddenInv(r)'
    PROVE  HInv'
<1>1. \A s \in Requests : HiddenInv(s)'
  BY SameHidden DEF OthersSame, HInv
<1> QED BY <1>1 DEF HInv, OthersSame

\* Nothing of the answers is in the requests.
LEMMA SourcesAreApart == Wrote(Inputs) \cap Wrote(Outputs) = {}
<1>1. \A b \in Inputs, o \in Outputs : Written(b) \cap Written(o) = {}
  BY MessagesAssumption
<1> SUFFICES ASSUME NEW x \in Wrote(Inputs), x \in Wrote(Outputs) PROVE FALSE
  OBVIOUS
<1>2. PICK b \in Inputs : x \in Written(b)
  BY DEF Wrote
<1>3. PICK o \in Outputs : x \in Written(o)
  BY DEF Wrote
<1> QED BY <1>1, <1>2, <1>3

\* A phase begins with the messages of a body.
LEMMA PhaseBegins ==
    ASSUME NEW bodies, NEW b \in bodies, b \in Bodies
    PROVE  /\ Concat(b.msgs) \in Seq(Wrote(bodies) \cup Marks) /\ Distinct(Concat(b.msgs))
           /\ b.msgs \in Seq(Seq(Wrote(bodies)))
           /\ \A i \in DOMAIN b.msgs : BytesOf(b.msgs[i]) \subseteq BytesOf(Concat(b.msgs))
<1> DEFINE ms == b.msgs
           text == Concat(ms)
           W == Written(b)
           S == Wrote(bodies)
<1>1. W \subseteq S
  BY DEF Wrote
<1>2. ms \in Seq(Seq(W))
  BY MessagesAssumption DEF Bodies
<1>3. Joins(text, Len(ms), ms, W \cup Marks)
  BY ConcatJoins
<1> HIDE DEF ms, text, W, S
<1>4. text \in Seq(W \cup Marks) /\ Distinct(text) /\ \A i \in 1 .. Len(ms) : BytesOf(ms[i]) \subseteq BytesOf(text)
  BY <1>3 DEF Joins
<1>5. DOMAIN ms = 1 .. Len(ms) /\ Len(ms) \in Nat
  BY <1>2
<1>6. text \in Seq(S \cup Marks)
  BY <1>1, <1>4
<1>7. ms \in Seq(Seq(S))
  <2>1. \A i \in 1 .. Len(ms) : ms[i] \in Seq(W)
    BY <1>2
  <2>2. \A i \in 1 .. Len(ms) : ms[i] \in Seq(S)
    BY <1>1, <2>1
  <2> QED BY <1>2, <2>2
<1> QED BY <1>4, <1>5, <1>6, <1>7 DEF ms, text, S

LEMMA ArriveKeepsHidden ==
    ASSUME NEW r \in Requests, NEW b \in Inputs, IInv, HInv, Arrive(r, b)
    PROVE  HInv'
<1> DEFINE q == req[r]
           n == req'[r]
<1>1. /\ OthersSame(r) /\ outcomes'[r] = outcomes[r] /\ upstream'[r] = upstream[r]
      /\ hidden'[r] = hidden[r] /\ q.pc = "idle" /\ DOMAIN q = Fields /\ HiddenInv(r)
  BY DEF OthersSame, Arrive, Answered, IInv, HInv, RequestInv, Place
<1>2. hidden[r] = {} /\ upstream[r] = <<>> /\ Own({}) = {}
  BY <1>1 DEF HiddenInv, FreshInv, Own
<1>3. ASSUME n.pc = "answered", n.answer \in {"error", "refused"},
             n.text = q.text, n.kind = q.kind, n.dir = q.dir
      PROVE  HInv'
  <2>1. Source(r)' = Source(r)
    BY <1>3 DEF Source
  <2>2. TextInv(r)'
    BY <1>1, <1>3, <2>1 DEF HiddenInv, TextInv
  <2>3. SpansInv(r)' /\ BodyInv(r)' /\ ForwardInv(r)' /\ RelayInv(r)' /\ FreshInv(r)'
    BY <1>1, <1>2, <1>3 DEF SpansInv, BodyInv, ForwardInv, RelayInv, FreshInv
  <2> QED BY <1>1, <2>2, <2>3, OneHiddenStep DEF HiddenInv
<1>4. ASSUME n.pc = "policy", n.kind = b.kind, n.dir = b.dir, n.body = b.msgs, n.answer = "none",
             n.text = Concat(b.msgs), n.original = Concat(b.msgs)
      PROVE  HInv'
  <2>1. Source(r)' = Wrote(Inputs)
    BY <1>4, InputsAssumption DEF Source
  <2>2. /\ n.text \in Seq(Wrote(Inputs) \cup Marks) /\ Distinct(n.text)
        /\ n.body \in Seq(Seq(Wrote(Inputs)))
        /\ \A i \in DOMAIN n.body : BytesOf(n.body[i]) \subseteq BytesOf(n.original)
    BY <1>4, PhaseBegins DEF Bodies
  <2>3. TextInv(r)'
    BY <1>1, <1>2, <2>1, <2>2 DEF TextInv
  <2>4. BodyInv(r)'
    BY <2>1, <2>2 DEF BodyInv
  <2>5. SpansInv(r)' /\ ForwardInv(r)' /\ RelayInv(r)' /\ FreshInv(r)'
    BY <1>1, <1>2, <1>4 DEF SpansInv, ForwardInv, RelayInv, FreshInv
  <2> QED BY <1>1, <2>3, <2>4, <2>5, OneHiddenStep DEF HiddenInv
<1>5. r \in DOMAIN req
  BY DEF IInv
<1>6. CASE index = 0
  <2>1. n = [q EXCEPT !.pc = "answered", !.answer = "error"]
    BY <1>5, <1>6 DEF Arrive, Answered
  <2>2. n.pc = "answered" /\ n.answer = "error" /\ n.text = q.text /\ n.kind = q.kind /\ n.dir = q.dir
    BY <1>1, <2>1 DEF Fields
  <2> QED BY <1>3, <2>2
<1>7. CASE index # 0 /\ b.stream
  <2>1. n = [q EXCEPT !.pc = "answered", !.answer = "refused"]
    BY <1>5, <1>7 DEF Arrive, Answered
  <2>2. n.pc = "answered" /\ n.answer = "refused" /\ n.text = q.text /\ n.kind = q.kind /\ n.dir = q.dir
    BY <1>1, <2>1 DEF Fields
  <2> QED BY <1>3, <2>2
<1>8. CASE index # 0 /\ ~b.stream
  <2>1. n = [NoRequest EXCEPT !.pc = "policy", !.kind = b.kind, !.idx = index, !.dir = b.dir,
                                  !.pol = 1, !.body = b.msgs, !.text = Concat(b.msgs),
                                  !.original = Concat(b.msgs)]
    BY <1>5, <1>8 DEF Arrive
  <2>2. /\ n.pc = "policy" /\ n.kind = b.kind /\ n.dir = b.dir /\ n.body = b.msgs /\ n.answer = "none"
        /\ n.text = Concat(b.msgs) /\ n.original = Concat(b.msgs)
    BY <2>1 DEF NoRequest
  <2> QED BY <1>4, <2>2
<1> QED BY <1>6, <1>7, <1>8

LEMMA StartGuardsKeepsHidden ==
    ASSUME NEW r \in Requests, IInv, HInv, StartGuards(r)
    PROVE  HInv'
<1> DEFINE q == req[r]
           n == req'[r]
<1>1. /\ OthersSame(r) /\ outcomes'[r] = [i \in ToRun(r) |-> Pending] /\ upstream'[r] = upstream[r]
      /\ hidden'[r] = hidden[r] /\ q.pc = "policy" /\ DOMAIN q = Fields /\ HiddenInv(r)
      /\ n = [q EXCEPT !.pc = "guards"]
  BY DEF OthersSame, StartGuards, IInv, HInv, RequestInv, Place
<1>2. /\ n.pc = "guards" /\ n.text = q.text /\ n.kind = q.kind /\ n.dir = q.dir /\ n.body = q.body
      /\ n.original = q.original /\ n.answer = q.answer
  BY <1>1 DEF Fields
<1>3. Source(r)' = Source(r)
  BY <1>2 DEF Source
<1>4. TextInv(r)' /\ BodyInv(r)'
  BY <1>1, <1>2, <1>3 DEF HiddenInv, TextInv, BodyInv
<1>5. SpansInv(r)'
  BY <1>1 DEF SpansInv, Pending, Pass
<1>6. ForwardInv(r)' /\ RelayInv(r)' /\ FreshInv(r)'
  BY <1>1, <1>2 DEF HiddenInv, ForwardInv, RelayInv, FreshInv
<1> QED BY <1>1, <1>4, <1>5, <1>6, OneHiddenStep DEF HiddenInv

\* A detector answers without spans, or with spans that it found in this text.
LEMMA AnswersFit ==
    ASSUME NEW g, NEW p, NEW text, NEW o \in RunOne(g, p, text)
    PROVE  o.spans = {} \/ (o.spans \in Findings /\ FitsIn(text, o.spans))
<1>1. \A d : \A a \in Answers(d, text) :
         a.spans = {} \/ (a.spans \in Findings /\ FitsIn(text, a.spans))
  BY DEF Answers, Pass
<1>2. ErrorResult(g, p).spans = {}
  BY DEF ErrorResult, Pass
<1>3. o = ErrorResult(g, p) \/ o \in Answers(g.detector, text) \/ o \in Answers(g.escalation, text)
  BY DEF RunOne
<1> QED BY <1>1, <1>2, <1>3

LEMMA GuardReturnsKeepsHidden ==
    ASSUME NEW r \in Requests, NEW i \in DOMAIN outcomes[r], IInv, HInv, GuardReturns(r, i)
    PROVE  HInv'
<1>1. /\ OthersSame(r) /\ req'[r] = req[r] /\ upstream'[r] = upstream[r] /\ hidden'[r] = hidden[r]
      /\ HiddenInv(r)
  BY DEF OthersSame, GuardReturns, IInv, HInv
<1>2. PICK o \in RunOne(Guard(r, i), Policy(r), req[r].text) :
         outcomes' = [outcomes EXCEPT ![r][i] = o]
  BY DEF GuardReturns
<1>3. outcomes'[r] = [outcomes[r] EXCEPT ![i] = o]
  BY <1>2 DEF IInv
<1>4. o.spans = {} \/ (o.spans \in Findings /\ FitsIn(req[r].text, o.spans))
  BY AnswersFit
<1>5. SpansInv(r)'
  BY <1>1, <1>3, <1>4 DEF HiddenInv, SpansInv
<1>6. Source(r)' = Source(r)
  BY <1>1 DEF Source
<1>7. TextInv(r)' /\ BodyInv(r)'
  BY <1>1, <1>6 DEF HiddenInv, TextInv, BodyInv
<1>8. ForwardInv(r)' /\ RelayInv(r)' /\ FreshInv(r)'
  BY <1>1 DEF HiddenInv, ForwardInv, RelayInv, FreshInv
<1> QED BY <1>1, <1>5, <1>7, <1>8, OneHiddenStep DEF HiddenInv

\* A step that leaves the text and what was hidden alone, and answers or forwards.
LEMMA CheckAnswersKeepsHidden ==
    ASSUME NEW r \in Requests, IInv, HInv, CheckAnswers(r)
    PROVE  HInv'
<1> DEFINE q == req[r]
           n == req'[r]
<1>1. /\ OthersSame(r) /\ outcomes'[r] = outcomes[r] /\ upstream'[r] = upstream[r]
      /\ hidden'[r] = hidden[r] /\ DOMAIN q = Fields /\ HiddenInv(r)
      /\ n = [q EXCEPT !.pc = "answered", !.answer = "checked"]
  BY DEF OthersSame, CheckAnswers, Answered, IInv, HInv, RequestInv, Place
<1>2. /\ n.pc = "answered" /\ n.text = q.text /\ n.kind = q.kind /\ n.dir = q.dir
      /\ n.answer = "checked"
  BY <1>1 DEF Fields
<1>3. Source(r)' = Source(r)
  BY <1>2 DEF Source
<1>4. TextInv(r)'
  BY <1>1, <1>2, <1>3 DEF HiddenInv, TextInv
<1>5. SpansInv(r)' /\ BodyInv(r)' /\ ForwardInv(r)' /\ RelayInv(r)' /\ FreshInv(r)'
  BY <1>1, <1>2 DEF HiddenInv, SpansInv, BodyInv, ForwardInv, RelayInv, FreshInv
<1> QED BY <1>1, <1>4, <1>5, OneHiddenStep DEF HiddenInv

\* The ends of a list of messages.
LEMMA EndsOf ==
    ASSUME NEW E, NEW ms \in Seq(E), ms # <<>>
    PROVE  /\ Last(ms) = ms[Len(ms)] /\ Len(ms) \in DOMAIN ms
           /\ Head(ms) = ms[1] /\ 1 \in DOMAIN ms
BY DEF Last

\* A list of messages in which one was replaced.
LEMMA Replaced ==
    ASSUME NEW E, NEW ms \in Seq(E), NEW k \in DOMAIN ms, NEW text
    PROVE  /\ [ms EXCEPT ![k] = text] \in Seq(E \cup {text})
           /\ Len([ms EXCEPT ![k] = text]) = Len(ms)
           /\ [ms EXCEPT ![k] = text][k] = text
<1> DEFINE n == Len(ms)
           new == [ms EXCEPT ![k] = text]
<1>1. n \in Nat /\ DOMAIN ms = 1 .. n /\ \A i \in 1 .. n : ms[i] \in E
  OBVIOUS
<1>2. DOMAIN new = 1 .. n /\ \A i \in 1 .. n : new[i] = IF i = k THEN text ELSE ms[i]
  BY <1>1
<1>3. new = [i \in 1 .. n |-> IF i = k THEN text ELSE ms[i]]
  <2>1. new = [i \in DOMAIN ms |-> IF i = k THEN text ELSE ms[i]]
    BY Zenon
  <2> QED BY <1>1, <2>1
<1> HIDE DEF new, n
<1>4. \A i \in 1 .. n : (IF i = k THEN text ELSE ms[i]) \in E \cup {text}
  BY <1>1
<1>5. new \in [1 .. n -> E \cup {text}]
  BY <1>3, <1>4
<1>6. new \in Seq(E \cup {text}) /\ Len(new) = n
  BY <1>1, <1>5
<1>7. new[k] = text
  BY <1>1, <1>2
<1> QED BY <1>6, <1>7 DEF new, n

\* Writing the text back.
LEMMA WrittenBack ==
    ASSUME NEW E, NEW body \in Seq(E), NEW text
    PROVE  /\ body = <<>> => WithLast(body, text) = <<>> /\ WithFirstChoice(body, text) = <<>>
           /\ body # <<>> => /\ WithLast(body, text) # <<>> /\ Last(WithLast(body, text)) = text
                             /\ Head(WithFirstChoice(body, text)) = text
<1> DEFINE n == Len(body)
           last == [body EXCEPT ![n] = text]
           first == [body EXCEPT ![1] = text]
<1>1. CASE body = <<>>
  BY <1>1 DEF WithLast, WithFirstChoice
<1>2. CASE body # <<>>
  <2>1. n \in DOMAIN body /\ 1 \in DOMAIN body /\ n \in Nat /\ n # 0 /\ n = Len(body)
    BY <1>2
  <2>2. WithLast(body, text) = last /\ WithFirstChoice(body, text) = first
    BY <1>2 DEF WithLast, WithFirstChoice
  <2> HIDE DEF n
  <2>3. /\ last \in Seq(E \cup {text}) /\ first \in Seq(E \cup {text})
        /\ Len(last) = n /\ Len(first) = n /\ last[n] = text /\ first[1] = text
    BY <2>1, Replaced
  <2> HIDE DEF last, first
  <2>4. last # <<>> /\ first # <<>>
    BY <2>1, <2>3
  <2>5. Last(last) = text /\ Head(first) = text
    BY <2>3, <2>4, EndsOf
  <2> QED BY <1>2, <2>2, <2>4, <2>5
<1> QED BY <1>1, <1>2

LEMMA ForwardKeepsHidden ==
    ASSUME NEW r \in Requests, IInv, HInv, Forward(r)
    PROVE  HInv'
<1> DEFINE q == req[r]
           n == req'[r]
           sent == upstream'[r]
<1>1. /\ OthersSame(r) /\ outcomes'[r] = outcomes[r] /\ hidden'[r] = hidden[r]
      /\ DOMAIN q = Fields /\ HiddenInv(r) /\ q.pc = "policy" /\ q.kind = "proxy" /\ q.dir = "input"
      /\ n = [q EXCEPT !.pc = "upstream"]
      /\ sent = IF q.text = q.original THEN q.body ELSE WithLast(q.body, q.text)
  BY DEF OthersSame, Forward, PhaseDone, IInv, HInv, RequestInv, Place
<1>2. /\ n.pc = "upstream" /\ n.text = q.text /\ n.kind = q.kind /\ n.dir = q.dir
      /\ n.answer = q.answer
  BY <1>1 DEF Fields
<1>3. Source(r)' = Source(r) /\ Source(r) = Wrote(Inputs)
  BY <1>1, <1>2 DEF Source
<1>4. TextInv(r)' /\ TextInv(r)
  BY <1>1, <1>2, <1>3 DEF HiddenInv, TextInv
<1>5. /\ q.body \in Seq(Seq(Wrote(Inputs)))
      /\ \A i \in DOMAIN q.body : BytesOf(q.body[i]) \subseteq BytesOf(q.original)
  BY <1>1, <1>3 DEF HiddenInv, BodyInv
<1>6. BytesOf(q.text) \subseteq Wrote(Inputs) \cup Marks /\ Own(hidden[r]) \cap BytesOf(q.text) = {}
  BY <1>3, <1>4 DEF TextInv, BytesOf
<1>7. ASSUME sent # <<>> PROVE BytesOf(Last(sent)) \subseteq BytesOf(q.text)
  <2> HIDE DEF q, sent
  <2>1. q.body # <<>>
    BY <1>1, <1>5, <1>7, WrittenBack
  <2>2. CASE q.text = q.original
    <3>1. Last(q.body) = q.body[Len(q.body)] /\ Len(q.body) \in DOMAIN q.body
      BY <1>5, <2>1, EndsOf
    <3> QED BY <1>1, <1>5, <2>2, <3>1
  <2>3. CASE q.text # q.original
    <3>1. Last(WithLast(q.body, q.text)) = q.text
      BY <1>5, <2>1, WrittenBack
    <3> QED BY <1>1, <2>3, <3>1
  <2> QED BY <2>2, <2>3
<1>8. ForwardInv(r)'
  BY <1>1, <1>2, <1>6, <1>7 DEF ForwardInv
<1>9. SpansInv(r)' /\ BodyInv(r)' /\ RelayInv(r)' /\ FreshInv(r)'
  BY <1>1, <1>2 DEF SpansInv, BodyInv, RelayInv, FreshInv
<1> QED BY <1>1, <1>4, <1>8, <1>9, OneHiddenStep DEF HiddenInv

LEMMA RelayKeepsHidden ==
    ASSUME NEW r \in Requests, IInv, HInv, Relay(r)
    PROVE  HInv'
<1> DEFINE q == req[r]
           n == req'[r]
           body == IF q.text = q.original THEN q.body ELSE WithFirstChoice(q.body, q.text)
<1>1. /\ OthersSame(r) /\ outcomes'[r] = outcomes[r] /\ hidden'[r] = hidden[r]
      /\ upstream'[r] = upstream[r]
      /\ DOMAIN q = Fields /\ HiddenInv(r) /\ q.pc = "policy" /\ q.kind = "proxy" /\ q.dir = "output"
      /\ n = [q EXCEPT !.pc = "answered", !.answer = "relayed", !.body = body]
  BY DEF OthersSame, Relay, PhaseDone, IInv, HInv, RequestInv, Place, Fields
<1> HIDE DEF body
<1>2. /\ n.pc = "answered" /\ n.text = q.text /\ n.kind = q.kind /\ n.dir = q.dir
      /\ n.answer = "relayed" /\ n.body = body
  BY <1>1 DEF Fields
<1>3. Source(r)' = Source(r)
  BY <1>1, <1>2 DEF Source
<1>4. TextInv(r)' /\ TextInv(r)
  BY <1>1, <1>2, <1>3 DEF HiddenInv, TextInv
<1>5. /\ q.body \in Seq(Seq(Source(r)))
      /\ \A i \in DOMAIN q.body : BytesOf(q.body[i]) \subseteq BytesOf(q.original)
  BY <1>1 DEF HiddenInv, BodyInv
<1>6. ASSUME body # <<>> PROVE BytesOf(Head(body)) \subseteq BytesOf(q.text)
  <2> HIDE DEF q
  <2>1. q.body # <<>>
    BY <1>5, <1>6, WrittenBack DEF body
  <2>2. CASE q.text = q.original
    <3>1. Head(q.body) = q.body[1] /\ 1 \in DOMAIN q.body
      BY <1>5, <2>1, EndsOf
    <3> QED BY <1>5, <2>2, <3>1 DEF body
  <2>3. CASE q.text # q.original
    <3>1. Head(WithFirstChoice(q.body, q.text)) = q.text
      BY <1>5, <2>1, WrittenBack
    <3> QED BY <2>3, <3>1 DEF body
  <2> QED BY <2>2, <2>3
<1>7. RelayInv(r)'
  BY <1>1, <1>2, <1>4, <1>6 DEF RelayInv, TextInv
<1>8. SpansInv(r)' /\ BodyInv(r)' /\ ForwardInv(r)' /\ FreshInv(r)'
  BY <1>1, <1>2 DEF HiddenInv, SpansInv, BodyInv, ForwardInv, FreshInv
<1> QED BY <1>1, <1>4, <1>7, <1>8, OneHiddenStep DEF HiddenInv

LEMMA UpstreamAnswersKeepsHidden ==
    ASSUME NEW r \in Requests, NEW o \in Outputs, IInv, HInv, UpstreamAnswers(r, o)
    PROVE  HInv'
<1> DEFINE q == req[r]
           n == req'[r]
<1>1. /\ OthersSame(r) /\ outcomes'[r] = outcomes[r] /\ upstream'[r] = upstream[r]
      /\ hidden'[r] = hidden[r] /\ DOMAIN q = Fields /\ HiddenInv(r)
      /\ q.pc = "upstream" /\ q.kind = "proxy" /\ q.dir = "input" /\ q.answer = "none"
  BY DEF OthersSame, UpstreamAnswers, Answered, Begin, IInv, HInv, RequestInv, Place, Progress
<1>2. ASSUME NEW answer \in {"error", "relayed"}, Answered(r, answer) PROVE HInv'
  <2>1. n = [q EXCEPT !.pc = "answered", !.answer = answer]
    BY <1>2 DEF Answered, IInv
  <2>2. /\ n.pc = "answered" /\ n.text = q.text /\ n.kind = q.kind /\ n.dir = q.dir
    BY <1>1, <2>1 DEF Fields
  <2>3. Source(r)' = Source(r)
    BY <2>2 DEF Source
  <2>4. TextInv(r)'
    BY <1>1, <2>2, <2>3 DEF HiddenInv, TextInv
  <2>5. SpansInv(r)' /\ BodyInv(r)' /\ ForwardInv(r)' /\ RelayInv(r)' /\ FreshInv(r)'
    BY <1>1, <2>2 DEF HiddenInv, SpansInv, BodyInv, ForwardInv, RelayInv, FreshInv
  <2> QED BY <1>1, <2>4, <2>5, OneHiddenStep DEF HiddenInv
<1>3. ASSUME Begin(r, "output", o.msgs) PROVE HInv'
  <2>1. n = [q EXCEPT !.pc = "policy", !.dir = "output", !.pol = 1,
                      !.idx = IF @ = 0 THEN index ELSE @,
                      !.body = o.msgs, !.text = Concat(o.msgs), !.original = Concat(o.msgs)]
    BY <1>3 DEF Begin, IInv
  <2>2. /\ n.pc = "policy" /\ n.text = Concat(o.msgs) /\ n.kind = "proxy" /\ n.dir = "output"
        /\ n.body = o.msgs /\ n.original = Concat(o.msgs) /\ n.answer = "none"
    BY <1>1, <2>1 DEF Fields
  <2>3. Source(r)' = Wrote(Outputs) /\ Source(r) = Wrote(Inputs)
    BY <1>1, <2>2 DEF Source
  <2>4. /\ n.text \in Seq(Wrote(Outputs) \cup Marks) /\ Distinct(n.text)
        /\ n.body \in Seq(Seq(Wrote(Outputs)))
        /\ \A i \in DOMAIN n.body : BytesOf(n.body[i]) \subseteq BytesOf(n.original)
    BY <2>2, PhaseBegins DEF Bodies
  <2>5. BytesOf(n.text) \subseteq Wrote(Outputs) \cup Marks
    BY <2>4 DEF BytesOf
  <2>6. Own(hidden[r]) \subseteq Wrote(Inputs) /\ Own(hidden[r]) \cap Marks = {}
    BY <1>1, <2>3 DEF HiddenInv, TextInv, Own
  <2>7. TextInv(r)'
    BY <1>1, <2>3, <2>4, <2>5, <2>6, SourcesAreApart DEF TextInv
  <2>8. BodyInv(r)'
    BY <2>3, <2>4 DEF BodyInv
  <2>9. SpansInv(r)' /\ ForwardInv(r)' /\ RelayInv(r)' /\ FreshInv(r)'
    BY <1>1, <2>2 DEF HiddenInv, SpansInv, ForwardInv, RelayInv, FreshInv
  <2> QED BY <1>1, <2>7, <2>8, <2>9, OneHiddenStep DEF HiddenInv
<1> QED BY <1>2, <1>3 DEF UpstreamAnswers

\* What a function makes of a finite set is finite.
LEMMA FiniteRange ==
    ASSUME NEW S, IsFiniteSet(S), NEW R, NEW f \in [S -> R], \A y \in R : \E x \in S : f[x] = y
    PROVE  IsFiniteSet(R)
<1>1. f \in Surjection(S, R)
  BY DEF Surjection
<1> QED BY <1>1, FS_Surjection

\* The spans that the guards act on become finitely many edits within the text.
LEMMA EditsFit ==
    ASSUME NEW r \in Requests, IInv, HInv, req[r].pc = "guards"
    PROVE  IsFiniteSet(Edits(r)) /\ \A e \in Edits(r) : Fits(e, req[r].text)
<1> DEFINE text == req[r].text
           S == {i \in Acting(r) : Guard(r, i).onFail \in {"redact", "mask"}}
           edit(i, s) == [start |-> AsBytes(Guard(r, i), text, s).start,
                          end |-> AsBytes(Guard(r, i), text, s).end,
                          action |-> Guard(r, i).onFail]
           of(i) == {edit(i, s) : s \in outcomes[r][i].spans}
<1>1. RequestInv(r) /\ HiddenInv(r) /\ index \in 0 .. Len(Bundles)
  BY DEF IInv, HInv
<1>2. IsFiniteSet(DOMAIN outcomes[r])
  <2>1. req[r].idx \in 1 .. Len(Bundles) /\ DOMAIN outcomes[r] = ToRun(r)
    BY <1>1, BundleTypes DEF RequestInv, Place, Progress, Returned
  <2>2. Len(Policies(r)) \in Nat /\ DOMAIN Policies(r) = 1 .. Len(Policies(r))
    BY <2>1, BundleTypes DEF Policies
  <2>3. req[r].pol \in 1 .. Len(Policies(r))
    BY <1>1, <2>1, <2>2 DEF RequestInv, Progress
  <2>4. Policy(r).guards \in Seq(ToSet(Policy(r).guards))
    <3>1. req[r].idx \in DOMAIN Bundles /\ req[r].pol \in DOMAIN Bundles[req[r].idx]
      BY <2>1, <2>2, <2>3, BundleTypes DEF Policies
    <3> QED BY <3>1, BundlesAssumption DEF Policy, Policies
  <2> DEFINE n == Len(Policy(r).guards)
  <2>5. n \in Nat /\ ToRun(r) \in SUBSET (1 .. n)
    BY <2>4 DEF ToRun
  <2> HIDE DEF n
  <2>6. IsFiniteSet(1 .. n)
    BY <2>5, FS_Interval
  <2>7. IsFiniteSet(ToRun(r))
    BY <2>5, <2>6, FS_Subset
  <2> QED BY <2>1, <2>7
<1>3. S \in SUBSET DOMAIN outcomes[r]
  BY DEF Acting
<1>4. Edits(r) = UNION {of(i) : i \in S}
  BY Zenon DEF Edits
<1>5. \A i \in DOMAIN outcomes[r] :
         \/ outcomes[r][i].spans = {}
         \/ outcomes[r][i].spans \in Findings /\ FitsIn(text, outcomes[r][i].spans)
  BY <1>1 DEF HiddenInv, SpansInv
<1>6. ASSUME NEW i \in S PROVE IsFiniteSet(of(i)) /\ \A e \in of(i) : Fits(e, text)
  <2> DEFINE spans == outcomes[r][i].spans
             f == [s \in spans |-> edit(i, s)]
  <2>1. IsFiniteSet(spans)
    <3>1. spans = {} \/ spans \in Findings
      BY <1>3, <1>5
    <3> HIDE DEF spans
    <3> QED BY <3>1, FindingsAssumption, FS_EmptySet
  <2>2. IsFiniteSet(of(i))
    <3>1. \A e \in of(i) : \E s \in spans : f[s] = e
      OBVIOUS
    <3>2. f \in [spans -> of(i)]
      OBVIOUS
    <3> HIDE DEF f, spans, of
    <3> QED BY <2>1, <3>1, <3>2, FiniteRange
  <2>3. ASSUME NEW s \in spans PROVE Fits(edit(i, s), text)
    <3>1. spans \in Findings /\ FitsIn(text, spans) /\ Guard(r, i).onFail \in {"redact", "mask"}
      BY <1>3, <1>5, <2>3
    <3>2. text \in Seq(Source(r) \cup Marks)
      BY <1>1 DEF HiddenInv, TextInv
    <3> HIDE DEF spans, text
    <3> QED BY <2>3, <3>1, <3>2, SpansFit
  <2> HIDE DEF edit, text
  <2> QED BY <2>2, <2>3
<1> HIDE DEF S, of, text
<1>7. IsFiniteSet(S)
  BY <1>2, <1>3, FS_Subset
<1>8. IsFiniteSet({of(i) : i \in S})
  <2> DEFINE f == [i \in S |-> of(i)]
             T == {of(i) : i \in S}
  <2>1. f \in [S -> T] /\ \A x \in T : \E i \in S : f[i] = x
    OBVIOUS
  <2> HIDE DEF f, T
  <2>2. IsFiniteSet(T)
    BY <1>7, <2>1, FiniteRange
  <2> QED BY <2>2 DEF T
<1>9. IsFiniteSet(UNION {of(i) : i \in S})
  <2> DEFINE T == {of(i) : i \in S}
  <2>1. IsFiniteSet(T) /\ \A x \in T : IsFiniteSet(x)
    BY <1>6, <1>8
  <2> HIDE DEF T
  <2>2. IsFiniteSet(UNION T)
    BY <2>1, FS_UNION
  <2> QED BY <2>2 DEF T
<1>10. \A e \in Edits(r) : Fits(e, text)
  BY <1>4, <1>6
<1> QED BY <1>4, <1>9, <1>10 DEF text

LEMMA GatherKeepsHidden ==
    ASSUME NEW r \in Requests, IInv, HInv, Gather(r)
    PROVE  HInv'
<1> DEFINE q == req[r]
           n == req'[r]
<1>1. /\ OthersSame(r) /\ upstream'[r] = upstream[r] /\ q.pc = "guards" /\ DOMAIN q = Fields
      /\ HiddenInv(r) /\ DOMAIN hidden = Requests
  BY DEF OthersSame, Gather, IInv, HInv, RequestInv, Place
<1>2. CASE Blocks(r)
  <2>1. PICK answer \in {"blocked", "checked"} :
           req' = [req EXCEPT ![r].pc = "answered", ![r].verdict = "FAIL", ![r].answer = answer]
    BY <1>2 DEF Gather
  <2>2. hidden'[r] = hidden[r]
    BY <1>2 DEF Gather
  <2>3. n = [q EXCEPT !.pc = "answered", !.verdict = "FAIL", !.answer = answer]
    BY <2>1 DEF IInv
  <2>4. /\ n.pc = "answered" /\ n.text = q.text /\ n.kind = q.kind /\ n.dir = q.dir
        /\ n.answer # "relayed"
    BY <1>1, <2>3 DEF Fields
  <2>5. Source(r)' = Source(r)
    BY <2>4 DEF Source
  <2>6. TextInv(r)'
    BY <1>1, <2>2, <2>4, <2>5 DEF HiddenInv, TextInv
  <2>7. SpansInv(r)' /\ BodyInv(r)' /\ ForwardInv(r)' /\ RelayInv(r)' /\ FreshInv(r)'
    BY <1>1, <2>2, <2>4 DEF HiddenInv, SpansInv, BodyInv, ForwardInv, RelayInv, FreshInv
  <2> QED BY <1>1, <2>6, <2>7, OneHiddenStep DEF HiddenInv
<1>3. CASE ~Blocks(r)
  <2> DEFINE v == IF \E i \in DOMAIN outcomes[r] : outcomes[r][i].verdict = "FAIL"
                  THEN "FAIL" ELSE req[r].verdict
             more == MustHide(q.text, Edits(r))
             B == Source(r) \cup Marks
  <2>1. PICK s \in SortedEdits(Edits(r)) :
           req' = [req EXCEPT ![r].pc = "policy", ![r].pol = @ + 1,
                              ![r].text = Rewrite(@, s), ![r].verdict = v]
    BY <1>3 DEF Gather
  <2>2. hidden'[r] = hidden[r] \cup more
    BY <1>1, <1>3 DEF Gather
  <2> HIDE DEF v, more
  <2>3. n = [q EXCEPT !.pc = "policy", !.pol = @ + 1, !.text = Rewrite(@, s), !.verdict = v]
    BY <2>1 DEF IInv
  <2>4. /\ n.pc = "policy" /\ n.text = Rewrite(q.text, s) /\ n.kind = q.kind /\ n.dir = q.dir
        /\ n.answer = q.answer /\ n.answer = "none" /\ n.body = q.body /\ n.original = q.original
    <3>1. q.answer = "none"
      BY <1>1 DEF IInv, RequestInv, Place
    <3> QED BY <1>1, <2>3, <3>1 DEF Fields
  <2>5. Source(r)' = Source(r)
    BY <2>4 DEF Source
  <2>6. /\ q.text \in Seq(B) /\ Distinct(q.text) /\ Own(hidden[r]) \cap BytesOf(q.text) = {}
        /\ Own(hidden[r]) \subseteq Wrote(Inputs) \cup Source(r)
    BY <1>1 DEF HiddenInv, TextInv
  <2>7. BytesOf(q.text) \subseteq B
    BY <2>6 DEF BytesOf
  <2>8. IsFiniteSet(Edits(r)) /\ \A e \in Edits(r) : Fits(e, q.text)
    BY <1>1, EditsFit
  <2> DEFINE text == q.text
  <2>9. /\ n.text \in Seq(B) /\ Distinct(n.text) /\ From(n.text, text, 0, Len(text))
        /\ Own(more) \cap BytesOf(n.text) = {} /\ more \subseteq BytesOf(text)
    <3>1. Marks \subseteq B /\ text \in Seq(B) /\ Distinct(text) /\ \A e \in Edits(r) : Fits(e, text)
      BY <2>6, <2>8
    <3> HIDE DEF text, B
    <3>2. /\ Rewrite(text, s) \in Seq(B) /\ Distinct(Rewrite(text, s))
          /\ From(Rewrite(text, s), text, 0, Len(text))
          /\ Own(MustHide(text, Edits(r))) \cap BytesOf(Rewrite(text, s)) = {}
          /\ MustHide(text, Edits(r)) \subseteq BytesOf(text)
      BY <2>8, <3>1, RewriteHides, HidesItsOwn
    <3> QED BY <2>4, <3>2 DEF more, text
  <2>10. \A x \in BytesOf(n.text) : x \in Marks \/ x \in BytesOf(q.text)
    <3> SUFFICES ASSUME NEW k \in DOMAIN n.text, n.text[k] \notin Marks
                 PROVE  n.text[k] \in BytesOf(q.text)
      BY DEF BytesOf
    <3>1. PICK p \in 0 + 1 .. Len(text) : n.text[k] = text[p]
      BY <2>9 DEF From
    <3>2. p \in DOMAIN text
      BY <2>6
    <3> QED BY <3>1, <3>2 DEF BytesOf
  <2> HIDE DEF q, n
  <2>11. Own(hidden'[r]) = Own(hidden[r]) \cup Own(more)
    BY <2>2 DEF Own
  <2>12. Own(hidden'[r]) \cap BytesOf(n.text) = {}
    <3>1. Own(hidden[r]) \cap BytesOf(n.text) = {}
      BY <2>6, <2>10 DEF Own
    <3> QED BY <2>9, <2>11, <3>1
  <2>13. Own(more) \subseteq Source(r)
    BY <2>7, <2>9 DEF Own
  <2>14. TextInv(r)'
    BY <2>5, <2>6, <2>9, <2>11, <2>12, <2>13 DEF TextInv, n
  <2>15. BodyInv(r)'
    BY <1>1, <2>4, <2>5 DEF HiddenInv, BodyInv, q, n
  <2>16. ForwardInv(r)'
    <3> SUFFICES ASSUME upstream[r] # <<>>
                 PROVE  /\ n.kind = "proxy" /\ n.dir = "output"
                        /\ BytesOf(Last(upstream[r])) \subseteq Wrote(Inputs) \cup Marks
                        /\ Own(hidden'[r]) \cap BytesOf(Last(upstream[r])) = {}
      BY <1>1 DEF ForwardInv, n
    <3>1. /\ q.kind = "proxy" /\ q.dir = "output"
          /\ BytesOf(Last(upstream[r])) \subseteq Wrote(Inputs) \cup Marks
          /\ Own(hidden[r]) \cap BytesOf(Last(upstream[r])) = {}
      BY <1>1 DEF HiddenInv, ForwardInv, q
    <3>2. Source(r) = Wrote(Outputs)
      BY <3>1 DEF Source, q
    <3>3. Own(more) \cap BytesOf(Last(upstream[r])) = {}
      BY <2>13, <3>1, <3>2, SourcesAreApart DEF Own
    <3> QED BY <2>4, <2>11, <3>1, <3>3
  <2>17. SpansInv(r)' /\ RelayInv(r)' /\ FreshInv(r)'
    BY <2>4 DEF SpansInv, RelayInv, FreshInv, n
  <2> QED BY <1>1, <2>14, <2>15, <2>16, <2>17, OneHiddenStep DEF HiddenInv
<1> QED BY <1>2, <1>3

LEMMA StepKeepsHidden == IInv /\ HInv /\ [Next]_vars => HInv'
<1> SUFFICES ASSUME IInv, HInv, [Next]_vars PROVE HInv'
  OBVIOUS
<1>1. ASSUME NEW r \in Requests, Handler(r) PROVE HInv'
  BY <1>1, StartGuardsKeepsHidden, GuardReturnsKeepsHidden, GatherKeepsHidden, ForwardKeepsHidden,
     UpstreamAnswersKeepsHidden, RelayKeepsHidden, CheckAnswersKeepsHidden DEF Handler
<1>2. CASE Install \/ UNCHANGED vars
  <2>1. req' = req /\ outcomes' = outcomes /\ upstream' = upstream /\ hidden' = hidden
    BY <1>2 DEF Install, vars
  <2>2. \A r \in Requests : HiddenInv(r)'
    BY <2>1, SameHidden DEF HInv
  <2> QED BY <2>1, <2>2 DEF HInv
<1> QED BY <1>1, <1>2, ArriveKeepsHidden DEF Next

\* The invariant about the texts of a request, and what was hidden from them, holds
\* in every state.
THEOREM HiddenInvariance == Spec => []HInv
BY InitHInv, Invariance, StepKeepsHidden, PTL DEF Spec

\* What the actions of any policy had to hide is in no later text, nor in the message
\* that is forwarded or relayed.
THEOREM HiddenNeverReturns == Spec => []HiddenStaysHidden
<1>1. ASSUME HInv PROVE HiddenStaysHidden
  BY <1>1 DEF HInv, HiddenInv, TextInv, ForwardInv, RelayInv, HiddenStaysHidden
<1> QED BY <1>1, HiddenInvariance, PTL
=============================================================================
