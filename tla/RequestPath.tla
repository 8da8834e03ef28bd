----------------------------- MODULE RequestPath -----------------------------
(***************************************************************************)
(* A request on its way through the gateway: the proxy handler and the     *)
(* check handler, the dispatcher with its guard goroutines, and the policy *)
(* index that is swapped under them.                                       *)
(*                                                                         *)
(* A proxied chat request goes through the guards for the input, to the    *)
(* upstream model, and its answer through the guards for the output; a     *)
(* check request goes through one of the two.  In each phase the handler   *)
(* takes the policies of the application one by one: the guards of one run *)
(* in parallel over the same text, then the handler emits an evidence      *)
(* event for every outcome and applies the actions to the text.            *)
(***************************************************************************)
EXTENDS ApplyActions

CONSTANTS
    Requests,       \* the executions of the two handlers
    Bundles,        \* Bundles[n]: the policies of bundle n for the application
    Registered,     \* the detectors in the registry of the dispatcher
    CharDetectors,  \* the detectors whose spans count characters, not bytes
    Inputs,         \* the requests that arrive
    Outputs,        \* the answers of the upstream model
    Findings,       \* the sets of spans, in characters, that detectors find
    DefaultFailMode \* of the dispatcher ("closed")

Directions == {"input", "output"}

ASSUME RequestPathAssumption ==
    /\ Bundles # <<>>
    /\ CharDetectors \subseteq Registered
    /\ DefaultFailMode \in {"open", "closed"}

\* Bundles, policies and guards are numbered from 1.
ASSUME BundlesAssumption ==
    /\ Bundles \in Seq(ToSet(Bundles))
    /\ \A n \in DOMAIN Bundles :
         /\ Bundles[n] \in Seq(ToSet(Bundles[n]))
         /\ \A p \in DOMAIN Bundles[n] : Bundles[n][p].guards \in Seq(ToSet(Bundles[n][p].guards))

\* Detectors find finitely many spans, and none ends before it starts.
ASSUME FindingsAssumption ==
    \A f \in Findings : /\ IsFiniteSet(f)
                        /\ \A s \in f : s.start \in Nat /\ s.end \in Nat /\ s.start <= s.end

\* A proxied request begins with its input.
ASSUME InputsAssumption ==
    \A b \in Inputs : /\ b.kind \in {"proxy", "check"} /\ b.dir \in Directions
                      /\ b.kind = "proxy" => b.dir = "input"

VARIABLES
    index,      \* the bundle in the Snapshot; 0 if none was installed yet
    req,        \* req[r]: where the handler of r is and its local variables
    outcomes,   \* outcomes[r]: what the guards that run have returned
    events,     \* events[r]: the evidence events emitted for r
    upstream,   \* upstream[r]: the messages that were forwarded
    flagged,    \* history: the bytes that redact guards of r have found
    hidden      \* history: the bytes ApplyActions had to hide for r

vars == <<index, req, outcomes, events, upstream, flagged, hidden>>

-----------------------------------------------------------------------------
(* Texts. *)

NewLine == <<"newline", 1>>

\* What the gateway puts into a text.
Marks == {NewLine, Star, Redacted}

Written(b) == UNION {BytesOf(b.msgs[i]) : i \in DOMAIN b.msgs}

\* Messages are lists of bytes.  A byte that a client or the model wrote stands for its
\* place: it occurs once, in one message, and differs from what the gateway puts in.
ASSUME MessagesAssumption ==
    /\ \A b \in Inputs \cup Outputs :
         /\ b.msgs \in Seq(Seq(Written(b))) /\ Written(b) \cap Marks = {}
         /\ \A i, j \in DOMAIN b.msgs : \A k \in DOMAIN b.msgs[i], l \in DOMAIN b.msgs[j] :
              b.msgs[i][k] = b.msgs[j][l] => i = j /\ k = l
    /\ \A b \in Inputs, o \in Outputs : Written(b) \cap Written(o) = {}

\* concatMessages and concatChoices.
Concat(ms) ==
    LET upto[n \in 0 .. Len(ms)] ==
            IF n = 0 THEN <<>>
            ELSE upto[n - 1] \o (IF n = 1 THEN ms[n] ELSE <<NewLine>> \o ms[n])
    IN  upto[Len(ms)]

\* writeMutatedInput: the whole mutated text goes into the last message.
WithLast(ms, text) == IF ms = <<>> THEN ms ELSE [ms EXCEPT ![Len(ms)] = text]

\* writeMutatedOutput: ... into the first choice.
WithFirstChoice(cs, text) == IF cs = <<>> THEN cs ELSE [cs EXCEPT ![1] = text]

\* The bytes that begin a character, in order.
CharStarts(text) == {i \in DOMAIN text : text[i][2] = 1}

Before(text, i) == Cardinality({j \in CharStarts(text) : j < i})

\* The bytes of the characters from start to end.
BytesIn(text, span) ==
    {i \in DOMAIN text : Cardinality({j \in CharStarts(text) : j <= i}) \in span.start + 1 .. span.end}

FitsIn(text, spans) == \A s \in spans : s.end <= Cardinality(CharStarts(text))

\* The byte offset of a character offset.
ByteOffset(text, n) ==
    IF n = Cardinality(CharStarts(text)) THEN Len(text)
    ELSE (CHOOSE i \in CharStarts(text) : Before(text, i) = n) - 1

-----------------------------------------------------------------------------
(* Detectors and guards. *)

Pass == [verdict |-> "PASS", err |-> FALSE, spans |-> {}]

\* What a detector answers that does not fail: a verdict on the text.
Answers(d, text) ==
    {[Pass EXCEPT !.verdict = v] : v \in {"PASS", "NEEDS_ESCALATION"}} \cup
    {[Pass EXCEPT !.verdict = "FAIL", !.spans = f] : f \in {g \in Findings : FitsIn(text, g)}}

\* errorResultForFailMode: the guard's fail_mode, the policy's, the default.
FailMode(g, p) ==
    IF g.failMode # "" THEN g.failMode
    ELSE IF p.failMode # "" THEN p.failMode
    ELSE DefaultFailMode

\* A detector error becomes a verdict without spans.
ErrorResult(g, p) ==
    [Pass EXCEPT !.err = TRUE, !.verdict = IF FailMode(g, p) = "open" THEN "PASS" ELSE "FAIL"]

\* Mutant of RunOne: a detector that is not registered leaves no outcome.
RunOneRegisteredOnly(g, p, text) ==
    IF g.detector \notin Registered THEN {}
    ELSE {ErrorResult(g, p)} \cup Answers(g.detector, text)

\* runOne.  A detector that is not registered, does not answer in time, breaks
\* its circuit or reports ERROR gives the fail mode's result.  A score in the
\* escalation band is decided by the second detector, if that one answers.
RunOne(g, p, text) ==
    {ErrorResult(g, p)} \cup
    IF g.detector \notin Registered THEN {}
    ELSE Answers(g.detector, text) \cup
         IF g.escalation \in Registered THEN Answers(g.escalation, text) ELSE {}

\* The spans of an outcome as the gateway takes them: as byte offsets.
AsBytes(g, text, s) ==
    IF g.detector \in CharDetectors THEN [start |-> s.start, end |-> s.end]
    ELSE [start |-> ByteOffset(text, s.start), end |-> ByteOffset(text, s.end)]

-----------------------------------------------------------------------------
(* The local variables of a handler. *)

Policies(r) == Bundles[req[r].idx]

Policy(r) == Policies(r)[req[r].pol]

\* The guards of the policy for the direction.
ToRun(r) == {i \in DOMAIN Policy(r).guards : req[r].dir \in Policy(r).guards[i].dirs}

Guard(r, i) == Policy(r).guards[i]

Pending == [Pass EXCEPT !.verdict = "pending"]

NoRequest ==
    [pc |-> "idle", kind |-> "proxy", idx |-> 0, dir |-> "input", pol |-> 0,
     text |-> <<>>, original |-> <<>>, body |-> <<>>, verdict |-> "PASS", answer |-> "none"]

TypeOK ==
    /\ index \in 0 .. Len(Bundles)
    /\ \A r \in Requests :
          /\ req[r].pc \in {"idle", "policy", "guards", "upstream", "answered"}
          /\ req[r].idx \in 0 .. index
          /\ req[r].pc \in {"policy", "guards", "upstream"} => req[r].idx # 0
          /\ req[r].dir \in Directions
          /\ req[r].answer \in {"none", "error", "refused", "blocked", "relayed", "checked"}
          /\ req[r].pc = "answered" <=> req[r].answer # "none"
          /\ req[r].pc = "guards" => DOMAIN outcomes[r] = ToRun(r)

Init ==
    /\ index = 0
    /\ req = [r \in Requests |-> NoRequest]
    /\ outcomes = [r \in Requests |-> <<>>]
    /\ events = [r \in Requests |-> {}]
    /\ upstream = [r \in Requests |-> <<>>]
    /\ flagged = [r \in Requests |-> {}]
    /\ hidden = [r \in Requests |-> {}]

-----------------------------------------------------------------------------

\* A newer bundle is installed: Snapshot.Store.
Install ==
    /\ index < Len(Bundles)
    /\ index' = index + 1
    /\ UNCHANGED <<req, outcomes, events, upstream, flagged, hidden>>

Answered(r, answer) ==
    req' = [req EXCEPT ![r].pc = "answered", ![r].answer = answer]

\* Mutant of Begin: the phase looks at the Snapshot again.
BeginReloading(r, dir, ms) ==
    req' = [req EXCEPT ![r].pc = "policy", ![r].idx = index, ![r].dir = dir, ![r].pol = 1,
                       ![r].body = ms, ![r].text = Concat(ms), ![r].original = Concat(ms)]

\* runPhase begins, on the index the handler loaded when the request arrived.
Begin(r, dir, ms) ==
    req' = [req EXCEPT ![r].pc = "policy", ![r].dir = dir, ![r].pol = 1,
                       ![r].idx = IF @ = 0 THEN index ELSE @,
                       ![r].body = ms, ![r].text = Concat(ms), ![r].original = Concat(ms)]

\* Mutant of Arrive: a missing index is not noticed.
ArriveUnchecked(r, b) ==
    /\ req[r].pc = "idle"
    /\ IF b.stream THEN Answered(r, "refused")
       ELSE req' = [req EXCEPT ![r] =
                [NoRequest EXCEPT !.pc = "policy", !.kind = b.kind, !.idx = index, !.dir = b.dir,
                                  !.pol = 1, !.body = b.msgs, !.text = Concat(b.msgs),
                                  !.original = Concat(b.msgs)]]
    /\ UNCHANGED <<index, outcomes, events, upstream, flagged, hidden>>

\* A request arrives.  Without an index it is answered 500; a streamed chat
\* is not supported.
Arrive(r, b) ==
    /\ req[r].pc = "idle"
    /\ IF index = 0 THEN Answered(r, "error")
       ELSE IF b.stream THEN Answered(r, "refused")
       ELSE req' = [req EXCEPT ![r] =
                [NoRequest EXCEPT !.pc = "policy", !.kind = b.kind, !.idx = index, !.dir = b.dir,
                                  !.pol = 1, !.body = b.msgs, !.text = Concat(b.msgs),
                                  !.original = Concat(b.msgs)]]
    /\ UNCHANGED <<index, outcomes, events, upstream, flagged, hidden>>

\* Dispatcher.Run starts the guards of the next policy.
StartGuards(r) ==
    /\ req[r].pc = "policy"
    /\ req[r].pol <= Len(Policies(r))
    /\ outcomes' = [outcomes EXCEPT ![r] = [i \in ToRun(r) |-> Pending]]
    /\ req' = [req EXCEPT ![r].pc = "guards"]
    /\ UNCHANGED <<index, events, upstream, flagged, hidden>>

\* The goroutine of guard i returns.
GuardReturns(r, i) ==
    /\ req[r].pc = "guards"
    /\ outcomes[r][i] = Pending
    /\ \E res \in RunOne(Guard(r, i), Policy(r), req[r].text) :
          outcomes' = [outcomes EXCEPT ![r][i] = res]
    /\ UNCHANGED <<index, req, events, upstream, flagged, hidden>>

\* Mutant of Acting: shadow guards act.
ActingShadow(r) == {i \in DOMAIN outcomes[r] : outcomes[r][i].verdict = "FAIL"}

\* The outcomes ApplyActions acts on.
Acting(r) == {i \in DOMAIN outcomes[r] : outcomes[r][i].verdict = "FAIL" /\ ~Guard(r, i).shadow}

Blocks(r) == \E i \in Acting(r) : Guard(r, i).onFail \in {"block", "block_and_explain"}

Edits(r) ==
    UNION {{[start |-> AsBytes(Guard(r, i), req[r].text, s).start,
             end |-> AsBytes(Guard(r, i), req[r].text, s).end,
             action |-> Guard(r, i).onFail] : s \in outcomes[r][i].spans} :
           i \in {j \in Acting(r) : Guard(r, j).onFail \in {"redact", "mask"}}}

\* The characters that redact guards have found, where they really are.
Found(r) ==
    UNION {UNION {{req[r].text[k] : k \in BytesIn(req[r].text, s)} : s \in outcomes[r][i].spans} :
           i \in {j \in Acting(r) : Guard(r, j).onFail = "redact"}}

\* The event of an outcome.  The check handler leaves out what the proxy handler
\* says of shadow guards and evidence modes.
Event(r, i) ==
    LET g == Guard(r, i)
        mode == IF req[r].kind = "check" THEN "unset"
                ELSE IF g.evidence \in {"none", "spans", "full_text"} THEN g.evidence ELSE "spans"
    IN [bundle |-> req[r].idx, policy |-> req[r].pol, guard |-> i, dir |-> req[r].dir,
        verdict |-> outcomes[r][i].verdict, err |-> outcomes[r][i].err,
        shadow |-> req[r].kind = "proxy" /\ g.shadow, mode |-> mode,
        spans |-> IF mode = "none" THEN {} ELSE outcomes[r][i].spans]

\* Mutant of Gather: the events of a policy that blocks are not emitted.
GatherBlockFirst(r) ==
    /\ req[r].pc = "guards"
    /\ \A i \in DOMAIN outcomes[r] : outcomes[r][i] # Pending
    /\ outcomes' = [outcomes EXCEPT ![r] = <<>>]
    /\ IF Blocks(r)
       THEN /\ Answered(r, IF req[r].kind = "proxy" THEN "blocked" ELSE "checked")
            /\ UNCHANGED <<flagged, hidden, events>>
       ELSE /\ events' = [events EXCEPT ![r] = @ \cup {Event(r, i) : i \in DOMAIN outcomes[r]}]
            /\ \E s \in SortedEdits(Edits(r)) :
                  req' = [req EXCEPT ![r].pc = "policy", ![r].pol = @ + 1,
                                     ![r].text = Rewrite(@, s)]
            /\ flagged' = [flagged EXCEPT ![r] = @ \cup Found(r)]
            /\ hidden' = [hidden EXCEPT ![r] = @ \cup MustHide(req[r].text, Edits(r))]
    /\ UNCHANGED <<index, upstream>>

\* wg.Wait returns: emit the events, apply the actions; a block ends the request,
\* otherwise the next policy gets the mutated text.
Gather(r) ==
    /\ req[r].pc = "guards"
    /\ \A i \in DOMAIN outcomes[r] : outcomes[r][i] # Pending
    /\ outcomes' = [outcomes EXCEPT ![r] = <<>>]
    /\ events' = [events EXCEPT ![r] = @ \cup {Event(r, i) : i \in DOMAIN outcomes[r]}]
    /\ LET verdict == IF \E i \in DOMAIN outcomes[r] : outcomes[r][i].verdict = "FAIL"
                      THEN "FAIL" ELSE req[r].verdict
       IN IF Blocks(r)
          THEN /\ req' = [req EXCEPT ![r].pc = "answered", ![r].verdict = "FAIL",
                             ![r].answer = IF req[r].kind = "proxy" THEN "blocked" ELSE "checked"]
               /\ UNCHANGED <<flagged, hidden>>
          ELSE /\ \E s \in SortedEdits(Edits(r)) :
                     req' = [req EXCEPT ![r].pc = "policy", ![r].pol = @ + 1,
                                        ![r].text = Rewrite(@, s), ![r].verdict = verdict]
               /\ flagged' = [flagged EXCEPT ![r] = @ \cup Found(r)]
               /\ hidden' = [hidden EXCEPT ![r] = @ \cup MustHide(req[r].text, Edits(r))]
    /\ UNCHANGED <<index, upstream>>

PhaseDone(r) == req[r].pc = "policy" /\ req[r].pol > Len(Policies(r))

\* The proxy forwards the input.  If the text was mutated it is written back.
Forward(r) ==
    /\ PhaseDone(r)
    /\ req[r].kind = "proxy" /\ req[r].dir = "input"
    /\ upstream' = [upstream EXCEPT ![r] =
          IF req[r].text = req[r].original THEN req[r].body ELSE WithLast(req[r].body, req[r].text)]
    /\ req' = [req EXCEPT ![r].pc = "upstream"]
    /\ UNCHANGED <<index, outcomes, events, flagged, hidden>>

\* The model answers: an error of the call is answered 500, an error status or a
\* body that is not a chat completion is relayed, the rest is the output phase.
UpstreamAnswers(r, o) ==
    /\ req[r].pc = "upstream"
    /\ \/ o.result = "unreachable" /\ Answered(r, "error")
       \/ o.result = "other" /\ Answered(r, "relayed")
       \/ o.result = "completion" /\ Begin(r, "output", o.msgs)
    /\ UNCHANGED <<index, outcomes, events, upstream, flagged, hidden>>

\* The proxy relays the output.
Relay(r) ==
    /\ PhaseDone(r)
    /\ req[r].kind = "proxy" /\ req[r].dir = "output"
    /\ req' = [req EXCEPT ![r].pc = "answered", ![r].answer = "relayed",
          ![r].body = IF req[r].text = req[r].original THEN @ ELSE WithFirstChoice(@, req[r].text)]
    /\ UNCHANGED <<index, outcomes, events, upstream, flagged, hidden>>

\* The check handler answers with the verdict and the mutated text.
CheckAnswers(r) ==
    /\ PhaseDone(r)
    /\ req[r].kind = "check"
    /\ Answered(r, "checked")
    /\ UNCHANGED <<index, outcomes, events, upstream, flagged, hidden>>

-----------------------------------------------------------------------------

Handler(r) ==
    \/ StartGuards(r)
    \/ \E i \in DOMAIN outcomes[r] : GuardReturns(r, i)
    \/ Gather(r)
    \/ Forward(r)
    \/ \E o \in Outputs : UpstreamAnswers(r, o)
    \/ Relay(r)
    \/ CheckAnswers(r)

Next ==
    \/ Install
    \/ \E r \in Requests :
          \/ \E b \in Inputs : Arrive(r, b)
          \/ Handler(r)

Spec == Init /\ [][Next]_vars

\* A handler goes on: detectors answer or run into the budget of the dispatcher,
\* and the upstream call into the timeout of its client.
FairSpec == Spec /\ \A r \in Requests : WF_vars(Handler(r))

-----------------------------------------------------------------------------
(* Properties. *)

GuardOf(e) == Bundles[e.bundle][e.policy].guards[e.guard]

\* One request, one bundle: however many bundles are installed while a request is
\* on its way, both phases run the guards of the same bundle, and its evidence
\* names no other.
OneBundle == \A r \in Requests : \A e \in events[r] : e.bundle = req[r].idx

\* The phases and policies a request has been through, the running one excluded.
Passed(r) ==
    LET All(idx, dir) == {dir} \X DOMAIN Bundles[idx] IN
    IF req[r].idx = 0 THEN {}
    ELSE (IF req[r].dir = "output" /\ req[r].kind = "proxy" THEN All(req[r].idx, "input") ELSE {})
            \cup {x \in All(req[r].idx, req[r].dir) :
                    x[2] < req[r].pol \/ (x[2] = req[r].pol /\ req[r].pc = "answered")}

\* No decision without evidence: a request is let through, mutated, forwarded or
\* blocked only with one event emitted for each guard that had a say in it.
EveryGuardRecorded ==
    \A r \in Requests : \A x \in Passed(r) :
        \A i \in DOMAIN Bundles[req[r].idx][x[2]].guards :
            x[1] \in Bundles[req[r].idx][x[2]].guards[i].dirs =>
                Cardinality({e \in events[r] :
                    e.dir = x[1] /\ e.policy = x[2] /\ e.guard = i}) = 1

\* Shadow guards are diagnostic, and fail behaviour is the guard's: a request is
\* blocked only by a blocking guard, and its text changed only by a redacting or
\* masking one, that has failed, is not a shadow, and did not fail open.
EffectsExplained ==
    \A r \in Requests :
        LET Failed(actions) ==
                \E e \in events[r] :
                    /\ e.dir = req[r].dir /\ e.verdict = "FAIL"
                    /\ GuardOf(e).onFail \in actions /\ ~GuardOf(e).shadow
                    /\ e.err => GuardOf(e).failMode # "open"
        IN /\ req[r].answer = "blocked" => Failed({"block", "block_and_explain"})
           /\ req[r].text # req[r].original => Failed({"redact", "mask"})

\* The bytes a client or the model wrote.
Own(bytes) == bytes \ Marks

\* What the actions of any policy had to hide from a text, later policies never
\* bring back, and the message the text is written back to does not contain.
HiddenStaysHidden ==
    \A r \in Requests :
        /\ Own(hidden[r]) \cap BytesOf(req[r].text) = {}
        /\ upstream[r] # <<>> => Own(hidden[r]) \cap BytesOf(Last(upstream[r])) = {}
        /\ req[r].dir = "output" /\ req[r].answer = "relayed" /\ req[r].body # <<>>
              => Own(hidden[r]) \cap BytesOf(Head(req[r].body)) = {}

\* Every request is answered, also when detectors fail, are missing or escalate.
EveryRequestAnswered ==
    \A r \in Requests : req[r].pc # "idle" ~> req[r].pc = "answered"

\* Whatever a redacting guard has found is not forwarded.
FoundIsNotForwarded ==
    \A r \in Requests : \A i \in DOMAIN upstream[r] :
        Own(flagged[r]) \cap BytesOf(upstream[r][i]) = {}
=============================================================================
