---------------------------- MODULE DetectorCalls ----------------------------
(***************************************************************************)
(* The gateway's calls to one detector service: the circuit breaker of the *)
(* HTTP backend, two atomics that concurrent calls update one after the    *)
(* other, the answers of the service, and what the dispatcher makes of     *)
(* them.  All guards of a detector share its backend.                      *)
(***************************************************************************)
EXTENDS DetectorServices

CONSTANTS
    Calls,          \* the goroutines that may call the backend at the same time
    Guards,         \* the guards of the bundle: [detector, config, mode]
    Texts, Replies, \* what is checked, and what a provider may answer the judge
    FailThreshold,  \* failures that open the circuit
    OpenWindow      \* ticks it stays open

ASSUME DetectorCallsAssumption == FailThreshold \in Nat \ {0} /\ OpenWindow \in Nat \ {0}

\* Thresholds and scores are numbers.
ASSUME ConfigAssumption ==
    \A g \in Guards : g.config # None =>
        /\ g.detector = "safety" =>
             /\ {"rubric", "thresholds"} \subseteq DOMAIN g.config
             /\ \A c \in DOMAIN g.config.thresholds : g.config.thresholds[c] \in Nat
        /\ g.detector = "nli" => g.config.threshold \in Nat

ASSUME RepliesAssumption ==
    \A r \in Replies : r.kind = "object" =>
        r.score \in Nat /\ \A c \in DOMAIN r.categories : r.categories[c] \in Nat

VARIABLES
    detector,   \* the detector this backend calls
    failures,   \* the counter, up to the threshold: beyond it, it makes no difference
    openUntil,  \* the ticks until the stored deadline, None if none is stored
    up,         \* the service answers in time, and callers wait for it
    call        \* call[c]: the call of c that runs, or ran last

vars == <<detector, failures, openUntil, up, call>>

-----------------------------------------------------------------------------
(* What the dispatcher makes of an answer.                                  *)

\* errorResultForFailMode: mode is the guard's fail_mode, the policy's or the default.
FailModeVerdict(guard) == IF guard.mode = "open" THEN "PASS" ELSE "FAIL"

\* Mutant of RunOne: the verdict ERROR is not taken as an error.
RunOneErrOnly(guard, answer) ==
    IF answer.status # 200 THEN FailModeVerdict(guard) ELSE answer.verdict

\* runOne, for a guard without escalation: only status 200 is no error.
RunOne(guard, answer) ==
    IF answer.status # 200 \/ answer.verdict = "ERROR" THEN FailModeVerdict(guard)
    ELSE answer.verdict

-----------------------------------------------------------------------------
(* The calls.                                                               *)

NoAnswer == [status |-> 0, verdict |-> None]

\* No answer was waited for.
NotSent == [status |-> None, verdict |-> None]

NoCall == [pc |-> "idle", guard |-> None, answer |-> NotSent, failed |-> FALSE, verdict |-> None]

Init ==
    /\ detector \in {g.detector : g \in Guards}
    /\ failures = 0
    /\ openUntil = None
    /\ up = TRUE
    /\ call = [c \in Calls |-> NoCall]

\* Mutant of Open: whether the deadline has passed is not looked at.
OpenWithoutClock == openUntil # None

Open == openUntil # None /\ openUntil # 0

\* Check returns at once: the circuit is open, or no millisecond of the budget is left.
Refuse(c, g) ==
    /\ call[c].pc = "idle"
    /\ call' = [call EXCEPT ![c] = [pc |-> "idle", guard |-> g, answer |-> NotSent,
                                    failed |-> TRUE, verdict |-> FailModeVerdict(g)]]
    /\ UNCHANGED <<detector, failures, openUntil, up>>

\* The request is sent.
Send(c, g) ==
    /\ call[c].pc = "idle" /\ ~Open
    /\ call' = [call EXCEPT ![c] = [pc |-> "sent", guard |-> g, answer |-> NotSent,
                                    failed |-> FALSE, verdict |-> None]]
    /\ UNCHANGED <<detector, failures, openUntil, up>>

\* The call has an answer; failed says that nothing assessed the text.
Answered(c, pc, answer, failed) ==
    call' = [call EXCEPT ![c] = [pc |-> pc, guard |-> @.guard, answer |-> answer,
                                 failed |-> failed, verdict |-> RunOne(@.guard, answer)]]

\* recordFailure: the counter first; a call that sees it reach the threshold goes on.
RecordFailure(c, answer) ==
    /\ failures' = Min({failures + 1, FailThreshold})
    /\ Answered(c, IF failures' = FailThreshold THEN "opening" ELSE "idle", answer, TRUE)
    /\ UNCHANGED <<detector, openUntil, up>>

\* A transport error, the timeout of the client or the end of the request's context.
Lose(c) ==
    /\ call[c].pc = "sent" /\ ~up
    /\ RecordFailure(c, NoAnswer)

\* The service answers.  5xx is a failure, other errors are not recorded, 200 resets the
\* counter before the deadline.
Serve(c, text, reply) ==
    /\ call[c].pc = "sent" /\ up
    /\ LET guard == call[c].guard
           answer == Answer(guard, text, reply)
       IN  \/ answer.status = 500 /\ RecordFailure(c, answer)
           \/ /\ answer.status = 422
              /\ Answered(c, "idle", answer, TRUE)
              /\ UNCHANGED <<detector, failures, openUntil, up>>
           \/ /\ answer.status = 200
              /\ failures' = 0
              /\ Answered(c, "closing", answer, JudgeFailed(guard, text, reply))
              /\ UNCHANGED <<detector, openUntil, up>>

\* The body of a 200 answer breaks off or is no JSON: an error that is not recorded.
Garble(c) ==
    /\ call[c].pc = "sent"
    /\ Answered(c, "idle", NoAnswer, TRUE)
    /\ UNCHANGED <<detector, failures, openUntil, up>>

\* The second atomic of recordFailure and of recordSuccess.
OpenCircuit(c) ==
    /\ call[c].pc = "opening"
    /\ openUntil' = OpenWindow
    /\ call' = [call EXCEPT ![c].pc = "idle"]
    /\ UNCHANGED <<detector, failures, up>>

CloseCircuit(c) ==
    /\ call[c].pc = "closing"
    /\ openUntil' = None
    /\ call' = [call EXCEPT ![c].pc = "idle"]
    /\ UNCHANGED <<detector, failures, up>>

\* Time passes.
Tick ==
    /\ openUntil \notin {None, 0}
    /\ openUntil' = openUntil - 1
    /\ UNCHANGED <<detector, failures, up, call>>

\* The service becomes slow or unreachable, or recovers.
Toggle == up' = ~up /\ UNCHANGED <<detector, failures, openUntil, call>>

MyGuards == {g \in Guards : g.detector = detector}

Next ==
    \/ \E c \in Calls :
         \/ \E g \in MyGuards : Refuse(c, g) \/ Send(c, g)
         \/ Lose(c) \/ Garble(c)
         \/ \E text \in Texts, reply \in Replies : Serve(c, text, reply)
         \/ OpenCircuit(c) \/ CloseCircuit(c)
    \/ Tick
    \/ Toggle

Spec == Init /\ [][Next]_vars

\* Time passes, calls keep coming, and the client's timeout ends every call.
Fairness ==
    /\ WF_vars(Tick)
    /\ \A c \in Calls :
         /\ WF_vars(\E g \in MyGuards : Send(c, g))
         /\ WF_vars(Lose(c) \/ \E text \in Texts, reply \in Replies : Serve(c, text, reply))
         /\ WF_vars(OpenCircuit(c)) /\ WF_vars(CloseCircuit(c))

FairSpec == Spec /\ Fairness

-----------------------------------------------------------------------------
(* Properties.                                                              *)

\* A check that nothing assessed, because the circuit was open, the service did not
\* answer, refused or answered what is no JSON, or its judge failed, ends as the guard's
\* fail mode says.
FailModeDecides ==
    \A c \in Calls : call[c].failed =>
        call[c].verdict = IF call[c].guard.mode = "open" THEN "PASS" ELSE "FAIL"

\* A service that has recovered is used again: if it stays up and answers 200 from some
\* time on, calls do reach it again and again, whatever the races before left behind.
RecoveredIsUsed ==
    <>[](up /\ \A c \in Calls : call[c].answer.status \in {None, 200})
        => []<>(\E c \in Calls : call[c].pc = "closing")

\* A safety guard's config with another threshold for a category.
Lowered(config, c, t) ==
    LET thresholds == [d \in DOMAIN config.thresholds \cup {c} |->
                         IF d = c THEN t ELSE config.thresholds[d]]
    IN  [config EXCEPT !.thresholds = thresholds]

\* A safety guard's verdict stays FAIL under a lower category threshold, an answer with
\* one claim more stays ungrounded, and no judge that fails makes a text or a claim pass.
\* It is about the guards of this backend, which no step changes.
StricterNeverPasses ==
    /\ \A g \in MyGuards, text \in Texts, r \in Replies :
         LET asked == Safety(g.config, text, r)
             named == IF r.kind = "object" THEN DOMAIN r.categories
                      ELSE IF r.kind = "unsafe" THEN r.categories ELSE {}
         IN  g.detector = "safety" /\ g.config # None =>
               /\ JudgeFailed(g, text, r) => asked.verdict # "PASS"
               /\ asked.verdict = "FAIL" => \A c \in named :
                    \A t \in {100 * k : k \in 0 .. ThresholdOf(g.config, c) \div 100} :
                       Safety(Lowered(g.config, c, t), text, r).verdict = "FAIL"
    /\ \A g \in MyGuards, s, r \in Replies :
         g.detector = "nli" /\ g.config # None /\ g.config.rubric \in DOMAIN Rubrics =>
           /\ Nli(g.config, TRUE, {s}).verdict = "FAIL" => Nli(g.config, TRUE, {s, r}).verdict = "FAIL"
           /\ r.kind = "none" => Nli(g.config, TRUE, {s, r}).verdict # "PASS"
=============================================================================
