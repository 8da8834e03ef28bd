------------------------- MODULE DetectorCalls_proofs -------------------------
(***************************************************************************)
(* Proofs about the calls to a detector service, for any callers, guards,  *)
(* rubrics, providers and texts, whatever a provider answers the judge,    *)
(* and however the two atomics of the circuit breaker interleave: a check  *)
(* that nothing assessed ends as the guard's fail mode says.               *)
(*                                                                         *)
(* The invariant needs the shape of the calls, since their steps update    *)
(* single fields, and one fact about the services: a judge that was asked  *)
(* and did not answer is never reported but as the verdict ERROR.          *)
(***************************************************************************)
EXTENDS DetectorCalls, WellFoundedInduction, TLAPS

-----------------------------------------------------------------------------
(* The services.                                                            *)

\* The safety service, the only one that asks the judge about what the gateway sends,
\* answers ERROR if the judge fails: no failed judge becomes a verdict.
LEMMA FailedJudgeSaysError ==
    ASSUME NEW guard, NEW text, NEW reply, JudgeFailed(guard, text, reply)
    PROVE  Answer(guard, text, reply) = Says("ERROR")
<1>1. Answer(guard, text, reply) = Safety(guard.config, text, reply)
  BY DEF JudgeFailed, Answer
<1>2. Safety(guard.config, text, reply) = Says("ERROR")
  BY DEF JudgeFailed, Safety
<1> QED BY <1>1, <1>2

\* What is not status 200 gets the guard's fail mode, and so does the verdict ERROR.
LEMMA ErrorsTakeFailMode ==
    ASSUME NEW guard, NEW answer, answer.status # 200 \/ answer.verdict = "ERROR"
    PROVE  RunOne(guard, answer) = FailModeVerdict(guard)
  BY DEF RunOne

-----------------------------------------------------------------------------
(* The invariant.                                                           *)

\* Every call is a record of the five fields.
CallShape ==
    /\ call = [c \in Calls |-> call[c]]
    /\ \A c \in Calls :
         call[c] = [pc |-> call[c].pc, guard |-> call[c].guard, answer |-> call[c].answer,
                    failed |-> call[c].failed, verdict |-> call[c].verdict]

CallInv == CallShape /\ FailModeDecides

\* A call that Answered updates keeps the invariant if its verdict is the fail mode's
\* whenever it counts as failed.
LEMMA AnsweredKeepsInv ==
    ASSUME NEW c \in Calls, NEW pc, NEW answer, NEW failed, CallInv,
           Answered(c, pc, answer, failed),
           failed => RunOne(call[c].guard, answer) = FailModeVerdict(call[c].guard)
    PROVE  CallInv'
<1> DEFINE after == [pc |-> pc, guard |-> call[c].guard, answer |-> answer, failed |-> failed,
                     verdict |-> RunOne(call[c].guard, answer)]
<1>1. call' = [call EXCEPT ![c] = after]
  BY DEF Answered
<1>2. call'[c] = after /\ \A d \in Calls \ {c} : call'[d] = call[d]
  BY <1>1 DEF CallInv, CallShape
<1>3. CallShape'
  BY <1>1, <1>2 DEF CallInv, CallShape
<1>4. FailModeDecides'
  <2> SUFFICES ASSUME NEW d \in Calls, call'[d].failed
               PROVE  call'[d].verdict = IF call'[d].guard.mode = "open" THEN "PASS" ELSE "FAIL"
    BY DEF FailModeDecides
  <2>1. CASE d = c
    BY <1>2, <2>1 DEF FailModeVerdict
  <2>2. CASE d # c
    BY <1>2, <2>2 DEF CallInv, FailModeDecides
  <2> QED BY <2>1, <2>2
<1> QED BY <1>3, <1>4 DEF CallInv

\* A step that moves only the program counter of a call keeps the invariant.
LEMMA MovedKeepsInv ==
    ASSUME NEW c \in Calls, CallInv, call' = [call EXCEPT ![c].pc = "idle"]
    PROVE  CallInv'
<1>1. call'[c] = [call[c] EXCEPT !.pc = "idle"] /\ \A d \in Calls \ {c} : call'[d] = call[d]
  BY DEF CallInv, CallShape
<1>2. call'[c] = [pc |-> "idle", guard |-> call[c].guard, answer |-> call[c].answer,
                  failed |-> call[c].failed, verdict |-> call[c].verdict]
  BY <1>1 DEF CallInv, CallShape
<1>3. CallShape'
  BY <1>1, <1>2 DEF CallInv, CallShape
<1>4. FailModeDecides'
  BY <1>1, <1>2 DEF CallInv, FailModeDecides
<1> QED BY <1>3, <1>4 DEF CallInv

\* No call has run in the initial states.
LEMMA CallInit == Init => CallInv
<1> SUFFICES ASSUME Init PROVE CallInv
  OBVIOUS
<1>1. \A c \in Calls : call[c] = NoCall
  BY DEF Init
<1>2. CallShape
  BY <1>1 DEF Init, CallShape, NoCall
<1>3. FailModeDecides
  BY <1>1 DEF FailModeDecides, NoCall
<1> QED BY <1>2, <1>3 DEF CallInv

\* Every answer of the service, every lost one and every refusal keeps the invariant.
LEMMA CallStep == CallInv /\ [Next]_vars => CallInv'
<1> SUFFICES ASSUME CallInv, [Next]_vars PROVE CallInv'
  OBVIOUS
<1>1. ASSUME NEW c \in Calls, NEW g \in MyGuards, Refuse(c, g)
      PROVE  CallInv'
  <2> DEFINE after == [pc |-> "idle", guard |-> g, answer |-> NotSent, failed |-> TRUE,
                       verdict |-> FailModeVerdict(g)]
  <2>1. call'[c] = after /\ \A d \in Calls \ {c} : call'[d] = call[d]
    BY <1>1 DEF Refuse, CallInv, CallShape
  <2>2. CallShape'
    BY <1>1, <2>1 DEF Refuse, CallInv, CallShape
  <2>3. FailModeDecides'
    BY <2>1 DEF CallInv, FailModeDecides, FailModeVerdict
  <2> QED BY <2>2, <2>3 DEF CallInv
<1>2. ASSUME NEW c \in Calls, NEW g \in MyGuards, Send(c, g)
      PROVE  CallInv'
  <2> DEFINE after == [pc |-> "sent", guard |-> g, answer |-> NotSent, failed |-> FALSE,
                       verdict |-> None]
  <2>1. call'[c] = after /\ \A d \in Calls \ {c} : call'[d] = call[d]
    BY <1>2 DEF Send, CallInv, CallShape
  <2>2. call' = [call EXCEPT ![c] = after]
    BY <1>2 DEF Send
  <2>3. CallShape'
    BY <2>1, <2>2 DEF CallInv, CallShape
  <2>4. FailModeDecides'
    BY <2>1 DEF CallInv, FailModeDecides
  <2> QED BY <2>3, <2>4 DEF CallInv
<1>3. ASSUME NEW c \in Calls, Lose(c)
      PROVE  CallInv'
  <2> DEFINE pc == IF failures' = FailThreshold THEN "opening" ELSE "idle"
  <2>1. Answered(c, pc, NoAnswer, TRUE)
    BY <1>3 DEF Lose, RecordFailure
  <2>2. RunOne(call[c].guard, NoAnswer) = FailModeVerdict(call[c].guard)
    BY ErrorsTakeFailMode DEF NoAnswer
  <2> HIDE DEF pc
  <2> QED BY <2>1, <2>2, AnsweredKeepsInv
<1>4. ASSUME NEW c \in Calls, NEW text \in Texts, NEW reply \in Replies, Serve(c, text, reply)
      PROVE  CallInv'
  <2> DEFINE guard == call[c].guard
             answer == Answer(guard, text, reply)
             pc == IF failures' = FailThreshold THEN "opening" ELSE "idle"
  <2>1. CASE answer.status = 500 /\ RecordFailure(c, answer)
    <3>1. Answered(c, pc, answer, TRUE)
      BY <2>1 DEF RecordFailure
    <3>2. RunOne(guard, answer) = FailModeVerdict(guard)
      BY <2>1, ErrorsTakeFailMode
    <3> HIDE DEF pc, answer
    <3> QED BY <3>1, <3>2, AnsweredKeepsInv
  <2>2. CASE answer.status = 422 /\ Answered(c, "idle", answer, TRUE)
    <3>1. RunOne(guard, answer) = FailModeVerdict(guard)
      BY <2>2, ErrorsTakeFailMode
    <3> HIDE DEF answer
    <3> QED BY <2>2, <3>1, AnsweredKeepsInv
  <2>3. CASE answer.status = 200 /\ Answered(c, "closing", answer, JudgeFailed(guard, text, reply))
    <3>1. JudgeFailed(guard, text, reply) => RunOne(guard, answer) = FailModeVerdict(guard)
      BY FailedJudgeSaysError, ErrorsTakeFailMode DEF Says
    <3> DEFINE failed == JudgeFailed(guard, text, reply)
    <3>2. Answered(c, "closing", answer, failed)
      BY <2>3
    <3> HIDE DEF answer, failed
    <3>3. failed => RunOne(call[c].guard, answer) = FailModeVerdict(call[c].guard)
      BY <3>1 DEF failed
    <3> QED BY <3>2, <3>3, AnsweredKeepsInv
  <2> QED BY <1>4, <2>1, <2>2, <2>3 DEF Serve
<1>5. ASSUME NEW c \in Calls, OpenCircuit(c)
      PROVE  CallInv'
  BY <1>5, MovedKeepsInv DEF OpenCircuit
<1>6. ASSUME NEW c \in Calls, CloseCircuit(c)
      PROVE  CallInv'
  BY <1>6, MovedKeepsInv DEF CloseCircuit
<1>7. ASSUME NEW c \in Calls, Garble(c)
      PROVE  CallInv'
  <2>1. RunOne(call[c].guard, NoAnswer) = FailModeVerdict(call[c].guard)
    BY ErrorsTakeFailMode DEF NoAnswer
  <2> QED BY <1>7, <2>1, AnsweredKeepsInv DEF Garble
<1>8. ASSUME UNCHANGED call
      PROVE  CallInv'
  BY <1>8 DEF CallInv, CallShape, FailModeDecides
<1> QED
  BY <1>1, <1>2, <1>3, <1>4, <1>5, <1>6, <1>7, <1>8 DEF Next, Tick, Toggle, vars

-----------------------------------------------------------------------------
(* The theorem.                                                             *)

\* Whatever makes the assessment of a text fail (an open circuit, a budget that is used
\* up, a lost or unreadable answer, an error of the service, a judge that does not answer), the check
\* ends as the guard's fail mode says.
THEOREM UnassessedTakesFailMode == Spec => []FailModeDecides
<1>1. Spec => []CallInv
  BY CallInit, CallStep, PTL DEF Spec
<1>2. CallInv => FailModeDecides
  BY DEF CallInv
<1> QED BY <1>1, <1>2, PTL

-----------------------------------------------------------------------------
(* Stricter configurations.                                                 *)

\* A non-empty set of natural numbers has a least element.
LEMMA LeastExists ==
    ASSUME NEW T \in SUBSET Nat, T # {}
    PROVE  \E x \in T : \A y \in T : x <= y
<1> DEFINE R == OpToRel(<, Nat)
<1>1. IsWellFoundedOn(R, Nat)
  BY NatLessThanWellFounded
<1> HIDE DEF R
<1>2. PICK x \in T : \A y \in T : ~ (<<y, x>> \in R)
  BY <1>1, WFMin
<1>3. \A y \in T : y < x => <<y, x>> \in R
  BY DEF R, OpToRel
<1>4. ASSUME NEW y \in T PROVE x <= y
  <2>1. x \in Nat /\ y \in Nat
    OBVIOUS
  <2>2. ~(y < x)
    BY <1>2, <1>3
  <2> QED BY <2>1, <2>2
<1> QED BY <1>4

\* Min is that element.
LEMMA MinOfNaturals ==
    ASSUME NEW T \in SUBSET Nat, T # {}
    PROVE  Min(T) \in T /\ \A y \in T : Min(T) <= y
  BY LeastExists DEF Min

\* The scores of categories that the safety service reads are numbers.
LEMMA ReadingTyped ==
    ASSUME NEW rubric, NEW vars0, NEW r \in Replies, Evaluate(rubric, vars0, r) # Raised,
           NEW c \in DOMAIN Reading(rubric, Evaluate(rubric, vars0, r)).categories
    PROVE  Reading(rubric, Evaluate(rubric, vars0, r)).categories[c] \in Nat
<1> DEFINE result == Evaluate(rubric, vars0, r)
<1>1. result = r \/ result = [kind |-> "unparsed"]
  BY DEF Evaluate
<1>2. CASE rubric.format = "llamaguard"
  BY <1>2 DEF Reading, LlamaGuard
<1>3. CASE rubric.format # "llamaguard" /\ rubric.format = "json_object" /\ result.kind = "object"
  <2>1. result = r
    BY <1>1, <1>3
  <2> QED BY <1>3, <2>1, RepliesAssumption DEF Reading
<1>4. CASE rubric.format # "llamaguard" /\ ~(rubric.format = "json_object" /\ result.kind = "object")
  BY <1>4 DEF Reading
<1> QED BY <1>2, <1>3, <1>4

\* Lowering the threshold of a category keeps the verdict FAIL of a safety guard.
LEMMA LowerThresholdKeepsFail ==
    ASSUME NEW g \in Guards, NEW text, NEW r \in Replies, g.detector = "safety", g.config # None,
           Safety(g.config, text, r).verdict = "FAIL",
           NEW c, NEW t \in 0 .. ThresholdOf(g.config, c)
    PROVE  Safety(Lowered(g.config, c, t), text, r).verdict = "FAIL"
<1> DEFINE config == g.config
           thresholds == [d \in DOMAIN config.thresholds \cup {c} |->
                            IF d = c THEN t ELSE config.thresholds[d]]
           lowered == Lowered(config, c, t)
           rubric == Rubrics[config.rubric]
           result == Evaluate(rubric, {"text", "direction", "role_label"}, r)
           read == Reading(rubric, result)
           fails(cfg) == {d \in DOMAIN read.categories : read.categories[d] >= ThresholdOf(cfg, d)}
<1>1. lowered.rubric = config.rubric /\ lowered.thresholds = thresholds
  BY ConfigAssumption DEF Lowered
<1> HIDE DEF lowered, thresholds
<1>2. \A d : /\ ThresholdOf(config, d) \in Nat
             /\ ThresholdOf(lowered, d) \in Nat
             /\ ThresholdOf(lowered, d) <= ThresholdOf(config, d)
  <2> SUFFICES ASSUME NEW d
               PROVE  /\ ThresholdOf(config, d) \in Nat /\ ThresholdOf(lowered, d) \in Nat
                      /\ ThresholdOf(lowered, d) <= ThresholdOf(config, d)
    OBVIOUS
  <2>1. ThresholdOf(config, d) \in Nat /\ ThresholdOf(config, c) \in Nat
    BY ConfigAssumption DEF ThresholdOf
  <2>2. ThresholdOf(lowered, d) = IF d = c THEN t ELSE ThresholdOf(config, d)
    BY <1>1 DEF ThresholdOf, thresholds
  <2>3. t \in Nat /\ t <= ThresholdOf(config, c)
    BY <2>1
  <2> QED BY <2>1, <2>2, <2>3
<1>3. config.rubric \in DOMAIN Rubrics
  BY NoneAssumption DEF Safety, Crash, Verdicts
<1>4. ASSUME text.hard PROVE Safety(lowered, text, r).verdict = "FAIL"
  BY <1>1, <1>3, <1>4 DEF Safety, Says
<1>5. ASSUME ~text.hard PROVE Safety(lowered, text, r).verdict = "FAIL"
  <2>1. result # Raised
    BY <1>3, <1>5 DEF Safety, Says
  <2>2. ~(rubric.format = "json_object" /\ result.kind = "misshapen")
    BY <1>3, <1>5, <2>1, NoneAssumption DEF Safety, Crash, Verdicts
  <2>3. Safety(config, text, r).verdict =
          IF fails(config) # {} THEN "FAIL" ELSE IF read.verdict \in Verdicts THEN read.verdict ELSE "PASS"
    BY <1>3, <1>5, <2>1, <2>2 DEF Safety, Says
  <2>4. Safety(lowered, text, r).verdict =
          IF fails(lowered) # {} THEN "FAIL" ELSE IF read.verdict \in Verdicts THEN read.verdict ELSE "PASS"
    BY <1>1, <1>3, <1>5, <2>1, <2>2 DEF Safety, Says
  <2>5. \A d \in DOMAIN read.categories : read.categories[d] \in Nat
    BY <2>1, ReadingTyped
  <2>6. fails(config) \subseteq fails(lowered)
    <3> HIDE DEF read, lowered, config
    <3> SUFFICES ASSUME NEW d \in DOMAIN read.categories,
                        read.categories[d] >= ThresholdOf(config, d)
                 PROVE  read.categories[d] >= ThresholdOf(lowered, d)
      OBVIOUS
    <3>1. read.categories[d] \in Nat /\ ThresholdOf(config, d) \in Nat
            /\ ThresholdOf(lowered, d) \in Nat /\ ThresholdOf(lowered, d) <= ThresholdOf(config, d)
      BY <1>2, <2>5
    <3> QED BY <3>1
  <2> HIDE DEF fails, read, lowered, config
  <2>7. fails(config) # {} \/ read.verdict = "FAIL"
    BY <2>3 DEF config
  <2> QED BY <2>4, <2>6, <2>7 DEF Verdicts
<1>6. Safety(lowered, text, r).verdict = "FAIL"
  BY <1>4, <1>5
<1> QED BY <1>6 DEF lowered

\* The score of a claim is a number; a claim that got no answer is unsupported.
LEMMA ScoreTyped ==
    ASSUME NEW rubric, NEW r \in Replies
    PROVE  /\ Score(rubric, r).score \in Nat
           /\ r.kind = "none" => ~Score(rubric, r).supported
<1> DEFINE result == Evaluate(rubric, {"context", "claim"}, r)
<1>1. result = Raised \/ result = r \/ result = [kind |-> "unparsed"]
  BY DEF Evaluate
<1>2. Score(rubric, r).score \in Nat
  BY <1>1, RepliesAssumption DEF Score, Raised
<1>3. r.kind = "none" => ~Score(rubric, r).supported
  BY DEF Score, Evaluate, Raised
<1> QED BY <1>2, <1>3

\* One claim more does not make an ungrounded answer pass, however many there are, nor does
\* one that got no answer.
THEOREM MoreClaimsKeepFail ==
    ASSUME NEW g \in Guards, NEW rs \in SUBSET Replies, NEW r \in Replies,
           g.detector = "nli", g.config # None, g.config.rubric \in DOMAIN Rubrics
    PROVE  /\ Nli(g.config, TRUE, rs).verdict = "FAIL" =>
                Nli(g.config, TRUE, rs \cup {r}).verdict = "FAIL"
           /\ r.kind = "none" => Nli(g.config, TRUE, rs \cup {r}).verdict # "PASS"
<1> DEFINE rubric == Rubrics[g.config.rubric]
           scored(q) == {Score(rubric, p) : p \in q}
           weak(q) == (\E s \in scored(q) : ~s.supported) \/ Weakest(scored(q)) < g.config.threshold
<1>1. \A q \in SUBSET Replies : q # {} =>
         Nli(g.config, TRUE, q).verdict = IF weak(q) THEN "FAIL" ELSE "PASS"
  BY DEF Nli, Says
<1>2. \A q \in SUBSET Replies : q # {} =>
         /\ Weakest(scored(q)) \in Nat
         /\ \A s \in scored(q) : Weakest(scored(q)) <= s.score
         /\ \E s \in scored(q) : Weakest(scored(q)) = s.score
  <2> SUFFICES ASSUME NEW q \in SUBSET Replies, q # {}
               PROVE  /\ Weakest(scored(q)) \in Nat
                      /\ \A s \in scored(q) : Weakest(scored(q)) <= s.score
                      /\ \E s \in scored(q) : Weakest(scored(q)) = s.score
    OBVIOUS
  <2> DEFINE T == {s.score : s \in scored(q)}
  <2>1. T \in SUBSET Nat /\ T # {}
    BY ScoreTyped
  <2>2. Weakest(scored(q)) = Min(T)
    BY DEF Weakest
  <2>3. Min(T) \in T /\ \A y \in T : Min(T) <= y
    <3> HIDE DEF T
    <3> QED BY <2>1, MinOfNaturals
  <2> QED BY <2>1, <2>2, <2>3
<1>3. g.config.threshold \in Nat
  BY ConfigAssumption
<1>4. scored(rs) \subseteq scored(rs \cup {r}) /\ rs \cup {r} # {} /\ rs \cup {r} \in SUBSET Replies
  OBVIOUS
<1>5. rs # {} /\ weak(rs) => weak(rs \cup {r})
  <2> SUFFICES ASSUME rs # {}, Weakest(scored(rs)) < g.config.threshold
               PROVE  Weakest(scored(rs \cup {r})) < g.config.threshold
    BY <1>4
  <2> HIDE DEF scored
  <2>1. PICK s \in scored(rs) : Weakest(scored(rs)) = s.score
    BY <1>2
  <2>2. Weakest(scored(rs \cup {r})) <= s.score
    BY <1>2, <1>4
  <2>3. Weakest(scored(rs)) \in Nat /\ Weakest(scored(rs \cup {r})) \in Nat
    BY <1>2, <1>4
  <2> QED BY <1>3, <2>1, <2>2, <2>3
<1>6. r.kind = "none" => weak(rs \cup {r})
  BY ScoreTyped
<1>7. Nli(g.config, TRUE, {}).verdict # "FAIL"
  BY DEF Nli, Says
<1> HIDE DEF weak, scored
<1> QED BY <1>1, <1>4, <1>5, <1>6, <1>7

\* For all guards, texts and answers of a provider, whatever rubrics and providers are
\* configured: stricter thresholds and further claims never pass what failed, and no
\* failed judge passes anything.
THEOREM StricterIsStricter == Spec => []StricterNeverPasses
<1>1. ASSUME NEW g \in Guards, NEW text \in Texts, NEW r \in Replies,
             g.detector = "safety", g.config # None, JudgeFailed(g, text, r)
      PROVE  Safety(g.config, text, r).verdict # "PASS"
  BY <1>1 DEF JudgeFailed, Safety, Says
<1>2. ASSUME NEW g \in Guards, NEW text \in Texts, NEW r \in Replies,
             g.detector = "safety", g.config # None,
             Safety(g.config, text, r).verdict = "FAIL", NEW c,
             NEW t \in {100 * k : k \in 0 .. ThresholdOf(g.config, c) \div 100}
      PROVE  Safety(Lowered(g.config, c, t), text, r).verdict = "FAIL"
  <2>1. ThresholdOf(g.config, c) \in Nat
    BY <1>2, ConfigAssumption DEF ThresholdOf
  <2>2. t \in 0 .. ThresholdOf(g.config, c)
    BY <2>1
  <2> QED BY <1>2, <2>2, LowerThresholdKeepsFail
<1>3. ASSUME NEW g \in Guards, NEW text \in Texts, NEW r \in Replies
      PROVE  g.detector = "safety" /\ g.config # None =>
               /\ JudgeFailed(g, text, r) => Safety(g.config, text, r).verdict # "PASS"
               /\ Safety(g.config, text, r).verdict = "FAIL" =>
                    \A c : \A t \in {100 * k : k \in 0 .. ThresholdOf(g.config, c) \div 100} :
                       Safety(Lowered(g.config, c, t), text, r).verdict = "FAIL"
  BY <1>1, <1>2
<1>4. ASSUME NEW g \in Guards, NEW s \in Replies, NEW r \in Replies
      PROVE  g.detector = "nli" /\ g.config # None /\ g.config.rubric \in DOMAIN Rubrics =>
               /\ Nli(g.config, TRUE, {s}).verdict = "FAIL" =>
                    Nli(g.config, TRUE, {s, r}).verdict = "FAIL"
               /\ r.kind = "none" => Nli(g.config, TRUE, {s, r}).verdict # "PASS"
  <2>1. {s} \in SUBSET Replies /\ {s} \cup {r} = {s, r}
    OBVIOUS
  <2> QED BY <2>1, MoreClaimsKeepFail
<1>5. StricterNeverPasses
  BY <1>3, <1>4 DEF StricterNeverPasses, MyGuards
<1> QED BY <1>5, PTL
=============================================================================
