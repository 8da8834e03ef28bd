--------------------------- MODULE DetectorServices ---------------------------
(***************************************************************************)
(* What the detector services answer: the PII detector, the safety         *)
(* detector with its layer 1 and its judge, the groundedness (NLI)         *)
(* detector, and the judge library they share.                             *)
(*                                                                         *)
(* A text is what the detectors find in it: [pii, hard] (hard: a layer 1   *)
(* signal).  Scores and thresholds are in thousandths.  What a provider    *)
(* answers the judge is one of                                             *)
(*   [kind |-> "none"]      an error, an HTTP error status, or too late    *)
(*   [kind |-> "blank"]     nothing                                        *)
(*   [kind |-> "prose"]     text that starts neither "safe" nor as JSON    *)
(*   [kind |-> "safe"]      text that starts with "safe"                   *)
(*   [kind |-> "unsafe", categories |-> the names on its second line]      *)
(*   [kind |-> "object", verdict, categories, supported, score]            *)
(*   [kind |-> "misshapen"] other JSON, or with other fields than promised *)
(***************************************************************************)
EXTENDS Naturals, FiniteSets, FiniteSetsExt

CONSTANTS
    Rubrics,        \* Rubrics[r]: [format, provider, model, needs], None where it names none
    Providers,      \* Providers[p]: the default model of a configured provider, or None
    DefaultProvider,
    EntityPacks,    \* the packs of PII entities on disk
    None

Verdicts == {"PASS", "FAIL", "ERROR", "NEEDS_ESCALATION"}

ASSUME NoneAssumption == None \notin Verdicts

-----------------------------------------------------------------------------
(* The judge library.                                                       *)

Raised == [kind |-> "raised"]

OrElse(value, default) == IF value = None THEN default ELSE value

\* Judge.evaluate and complete: a template variable nobody gives, a provider that is not
\* registered, no model, or no answer raise; under the json_object format an answer that
\* is no JSON is parsed as None, and under others it is left raw.
Evaluate(rubric, vars, reply) ==
    LET provider == OrElse(rubric.provider, DefaultProvider)
    IN  IF \/ ~ rubric.needs \subseteq vars \cup {"categories"}
           \/ provider \notin DOMAIN Providers
           \/ OrElse(rubric.model, Providers[provider]) = None
           \/ reply.kind = "none"
        THEN Raised
        ELSE IF rubric.format = "json_object" /\ reply.kind \notin {"object", "misshapen"}
        THEN [kind |-> "unparsed"] ELSE reply

-----------------------------------------------------------------------------
(* The services.  An answer is [status, verdict]; a request without a config *)
(* dictionary is refused by the request model (422).                         *)

Says(verdict) == [status |-> 200, verdict |-> verdict]

Crash == [status |-> 500, verdict |-> None]

Unprocessable == [status |-> 422, verdict |-> None]

\* An unknown entity pack raises.
Pii(config, text) ==
    IF config.pack \notin EntityPacks THEN Crash
    ELSE Says(IF text.pii THEN "FAIL" ELSE "PASS")

\* _parse_llamaguard: whatever is neither blank nor "safe..." is unsafe.
LlamaGuard(reply) ==
    IF reply.kind \in {"blank", "safe"} THEN [verdict |-> "PASS", categories |-> [c \in {} |-> 0]]
    ELSE [verdict |-> "FAIL",
          categories |-> [c \in IF reply.kind = "unsafe" THEN reply.categories ELSE {} |-> 1000]]

\* What the safety service reads in the judge's result; nothing parsed is an empty object.
Reading(rubric, result) ==
    IF rubric.format = "llamaguard" THEN LlamaGuard(result)
    ELSE IF rubric.format = "json_object" /\ result.kind = "object"
    THEN [verdict |-> result.verdict, categories |-> result.categories]
    ELSE [verdict |-> "PASS", categories |-> [c \in {} |-> 0]]

ThresholdOf(config, c) == IF c \in DOMAIN config.thresholds THEN config.thresholds[c] ELSE 500

Safety(config, text, reply) ==
    IF config.rubric \notin DOMAIN Rubrics THEN Crash
    ELSE IF text.hard THEN Says("FAIL")
    ELSE LET rubric == Rubrics[config.rubric]
             result == Evaluate(rubric, {"text", "direction", "role_label"}, reply)
         IN  IF result = Raised THEN Says("ERROR")
             ELSE IF rubric.format = "json_object" /\ result.kind = "misshapen" THEN Crash
             ELSE LET read == Reading(rubric, result)
                      fails == {c \in DOMAIN read.categories :
                                   read.categories[c] >= ThresholdOf(config, c)}
                  IN  Says(IF fails # {} THEN "FAIL"
                           ELSE IF read.verdict \in Verdicts THEN read.verdict ELSE "PASS")

\* _score: a claim whose judgement fails in any way is unsupported.
Score(rubric, reply) ==
    LET result == Evaluate(rubric, {"context", "claim"}, reply)
    IN  IF result.kind = "object" THEN [supported |-> result.supported, score |-> result.score]
        ELSE [supported |-> FALSE, score |-> 0]

\* Mutant of Weakest: the strongest claim stands for the answer.
WeakestIsStrongest(scored) == Max({s.score : s \in scored})

Weakest(scored) == Min({s.score : s \in scored})

\* The groundedness check: replies are what the provider says of the claims.
Nli(config, context, replies) ==
    IF config.rubric \notin DOMAIN Rubrics THEN Crash
    ELSE IF ~context THEN Says(IF config.requires_context THEN "NEEDS_ESCALATION" ELSE "PASS")
    ELSE IF replies = {} THEN Says("PASS")
    ELSE LET scored == {Score(Rubrics[config.rubric], r) : r \in replies}
         IN  Says(IF (\E s \in scored : ~s.supported) \/ Weakest(scored) < config.threshold
                  THEN "FAIL" ELSE "PASS")

\* What the service of a detector answers the gateway, which sends the guard's config (null
\* if the guard has none) and never a context.
Answer(guard, text, reply) ==
    IF guard.config = None THEN Unprocessable
    ELSE IF guard.detector = "pii" THEN Pii(guard.config, text)
    ELSE IF guard.detector = "safety" THEN Safety(guard.config, text, reply)
    ELSE Nli(guard.config, FALSE, {})

\* The judge was asked about a text and gave no answer.
JudgeFailed(guard, text, reply) ==
    /\ guard.config # None /\ guard.detector = "safety" /\ ~text.hard
    /\ guard.config.rubric \in DOMAIN Rubrics
    /\ Evaluate(Rubrics[guard.config.rubric], {"text", "direction", "role_label"}, reply) = Raised
=============================================================================
