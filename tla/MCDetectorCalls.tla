--------------------------- MODULE MCDetectorCalls ---------------------------
(***************************************************************************)
(* Two concurrent callers of one of the three services, a circuit that   *)
(* opens after two failures for two ticks, guards of both fail modes and   *)
(* guards that no service can answer.                                      *)
(***************************************************************************)
EXTENDS DetectorCalls

CONSTANTS c1, c2, none

MCCalls == {c1, c2}
MCFailThreshold == 2
MCOpenWindow == 2
MCEntityPacks == {"financial"}

Rubric(format, provider, model, needs) ==
    [format |-> format, provider |-> provider, model |-> model, needs |-> needs]

MCProviders == [together |-> "llama", bare |-> none]
MCRubrics ==
    [guard |-> Rubric("llamaguard", none, "llama-guard", {"text", "role_label"}),
     json |-> Rubric("json_object", "together", none, {"text", "direction", "categories"}),
     ground |-> Rubric("json_object", none, "llama", {"context", "claim"}),
     unregistered |-> Rubric("json_object", "gone", "llama", {"text"}),
     modelless |-> Rubric("json_object", "bare", none, {"text"})]

SafetyConfig(rubric) == [rubric |-> rubric, thresholds |-> [S1 |-> 900]]
NliConfig(requires) == [rubric |-> "ground", requires_context |-> requires, threshold |-> 500]

Guard(d, config, mode) == [detector |-> d, config |-> config, mode |-> mode]

MCGuards ==
    {Guard("pii", [pack |-> "financial"], "closed"), Guard("pii", [pack |-> "gone"], "open"),
     Guard("pii", none, "open"),
     Guard("safety", SafetyConfig("guard"), "open"), Guard("safety", SafetyConfig("json"), "closed"),
     Guard("safety", SafetyConfig("modelless"), "open"),
     Guard("safety", SafetyConfig("unregistered"), "closed"),
     Guard("nli", NliConfig(TRUE), "closed"), Guard("nli", NliConfig(FALSE), "open")}

MCTexts == {[pii |-> TRUE, hard |-> FALSE], [pii |-> FALSE, hard |-> TRUE],
            [pii |-> FALSE, hard |-> FALSE]}

Object(verdict, s1, s2, supported, score) ==
    [kind |-> "object", verdict |-> verdict, categories |-> [S1 |-> s1, S2 |-> s2],
     supported |-> supported, score |-> score]

MCReplies ==
    {[kind |-> k] : k \in {"none", "blank", "prose", "safe", "misshapen"}}
      \cup {[kind |-> "unsafe", categories |-> {"S1"}],
            Object("PASS", 600, 100, TRUE, 900), Object("PASS", 950, 500, TRUE, 300),
            Object("FAIL", 600, 600, FALSE, 700), Object("maybe", 0, 0, TRUE, 600)}
=============================================================================
