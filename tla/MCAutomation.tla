---------------------------- MODULE MCAutomation ----------------------------
(***************************************************************************)
(* Two profiles above the baseline, one of them two levels up, over a file *)
(* whose metadata repeat the baseline's; app layers that override, add and *)
(* remove guards; a source that changes a regular expression and repeats   *)
(* an id; feedback that calls for a higher threshold; extractions that     *)
(* fit, do not fit and cannot be ranked.                                   *)
(***************************************************************************)
EXTENDS Automation

CONSTANTS none, f1, f2

Spec0 == [apps |-> {"app"}, environments |-> {"dev"}, fail_mode |-> "closed", timeout_ms |-> 12000]

Guard(id, scenario, on_fail) ==
    [id |-> id, scenario |-> scenario, detector |-> scenario, direction |-> {"output"},
     on_fail |-> on_fail]

SecretsGuard == Guard(<<"gs">>, "secrets", "block")
PiiGuard == [threshold |-> 750] @@ Guard(<<"gp">>, "pii", "flag")

Pack(key, parent, spec, guards) ==
    [key |-> key, parent |-> parent, doc |-> [meta |-> {"id", "version", "labels"}
                                   \cup (IF parent = none THEN {} ELSE {"parent"}),
                                 spec |-> spec, guards |-> guards]]

MCPacks ==
    [baseline |-> Pack("baseline", none, Spec0, <<SecretsGuard, PiiGuard>>),
     finance |-> Pack("finance", "copied", [environments |-> {"prod"}],
                      <<[id |-> <<"gp">>, threshold |-> 700, evidence |-> "spans"],
                        Guard(<<"gh">>, "hallucination", "flag")>>),
     bank |-> Pack("bank", "finance", [timeout_ms |-> 400],
                   <<[id |-> <<"gp">>, threshold |-> 800],
                     [id |-> <<"gh">>, on_fail |-> "block"],
                     [id |-> <<"gs">>, on_fail |-> "redact"]>>),
     copied |-> Pack("baseline", "baseline", Spec0, <<PiiGuard>>),
     loop |-> Pack("loop", "loop", Spec0, <<>>),
     orphan |-> Pack("orphan", "gone", Spec0, <<>>)]

App(guards) == [meta |-> {"id", "version"}, spec |-> [apps |-> {"app"}], guards |-> guards]

Rule(id, regex) == [id |-> id, regex |-> regex]

\* Layers that change and remove guards of the profile and bring a rule of their own,
\* remove and add the same guard, repeat an id, and that the linter refuses.
Tailored == App(<<[id |-> <<"gs">>, rules |-> <<Rule("r1", "x")>>],
                  [id |-> <<"gp">>, threshold |-> 750, on_fail |-> "redact"],
                  [id |-> <<"gh">>, __remove__ |-> TRUE]>>)
Repeated == App(<<[id |-> <<"gp">>, threshold |-> 900], Guard(<<"gn">>, "pii", "flag"),
                  Guard(<<"gn">>, "pii", "mask"), [id |-> <<"gp">>, evidence |-> "spans"]>>)
LiveInProd == App(<<[id |-> <<"gs">>, verify_live |-> TRUE]>>)
Emptied == App(<<[id |-> <<"gs">>, __remove__ |-> TRUE], [id |-> <<"gp">>, evidence |-> "spans"],
                 [id |-> <<"gp">>, __remove__ |-> TRUE]>>)

MCInputs == {"baseline", "finance", "bank", "loop", "orphan"}
              \X {none, Tailored, Repeated, LiveInProd, Emptied}
MCTwoDrafts == {<<"bank", none>>, <<"bank", Tailored>>}
MCDrafted == {<<"bank", Tailored>>, <<"bank", LiveInProd>>, <<"baseline", Emptied>>,
              <<"loop", none>>, <<"orphan", none>>}

MCRulesets == {<<Rule("r3", "x"), Rule("r3", "z"), Rule(none, "x")>>,
               <<Rule("r1", "y"), Rule("r2", "x")>>}

Labelled(disposition, score) ==
    [guard |-> <<"gp">>, score |-> score, disposition |-> disposition, n |-> 20]

\* Nothing; what calls for a higher threshold; what no threshold in reach improves on.
MCEvidences ==
    {{}, {Labelled("true_positive", 30800), Labelled("false_positive", 30400)},
     {Labelled("true_positive", 29600), Labelled("false_positive", 30400),
      Labelled("true_negative", 29800)}}
\* Scores of 0.7689 and 0.768: the grid has 0.76875 between them.
MCClose == {{Labelled("true_positive", 30756), Labelled("false_positive", 30720)}}

Candidate(scenario, on_fail, severity, anchor) ==
    [scenario |-> scenario, direction |-> {"output"}, on_fail |-> on_fail,
     severity |-> severity, anchor |-> anchor]

MCExtractions ==
    {<<Candidate("pii", "flag", "low", 1), Candidate("secrets", "block", "high", 2),
       Candidate("pii", "redact", "high", 2), Candidate("secrets", "flag", "urgent", 4),
       [Candidate("pii", "mask", "medium", 5) EXCEPT !.direction = {"input", "output"}],
       Candidate(none, "flag", "low", 6)>>,
     <<Candidate("pii", "quarantine", "low", 1)>>,
     <<Candidate("pii", "flag", "urgent", 1)>>}

MCVersions == {<<0, 0>>, <<1, 0>>, <<1, 1>>, <<1, 2>>}
MCReviewed == MCVersions \ {<<0, 0>>}
MCTwoReleases == {<<1, 0>>, <<1, 1>>, <<1, 2>>, <<2, 0>>}
MCFeeds == {f1}
=============================================================================
