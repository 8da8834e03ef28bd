---------------------------- MODULE MCRequestPath ----------------------------
(***************************************************************************)
(* Two bundles, installed while a request is on its way.  Characters are   *)
(* named for their place: a, b and c in the input, x and y in the output;  *)
(* w is encoded in two bytes.                                              *)
(***************************************************************************)
EXTENDS RequestPath

CONSTANT r1

MCRequests == {r1}

G(detector, dirs, onFail, failMode, shadow) ==
    [detector |-> detector, dirs |-> dirs, onFail |-> onFail, failMode |-> failMode,
     shadow |-> shadow, escalation |-> "none", evidence |-> "spans"]

Both == {"input", "output"}

Pii == G("pii", Both, "redact", "", FALSE)
Account == [G("secrets", {"input"}, "mask", "closed", FALSE) EXCEPT !.evidence = "none"]
Secrets == G("secrets", Both, "block", "open", FALSE)
Trial == G("pii", {"input"}, "redact", "", TRUE)
Judged == [G("safety", {"output"}, "block_and_explain", "", FALSE) EXCEPT !.escalation = "judge"]
Missing == G("nli", {"output"}, "block", "", TRUE)

P(failMode, guards) == [failMode |-> failMode, guards |-> guards]

MCBundles ==
    << <<P("closed", <<Pii, Trial>>), P("", <<Secrets, Missing>>)>>,
       <<P("open", <<Pii, Account>>), P("open", <<Judged>>)>> >>

MCOffsetsBundles == << <<P("closed", <<Pii>>)>> >>

MCRegistered == {"pii", "secrets", "safety", "judge"}

MCCharDetectors == {"pii"}

Plain(c) == <<c, 1>>

Input(kind, dir, stream, msgs) == [kind |-> kind, dir |-> dir, stream |-> stream, msgs |-> msgs]

MCInputs ==
    {Input("proxy", "input", FALSE, <<<<Plain("a"), Plain("b"), Plain("c")>>>>),
     Input("proxy", "input", FALSE, <<<<Plain("a")>>, <<Plain("b")>>>>),
     Input("proxy", "input", TRUE, <<>>),
     Input("check", "output", FALSE, <<<<Plain("a"), Plain("b")>>>>)}

MCWideInputs ==
    {Input("proxy", "input", FALSE, <<<<Plain("w"), <<"w", 2>>, Plain("b")>>>>)}

MCOutputs ==
    {[result |-> "unreachable", msgs |-> <<>>], [result |-> "other", msgs |-> <<>>],
     [result |-> "completion", msgs |-> <<<<Plain("x"), Plain("y")>>>>]}

Span(start, end) == [start |-> start, end |-> end]

MCFindings == {{Span(0, 2)}, {Span(1, 3)}, {Span(0, 1)}}
MCOneFinding == {{Span(1, 2)}}
=============================================================================
