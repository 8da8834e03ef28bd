-------------------------- MODULE MCPolicyLifecycle --------------------------
(***************************************************************************)
(* One policy version and two handlers at a time.  Ann is author           *)
(* and, in another role, approver; Bob is an approver, root an admin, and  *)
(* the feed ingestor a service.                                            *)
(***************************************************************************)
EXTENDS PolicyLifecycle, TLC

CONSTANTS v1, v2, w1, w2

MCOneVersion == {v1}
MCPolicyOf == (v1 :> "p") @@ (v2 :> "p")
MCPrincipals == {"annAuthor", "annApprover", "bob", "root", "svc"}
MCSubjectOf ==
    ("annAuthor" :> "ann") @@ ("annApprover" :> "ann") @@ ("bob" :> "bob") @@
    ("root" :> "root") @@ ("svc" :> "svc")
MCRoleOf ==
    ("annAuthor" :> "author") @@ ("annApprover" :> "approver") @@ ("bob" :> "approver") @@
    ("root" :> "admin") @@ ("svc" :> "service")
MCProposals == {<<"feed", "monotonic_add">>, <<"feed", "other">>, <<"synthesizer", "monotonic_add">>}
MCRequests == Operations \X MCOneVersion
MCWorkers == {w1, w2}

Threads == Permutations(MCWorkers)
=============================================================================
