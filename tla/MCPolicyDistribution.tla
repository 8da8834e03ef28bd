------------------------ MODULE MCPolicyDistribution ------------------------
(***************************************************************************)
(* Two versions of one policy: v1 goes through the workflow and may be     *)
(* revoked, v2 is proposed by a feed.  One handler of the registry and two *)
(* build requests run at a time.                                           *)
(***************************************************************************)
EXTENDS PolicyDistribution, TLC

CONSTANTS v1, v2, w1, b1, b2

MCVersions == {v1, v2}
MCPolicyOf == (v1 :> "p") @@ (v2 :> "p")
MCPrincipals == {"root"}
MCSubjectOf == "root" :> "root"
MCRoleOf == "root" :> "admin"
MCProposals == {<<"feed", "monotonic_add">>}
MCRequests ==
    ({"create", "submit", "approve", "revoke"} \X {v1}) \cup ({"propose"} \X {v2})
MCWorkers == {w1}
MCUnregistered == {v1}
MCBuilders == {b1, b2}
=============================================================================
