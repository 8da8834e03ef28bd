-------------------------- MODULE MCEvidenceIngest --------------------------
(***************************************************************************)
(* EvidenceIngest on two chains: chain ca has two events, the younger of   *)
(* which the gateway may list first, chain cb has one.                     *)
(***************************************************************************)
EXTENDS EvidenceIngest, TLC

CONSTANTS r1, r2, r3, ca, cb, a1, a2, b1

MCRequests == {r1, r2, r3}
MCEvents == {a1, a2, b1}
MCChains == {ca, cb}
MCChainOf == (a1 :> ca) @@ (a2 :> ca) @@ (b1 :> cb)
MCTs == (a1 :> 2) @@ (a2 :> 1) @@ (b1 :> 1)
=============================================================================
