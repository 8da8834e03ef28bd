--------------------------- MODULE MCEvidenceAudit ---------------------------
(***************************************************************************)
(* EvidenceAudit with binary fractions of two digits, one of which is      *)
(* stored: 2 reads back as it was hashed and 1 loses its last digit.       *)
(* Content y is one of those that the verify_chain tool encodes            *)
(* differently.                                                            *)
(***************************************************************************)
EXTENDS EvidenceAudit, TLC

CONSTANTS x, y, s1, s2

MCContents == {x, y}
MCEscaped == {y}
MCSigners == {s1, s2}
MCStamps == {1, 2}

\* Once something is damaged, only ingestion and the walks matter: what the
\* signers and the export do then is not gone into.
Relevant ==
    \/ damage = 0
    \/ (\A s \in MCSigners : signer[s] = Idle) /\ export = NoExport

Symmetric == Permutations(MCSigners)
=============================================================================
