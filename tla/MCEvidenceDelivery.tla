------------------------- MODULE MCEvidenceDelivery -------------------------
(***************************************************************************)
(* EvidenceDelivery with a queue of one event, so that Emit overflows into *)
(* the spool, and two events, which fit into one batch.                    *)
(***************************************************************************)
EXTENDS EvidenceDelivery

CONSTANTS e1, e2

MCEvents == {e1, e2}
=============================================================================
