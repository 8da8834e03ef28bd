---------------------------- MODULE EvidenceLog ----------------------------
(***************************************************************************)
(* What the evidence store promises its producers and its auditors: one    *)
(* append-only log per (tenant, app), in which an event appears at most    *)
(* once, in the log of its own (tenant, app).  How batches, retries, locks *)
(* and transactions achieve that is the business of the modules that       *)
(* implement this one (EvidenceIngest, EvidenceDelivery).                  *)
(***************************************************************************)
EXTENDS Naturals, Sequences, SequencesExt

CONSTANTS
    Events,     \* the events the gateways emit
    Chains,     \* the (tenant, app) pairs
    ChainOf     \* the (tenant, app) an event belongs to

VARIABLE log    \* log[c]: the recorded events of chain c, oldest first

EventsIn(s) == {s[i] : i \in DOMAIN s}

Recorded == UNION {EventsIn(log[c]) : c \in Chains}

Init == log = [c \in Chains |-> <<>>]

\* One accepted batch: events not recorded before are appended, each once,
\* to the log of their own chain; nothing already in a log moves.
Record ==
    /\ DOMAIN log' = Chains
    /\ \A c \in Chains :
          /\ IsPrefix(log[c], log'[c])
          /\ \A i \in DOMAIN log'[c] : log'[c][i] \in Events /\ ChainOf[log'[c][i]] = c
          /\ \A i, j \in DOMAIN log'[c] : log'[c][i] = log'[c][j] => i = j

Spec == Init /\ [][Record]_log
=============================================================================
