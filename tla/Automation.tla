------------------------------ MODULE Automation ------------------------------
(***************************************************************************)
(* The automation plane and the registry it writes to, for one policy:     *)
(* people who compile, draft and review versions; the gitleaks feed and    *)
(* the auto-tuner, which read the versions, compute and propose a patch    *)
(* version in separate requests; and the synthesizer.                      *)
(*                                                                         *)
(* A request to the registry is one step here; PolicyLifecycle shows what  *)
(* their interleaved transactions do.  Version <<0, p>> stands for 0.1.p   *)
(* and <<m, p>> for the m-th release that people number, patch p.          *)
(***************************************************************************)
EXTENDS PolicyDocuments, FiniteSetsExt, Integers

CONSTANTS
    Inputs,     \* what people compile: pairs of a profile and an app layer
    Drafted,    \* bound: the inputs whose result they post as a draft
    Rulesets,   \* the rule lists the gitleaks source may hold
    Evidences,  \* what events and feedback may say: sets of labelled score counts
    Extractions,\* what the judge may extract from a text: sequences of candidates
    Feeds,      \* the feed tasks that maintain this policy
    Versions,   \* bound: the versions that may be created, as pairs <<m, p>>
    Reviewed    \* bound: the versions that people review

ASSUME AutomationAssumption ==
    Versions \subseteq Nat \X Nat /\ Reviewed \subseteq Versions /\ Drafted \subseteq Inputs

VARIABLES
    rows,       \* the versions in the registry and their rows
    created,    \* the versions by created_at
    approvals,  \* the versions by approved_at
    source,     \* the rule list the source holds now
    feed,       \* feed[f]: what feed task f has loaded and read
    tuner       \* what the auto-tuner has read

registry == <<rows, created, approvals>>

vars == <<rows, created, approvals, source, feed, tuner>>

-----------------------------------------------------------------------------
(* The registry.                                                            *)

\* The versions that people number.
Releases == {v \in Versions : v[1] > 0 /\ v[2] = 0}

Origins == {"manual", "feed", "autotuner", "synthesizer"}

Statuses == {"draft", "in_review", "approved", "revoked"}

Approved == {v \in DOMAIN rows : rows[v].status = "approved"}

\* The last of a sequence of versions that is approved now.
LastApproved(versions) ==
    IF Approved = {} THEN None
    ELSE versions[CHOOSE i \in DOMAIN versions :
                    versions[i] \in Approved
                      /\ \A j \in DOMAIN versions : versions[j] \in Approved => j <= i]

\* What jobs extend: list_versions sorts by created_at, newest first, and they take
\* the first approved one.
Base == LastApproved(created)

\* What a bundle contains: the builder takes the greatest approved_at.
InForce == LastApproved(approvals)

\* _AUTO_APPROVAL_RULES
AutoApproves(origin, class) == origin = "feed" /\ class = "monotonic_add"

ApprovalKeys == {"approved_by", "approved_at", "auto_approval_rule"}

\* A document with other metadata.
WithMeta(doc, meta) == [meta |-> meta, spec |-> doc.spec, guards |-> doc.guards]

\* create_policy and submit_proposal: the linter (422), the version's row (409),
\* _insert_policy's stamps, and rule AA-1.
Submit(v, doc, origin, class, parent, ref) ==
    IF v \in DOMAIN rows \/ ~Accepted(doc) THEN UNCHANGED registry
    ELSE LET auto == AutoApproves(origin, class)
             stamps == {"tenant", "status", "created_by", "origin"}
                         \cup (IF auto THEN ApprovalKeys ELSE {})
             row == [status |-> IF auto THEN "approved" ELSE "draft", auto |-> auto,
                     origin |-> origin, parent |-> parent, ref |-> ref,
                     doc |-> WithMeta(doc, doc.meta \cup stamps)]
         IN  /\ rows' = [w \in DOMAIN rows \cup {v} |-> IF w = v THEN row ELSE rows[w]]
             /\ created' = Append(created, v)
             /\ approvals' = IF auto THEN Append(approvals, v) ELSE approvals

Move(v, from, to) ==
    /\ rows[v].status = from
    /\ rows' = [rows EXCEPT ![v].status = to]
    /\ UNCHANGED <<created, source, feed, tuner>>

-----------------------------------------------------------------------------
(* The gitleaks feed.                                                       *)

RulesOf(guard) == IF "rules" \in DOMAIN guard THEN guard.rules ELSE <<>>

\* The offered rules whose id the guard does not have yet; rules without an id are skipped.
Fresh(guard, rules) ==
    LET skipped == Ids(RulesOf(guard)) \cup {None}
        fresh[n \in 0 .. Len(rules)] ==
            IF n = 0 THEN <<>>
            ELSE IF rules[n].id \in skipped THEN fresh[n - 1]
            ELSE Append(fresh[n - 1], rules[n])
    IN  fresh[Len(rules)]

\* Mutant of ExtendGuard: the offered rules take the place of the guard's.
ExtendGuardByReplacing(guard, rules) ==
    [f \in DOMAIN guard \cup {"rules"} |-> IF f = "rules" THEN rules ELSE guard[f]]

ExtendGuard(guard, rules) ==
    [f \in DOMAIN guard \cup {"rules"} |->
        IF f = "rules" THEN RulesOf(guard) \o Fresh(guard, rules) ELSE guard[f]]

\* Lists are lists: rules on offer, what the judge extracts, and what an app layer holds.
ASSUME ListsAssumption ==
    /\ \A rules \in Rulesets : rules \in Seq(ToSet(rules))
    /\ \A candidates \in Extractions : candidates \in Seq(ToSet(candidates))
    /\ \A input \in Inputs : input[2] = None \/ IsLayer(input[2])

IsSecrets(guard) == guard.scenario = "secrets"

\* The document with the offered rules added to every secrets guard.
Extend(doc, rules) ==
    [meta |-> doc.meta, spec |-> doc.spec,
     guards |-> [i \in DOMAIN doc.guards |->
        IF IsSecrets(doc.guards[i]) THEN ExtendGuard(doc.guards[i], rules) ELSE doc.guards[i]]]

OffersNew(doc, rules) ==
    \E i \in DOMAIN doc.guards : IsSecrets(doc.guards[i]) /\ Fresh(doc.guards[i], rules) # <<>>

\* A known id that comes with another regex makes the proposal a scope change.
ChangeClass(doc, rules) ==
    IF \E i \in DOMAIN doc.guards, k \in DOMAIN rules :
         LET old == RulesOf(doc.guards[i])
         IN  /\ IsSecrets(doc.guards[i])
             /\ rules[k].id \in Ids(old) \ {None}
             /\ LastWith(old, rules[k].id).regex # rules[k].regex
    THEN "scope_change" ELSE "monotonic_add"

\* Mutant of Reissued: the approval of the version it was cloned from stays in the metadata.
ReissuedAsIs(doc) == WithMeta(doc, doc.meta \cup {"parent_version", "origin"})

\* The metadata of a proposal cloned from an approved version.
Reissued(doc) ==
    WithMeta(doc, (doc.meta \cup {"parent_version", "origin"}) \ ApprovalKeys)

Bump(v) == <<v[1], v[2] + 1>>

-----------------------------------------------------------------------------
(* The auto-tuner.  Thresholds are in thousandths; scores, and what they    *)
(* are compared with, in 40ths of a thousandth: every threshold that is     *)
(* tried is a multiple of one, so a score rounded down to one compares with *)
(* it as the score does.                                                    *)

Violations == {"true_positive", "false_negative"}

\* What events and feedback join to is a finite list.
ASSUME EvidencesAssumption ==
    \A evidence \in Evidences :
        IsFiniteSet(evidence) /\ \A s \in evidence : s.n \in Nat /\ s.score \in Int

\* How many labelled scores a set of counts stands for.
Total(labelled) == Cardinality(UNION {{s} \X (1 .. s.n) : s \in labelled})

Positives(labelled) == {s \in labelled : s.disposition \in Violations}

Negatives(labelled) == labelled \ Positives(labelled)

\* The false alarms and the misses at a threshold.
FalseAlarms(labelled, t) == Total({s \in Negatives(labelled) : s.score >= t})

Misses(labelled, t) == Total({s \in Positives(labelled) : s.score < t})

\* Mutant of WilsonBelow: only the misses decide.
WilsonUnchecked(F, n, F0) == TRUE

\* The upper end of the 95% Wilson interval of F in n lies below F0 / n.
WilsonBelow(F, n, F0) ==
    F < F0 /\ 10000 * n * (F0 - F) * (F0 - F) > 38416 * F0 * (n - F0)

\* round(t, 3)
Nearest(t) == (t + 20) \div 40

\* The threshold recommended in place of the current one, or None.
Recommended(labelled, current) ==
    LET positives == Total(Positives(labelled))
        negatives == Total(Negatives(labelled))
        lo == Max({50, current - 200})
        hi == Min({990, current + 150})
        grid == {40 * lo + i * (hi - lo) : i \in 0 .. 40}
        before == FalseAlarms(labelled, 40 * current)
        good == {t \in grid : /\ WilsonBelow(FalseAlarms(labelled, t), negatives, before)
                              /\ 1000 * Misses(labelled, t) <= 5 * positives}
        fewest == {t \in good : \A u \in good :
                      FalseAlarms(labelled, t) <= FalseAlarms(labelled, u)}
    IN  IF positives + negatives < 20 \/ positives < 10 \/ negatives < 10 \/ good = {} THEN None
        ELSE LET t == Nearest(Min(fewest))
             IN  IF t - current \in -4 .. 4 THEN None ELSE t

\* The labelled scores of a guard: the join of events and feedback.
LabelledOf(evidence, id) == {s \in evidence : s.guard = id}

\* _current_thresholds: a dictionary by id, which keeps the last threshold of an id.
Thresholds(guards, id) == {i \in DOMAIN guards : guards[i].id = id /\ "threshold" \in DOMAIN guards[i]}

Current(guards, id) == LastOf(guards, Thresholds(guards, id)).threshold

Tuned(guards, id, evidence) ==
    IF Thresholds(guards, id) = {} THEN None
    ELSE Recommended(LabelledOf(evidence, id), Current(guards, id))

\* Every guard with the id gets what is recommended for it, if anything is.
Retune(doc, evidence) ==
    [meta |-> doc.meta, spec |-> doc.spec,
     guards |-> [i \in DOMAIN doc.guards |->
        LET guard == doc.guards[i]
            t == Tuned(doc.guards, guard.id, evidence)
        IN  IF t = None THEN guard
            ELSE [f \in DOMAIN guard \cup {"threshold"} |-> IF f = "threshold" THEN t ELSE guard[f]]]]

-----------------------------------------------------------------------------
(* The synthesizer.  A candidate is what the judge extracted as one rule:   *)
(* [scenario, direction, on_fail, severity, anchor].                        *)

\* Candidates without a scenario are returned for triage, those of a scenario that has
\* no template are dropped.
Mapped(candidates) == {c \in ToSet(candidates) : c.scenario \in Scenarios}

Key(c) == <<c.scenario, c.direction>>

SeverityTable == [low |-> 850, medium |-> 750, high |-> 650]

Rank(c) == IF c.severity = "low" THEN 0 ELSE IF c.severity = "high" THEN 2 ELSE 1

\* A candidate joins the group with its scenario and direction, or starts one.
Into(groups, c) ==
    IF \E k \in DOMAIN groups : Key(groups[k][1]) = Key(c)
    THEN [k \in DOMAIN groups |->
            IF Key(groups[k][1]) = Key(c) THEN Append(groups[k], c) ELSE groups[k]]
    ELSE Append(groups, <<c>>)

\* The groups in the order of their first candidates.
Groups(candidates) ==
    LET grouped[n \in 0 .. Len(candidates)] ==
            IF n = 0 THEN <<>>
            ELSE IF candidates[n].scenario \notin Scenarios THEN grouped[n - 1]
            ELSE Into(grouped[n - 1], candidates[n])
    IN  grouped[Len(candidates)]

\* Mutant of Highest: the first candidate stands for its group.
HighestIsFirst(group) == group[1]

\* The first of the candidates with the greatest severity.
Highest(group) ==
    group[CHOOSE i \in DOMAIN group : \A j \in DOMAIN group :
            Rank(group[j]) < Rank(group[i]) \/ (Rank(group[j]) = Rank(group[i]) /\ i <= j)]

\* A severity outside the table raises KeyError if it is the highest of its group.
Unrankable(candidates) ==
    \E k \in DOMAIN Groups(candidates) :
        Highest(Groups(candidates)[k]).severity \notin DOMAIN SeverityTable

\* compile_guards: one guard per group, numbered within its scenario.
CompileGuards(candidates) ==
    LET groups == Groups(candidates)
        number(k) == Cardinality({j \in 1 .. k : groups[j][1].scenario = groups[k][1].scenario})
    IN  [k \in DOMAIN groups |->
            LET highest == Highest(groups[k])
            IN  [id |-> <<"g-synth", highest.scenario, number(k)>>,
                 scenario |-> highest.scenario, detector |-> highest.scenario,
                 direction |-> highest.direction,
                 threshold |-> SeverityTable[highest.severity],
                 on_fail |-> IF highest.severity = "high" THEN "block" ELSE highest.on_fail,
                 evidence |-> "spans",
                 provenance |-> [i \in DOMAIN groups[k] |-> groups[k][i].anchor]]]

Synthesized(candidates) ==
    [meta |-> {"id", "version", "tenant", "status", "origin", "labels"},
     spec |-> [apps |-> {"app"}, environments |-> {"prod"}, fail_mode |-> "closed",
               timeout_ms |-> 12000],
     guards |-> CompileGuards(candidates)]

-----------------------------------------------------------------------------
(* The steps.                                                               *)

IdleFeed == [pc |-> "idle", rules |-> <<>>, base |-> None]

Init ==
    /\ rows = [v \in {} |-> {}]
    /\ created = <<>>
    /\ approvals = <<>>
    /\ source \in Rulesets
    /\ feed = [f \in Feeds |-> IdleFeed]
    /\ tuner = None

\* A person compiles a profile with an app layer and posts the result as a draft.
Author(v, input) ==
    /\ ~Missing(input[1]) /\ ~Cyclic(input[1])
    /\ v \notin DOMAIN rows
    /\ Submit(v, Compile(input[1], input[2]).doc, "manual", None, None, input)
    /\ UNCHANGED <<source, feed, tuner>>

SubmitForReview(v) == Move(v, "draft", "in_review") /\ UNCHANGED approvals

\* Mutant of Approve: the approval is not stamped.
ApproveUnstamped(v) == Move(v, "in_review", "approved") /\ UNCHANGED approvals

Approve(v) == Move(v, "in_review", "approved") /\ approvals' = Append(approvals, v)

Reject(v) == Move(v, "in_review", "draft") /\ UNCHANGED approvals

Revoke(v) == Move(v, "approved", "revoked") /\ UNCHANGED approvals

\* The source of the feed changes.
NewRuleset(rules) ==
    /\ source # rules
    /\ source' = rules
    /\ UNCHANGED <<registry, feed, tuner>>

\* The scheduler starts a task, one instance at a time: it loads the rule list first.
FeedLoad(f) ==
    /\ feed[f].pc = "idle"
    /\ feed' = [feed EXCEPT ![f] = [pc |-> "loaded", rules |-> source, base |-> None]]
    /\ UNCHANGED <<registry, source, tuner>>

\* It reads the versions and ends if there is nothing to extend or nothing to add.
FeedRead(f) ==
    /\ feed[f].pc = "loaded"
    /\ Base # None => Bump(Base) \in Versions
    /\ feed' = [feed EXCEPT ![f] =
         IF Base # None /\ OffersNew(rows[Base].doc, @.rules)
         THEN [pc |-> "posting", rules |-> @.rules, base |-> Base] ELSE IdleFeed]
    /\ UNCHANGED <<registry, source, tuner>>

\* It posts its proposal; a refusal is an exception that ends the run.
FeedPost(f) ==
    /\ feed[f].pc = "posting"
    /\ LET base == feed[f].base
           doc == rows[base].doc
           rules == feed[f].rules
       IN  Submit(Bump(base), Reissued(Extend(doc, rules)), "feed", ChangeClass(doc, rules),
                  base, rules)
    /\ feed' = [feed EXCEPT ![f] = IdleFeed]
    /\ UNCHANGED <<source, tuner>>

\* The source or the registry cannot be reached, or the process stops.
FeedFails(f) ==
    /\ feed[f].pc # "idle"
    /\ feed' = [feed EXCEPT ![f] = IdleFeed]
    /\ UNCHANGED <<registry, source, tuner>>

\* The auto-tuner reads the versions, later the evidence and the feedback ...
TunerRead ==
    /\ tuner = None /\ Base # None
    /\ Bump(Base) \in Versions
    /\ tuner' = Base
    /\ UNCHANGED <<registry, source, feed>>

\* ... and proposes the thresholds it recommends, if any.
TunerPost(evidence) ==
    /\ tuner # None
    /\ LET doc == rows[tuner].doc
           tuned == Retune(doc, evidence)
       IN  IF tuned = doc THEN UNCHANGED registry
           ELSE Submit(Bump(tuner), Reissued(tuned), "autotuner", "threshold_tune", tuner, evidence)
    /\ tuner' = None
    /\ UNCHANGED <<source, feed>>

TunerFails == tuner # None /\ tuner' = None /\ UNCHANGED <<registry, source, feed>>

\* The synthesize command: extraction, compilation and proposal of version 0.1.0.
Synthesize(candidates) ==
    /\ <<0, 0>> \in Versions
    /\ ~Unrankable(candidates)
    /\ Submit(<<0, 0>>, Synthesized(candidates), "synthesizer", "mixed", None, candidates)
    /\ UNCHANGED <<source, feed, tuner>>

Review(v) == SubmitForReview(v) \/ Approve(v) \/ Reject(v) \/ Revoke(v)

Next ==
    \/ \E v \in Releases, input \in Drafted : Author(v, input)
    \/ \E v \in Reviewed \cap DOMAIN rows : Review(v)
    \/ \E rules \in Rulesets : NewRuleset(rules)
    \/ \E f \in Feeds : FeedLoad(f) \/ FeedRead(f) \/ FeedPost(f) \/ FeedFails(f)
    \/ TunerRead \/ TunerFails
    \/ \E evidence \in Evidences : TunerPost(evidence)
    \/ \E candidates \in Extractions : Synthesize(candidates)

Spec == Init /\ [][Next]_vars

\* The scheduler keeps starting the feed, an outage of the registry ends, and people
\* submit and approve what is drafted, also after they rejected it.
Fairness ==
    /\ \A f \in Feeds : WF_vars(FeedLoad(f)) /\ SF_vars(FeedRead(f)) /\ SF_vars(FeedPost(f))
    /\ \A v \in Reviewed :
         /\ WF_vars(v \in DOMAIN rows /\ SubmitForReview(v))
         /\ SF_vars(v \in DOMAIN rows /\ Approve(v))

FairSpec == Spec /\ Fairness

-----------------------------------------------------------------------------
(* Properties.                                                              *)

\* The state has its types; the two orders hold each version once, and what is approved
\* has its place in the second.
TypeOK ==
    /\ DOMAIN rows \subseteq Versions
    /\ \A v \in DOMAIN rows :
         /\ rows[v].status \in Statuses /\ rows[v].origin \in Origins /\ rows[v].auto \in BOOLEAN
         /\ rows[v].parent \in DOMAIN rows \cup {None}
    /\ created \in Seq(DOMAIN rows) /\ Len(created) = Cardinality(DOMAIN rows)
    /\ approvals \in Seq(DOMAIN rows) /\ Approved \subseteq ToSet(approvals)
    /\ source \in Rulesets
    /\ \A f \in Feeds :
         /\ feed[f].pc \in {"idle", "loaded", "posting"} /\ feed[f].rules \in Rulesets \cup {<<>>}
         /\ feed[f].base \in DOMAIN rows \cup {None}
    /\ tuner \in DOMAIN rows \cup {None}

\* The new guard has the old one's fields and rules, and further rules with other ids.
GuardOnlyAdds(old, new) ==
    /\ DOMAIN new = DOMAIN old \cup (IF IsSecrets(old) THEN {"rules"} ELSE {})
    /\ \A f \in DOMAIN old \ {"rules"} : new[f] = old[f]
    /\ \A k \in DOMAIN RulesOf(old) :
         k \in DOMAIN RulesOf(new) /\ RulesOf(new)[k] = RulesOf(old)[k]
    /\ \A k \in DOMAIN RulesOf(new) \ DOMAIN RulesOf(old) :
         IsSecrets(old) /\ RulesOf(new)[k].id \notin Ids(RulesOf(old)) \cup {None}

OnlyAdds(old, new) ==
    /\ new.spec = old.spec
    /\ DOMAIN new.guards = DOMAIN old.guards
    /\ \A i \in DOMAIN old.guards : GuardOnlyAdds(old.guards[i], new.guards[i])

\* A version that no person approved extends one that a person or this rule approved, by
\* rules with new ids and nothing else, whatever happened since the job read it (AA-1).
AutoApprovedOnlyAdds ==
    \A v \in DOMAIN rows : rows[v].auto =>
        /\ rows[v].parent \in ToSet(approvals)
        /\ OnlyAdds(rows[rows[v].parent].doc, rows[v].doc)

\* The layer that the override trace names for a field of a compiled policy did set the
\* value it has, and a guard that a layer brings is gone only if the trace says REMOVED
\* from this layer on: one layer may bring and remove it.
Explains(compiled) ==
    LET doc == compiled.doc
        by(covering) == Attributed(compiled, covering)
    IN  /\ \A f \in DOMAIN doc.spec : by({<<None, f>>}).spec[f] = doc.spec[f]
        /\ \A i \in DOMAIN doc.guards : \A f \in DOMAIN doc.guards[i] :
             LET g == doc.guards[i]
             IN  \E h \in ToSet(by({<<g.id, f>>, <<g.id, "ADDED">>}).guards) :
                    h.id = g.id /\ f \in DOMAIN h /\ h[f] = g[f]
        /\ \A i \in DOMAIN compiled.layers :
             \A g \in ToSet(compiled.layers[i].doc.guards) :
                ~Removes(g) /\ g.id \notin Ids(doc.guards) =>
                    \E j \in i .. Len(compiled.layers) : <<g.id, "REMOVED">> \in compiled.trace[j]

\* Whatever people compile for a release that they can still post: the override trace they
\* get with the document explains it.
TraceExplains ==
    \A v \in Releases \ DOMAIN rows, input \in Inputs :
        Missing(input[1]) \/ Cyclic(input[1]) \/ Explains(Compile(input[1], input[2]))

\* Every rule that was extracted and mapped has exactly one guard of its scenario and
\* direction, at least as sensitive as the rule's severity asks, and blocking if that is high.
\* A guard's provenance is that of the rules with its scenario and direction and of no
\* others, even if one paragraph yielded several; guards have distinct ids.
Accountable(candidates, guards) ==
    /\ \A i, j \in DOMAIN guards : guards[i].id = guards[j].id => i = j
    /\ \A k \in DOMAIN guards :
         LET rules == {c \in Mapped(candidates) : Key(c) = Key(guards[k])}
         IN  rules # {} /\ ToSet(guards[k].provenance) = {c.anchor : c \in rules}
    /\ \A c \in Mapped(candidates) :
         \E k \in DOMAIN guards :
            /\ {j \in DOMAIN guards : Key(guards[j]) = Key(c)} = {k}
            /\ c.severity \in DOMAIN SeverityTable =>
                 guards[k].threshold <= SeverityTable[c.severity]
            /\ c.severity = "high" => guards[k].on_fail = "block"

\* What the synthesizer proposed accounts for every rule it was compiled from.
SynthesizedAccountable ==
    \A v \in DOMAIN rows :
        rows[v].origin = "synthesizer" => Accountable(rows[v].ref, rows[v].doc.guards)

ThresholdOnly(old, new) ==
    /\ DOMAIN new = DOMAIN old \cup {"threshold"}
    /\ \A f \in DOMAIN old \ {"threshold"} : new[f] = old[f]

\* A guard that the tuner changes differs in its threshold alone, and for the feedback on
\* the guard's id the new one, as it is proposed, raises no more false alarms than the one
\* that is replaced, also if several guards share the id.
TunedRaisesNoAlarm ==
    \A v \in DOMAIN rows : rows[v].origin = "autotuner" =>
        LET old == rows[rows[v].parent].doc.guards
            new == rows[v].doc.guards
        IN  /\ DOMAIN new = DOMAIN old
            /\ \A i \in DOMAIN new : new[i] # old[i] =>
                 LET labelled == LabelledOf(rows[v].ref, old[i].id)
                 IN  /\ ThresholdOnly(old[i], new[i])
                     /\ FalseAlarms(labelled, 40 * new[i].threshold)
                          <= FalseAlarms(labelled, 40 * Current(old, old[i].id))

\* A threshold that the tuner proposes misses at most 0.5% of the violations it knows of
\* (tuner.py:5, "minimize FP rate subject to FN rate <= 0.5%").
TunedWithinCeiling ==
    \A v \in DOMAIN rows : rows[v].origin = "autotuner" =>
        LET old == rows[rows[v].parent].doc.guards
            new == rows[v].doc.guards
        IN  \A i \in DOMAIN new : new[i] # old[i] =>
              LET labelled == LabelledOf(rows[v].ref, old[i].id)
              IN  1000 * Misses(labelled, 40 * new[i].threshold) <= 5 * Total(Positives(labelled))

\* A rule that stays on offer reaches every secrets guard of an approved version, unless a
\* version was revoked, the version jobs extend has no secrets guard, or its next patch
\* version is out of bounds.
HasRule(doc, id) ==
    /\ \E i \in DOMAIN doc.guards : IsSecrets(doc.guards[i])
    /\ \A i \in DOMAIN doc.guards : IsSecrets(doc.guards[i]) => id \in Ids(RulesOf(doc.guards[i]))

Excused ==
    \/ \E v \in DOMAIN rows : rows[v].status = "revoked"
    \/ Base = None
    \/ Base # None /\ Bump(Base) \notin Versions
    \/ Base # None /\ \A i \in DOMAIN rows[Base].doc.guards : ~IsSecrets(rows[Base].doc.guards[i])

RuleArrives ==
    \A id \in (UNION {Ids(rules) : rules \in Rulesets}) \ {None} :
        <>[](id \in Ids(source)) =>
            []<>(Excused \/ (Base # None /\ HasRule(rows[Base].doc, id)))

\* A version that no person approved changes what is enforced only by adding rules
\* (gitleaks.py:7-8: "This ingestor never modifies thresholds, actions, or existing rule IDs").
EnforcedOnlyGains ==
    [][\A v \in DOMAIN rows' \ DOMAIN rows : rows'[v].auto /\ InForce # None =>
           OnlyAdds(rows[InForce].doc, rows'[v].doc)]_vars
=============================================================================
