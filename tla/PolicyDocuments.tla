--------------------------- MODULE PolicyDocuments ---------------------------
(***************************************************************************)
(* Policy documents of the Control API: how profile packs and an app's own *)
(* layer are merged into one, what the override trace says about it, and   *)
(* what the linter refuses.                                                *)
(*                                                                         *)
(* A document is [meta, spec, guards]: the set of its metadata keys, a     *)
(* function from the other paths under spec to their values, and the list  *)
(* of guards.  A guard is a function from fields to values, its config     *)
(* flattened into it (rules is config.extra_rules, verify_live is          *)
(* config.verify_live).  A layer may leave out any path and any field.     *)
(***************************************************************************)
EXTENDS Naturals, Sequences, FiniteSets, SequencesExt

CONSTANTS
    Packs,      \* Packs[name]: the pack file of that name: [key, parent, doc], key the
                \* id@version that its metadata gives
    Baseline,   \* the baseline pack, which every policy starts from
    None        \* no pack, no document, no identifier

ASSUME PacksAssumption ==
    IsFiniteSet(DOMAIN Packs) /\ Baseline \in DOMAIN Packs /\ None \notin DOMAIN Packs

\* What a pack file or an app layer may be: a list of guards with identifiers, their rules,
\* if any, in lists.  The marks of the override trace are not names of fields.
IsLayer(doc) ==
    /\ doc.guards \in Seq(ToSet(doc.guards))
    /\ \A i \in DOMAIN doc.guards :
         LET guard == doc.guards[i]
         IN  /\ "id" \in DOMAIN guard /\ guard.id # None
             /\ DOMAIN guard \cap {"ADDED", "REMOVED"} = {}
             /\ "rules" \in DOMAIN guard => guard.rules \in Seq(ToSet(guard.rules))

ASSUME LayersAssumption == \A name \in DOMAIN Packs : IsLayer(Packs[name].doc)

-----------------------------------------------------------------------------
(* Inheritance chains.                                                      *)

\* The packs met on the way up from a profile, None beyond the root.
WayUp(profile) ==
    LET up[n \in 0 .. Cardinality(DOMAIN Packs)] ==
            IF n = 0 THEN profile
            ELSE IF up[n - 1] \in DOMAIN Packs THEN Packs[up[n - 1]].parent ELSE None
    IN  up

\* load_pack raises FileNotFoundError (404), a parent that was seen ValueError (422).
Missing(profile) ==
    \E n \in DOMAIN WayUp(profile) : WayUp(profile)[n] \notin DOMAIN Packs \cup {None}

Cyclic(profile) == WayUp(profile)[Cardinality(DOMAIN Packs)] # None

\* The packs of a profile, root first.
Chain(profile) ==
    LET up == WayUp(profile)
        depth == Cardinality({n \in DOMAIN up : up[n] # None})
    IN  [k \in 1 .. depth |-> up[depth - k]]

-----------------------------------------------------------------------------
(* The merge.                                                               *)

\* The elements of a list at these positions, in order.
ElementsAt(s, positions) ==
    LET elements[n \in 0 .. Len(s)] ==
            IF n = 0 THEN <<>>
            ELSE IF n \in positions THEN Append(elements[n - 1], s[n])
            ELSE elements[n - 1]
    IN  elements[Len(s)]

Ids(guards) == {guards[i].id : i \in DOMAIN guards}

\* The last guard at one of these positions.
LastOf(guards, at) == guards[CHOOSE i \in at : \A j \in at : j <= i]

\* The dictionaries by id keep the last guard of an id.
LastWith(guards, id) == LastOf(guards, {i \in DOMAIN guards : guards[i].id = id})

\* The keys of both, the child's values first.
Overlay(child, parent) ==
    [f \in DOMAIN child \cup DOMAIN parent |->
        IF f \in DOMAIN child THEN child[f] ELSE parent[f]]

Removes(guard) == "__remove__" \in DOMAIN guard

MergeGuards(parent, child) ==
    LET drops(g) == g.id \in Ids(child) /\ Removes(LastWith(child, g.id))
        kept == ElementsAt(parent, {i \in DOMAIN parent : ~drops(parent[i])})
        added == ElementsAt(child, {i \in DOMAIN child :
                                      child[i].id \notin Ids(parent) /\ ~Removes(child[i])})
        merged(g) == IF g.id \in Ids(child) THEN Overlay(LastWith(child, g.id), g) ELSE g
    IN  [i \in DOMAIN kept |-> merged(kept[i])] \o added

Merge(parent, child) ==
    [meta |-> parent.meta \cup child.meta,
     spec |-> Overlay(child.spec, parent.spec),
     guards |-> MergeGuards(parent.guards, child.guards)]

\* Mutant of Overridden: only what replaces a value of the parent is recorded.
OverriddenInParent(parent, child) ==
    {f \in DOMAIN child \cap DOMAIN parent : parent[f] # child[f]}

\* The fields that the child changes or adds.
Overridden(parent, child) ==
    {f \in DOMAIN child : f \in DOMAIN parent => parent[f] # child[f]}

\* The trace entries of one merge, as <<guard or None, field>>: the order of the
\* entries within one layer is left out.  An entry for an object that the parent
\* lacks stands for all its leaves.
Entries(parent, child) ==
    LET shared == {i \in DOMAIN parent.guards : parent.guards[i].id \in Ids(child.guards)}
        theirs(i) == LastWith(child.guards, parent.guards[i].id)
        new == {g \in ToSet(child.guards) : g.id \notin Ids(parent.guards) /\ ~Removes(g)}
    IN  {<<None, f>> : f \in Overridden(parent.spec, child.spec)}
          \cup (UNION {IF Removes(theirs(i)) THEN {<<theirs(i).id, "REMOVED">>}
                       ELSE {<<theirs(i).id, f>> : f \in Overridden(parent.guards[i], theirs(i))} :
                       i \in shared})
          \cup {<<g.id, "ADDED">> : g \in new}

AboveBaseline(chain) == ElementsAt(chain, {k \in DOMAIN chain : Packs[chain[k]].key # Baseline})

\* The layers in the order they are merged, under the names the trace gives them.  The
\* chain of the baseline itself is not resolved, and a pack that says it is the baseline is
\* not merged on top of it, whatever its file is called.
Layers(profile, app) ==
    LET packs == IF profile \in {None, Baseline} THEN <<>> ELSE AboveBaseline(Chain(profile))
        names == <<Baseline>> \o packs
    IN  [i \in DOMAIN names |-> [name |-> IF i = 1 THEN Baseline ELSE Packs[names[i]].key,
                                 doc |-> Packs[names[i]].doc]]
          \o (IF app = None THEN <<>> ELSE <<[name |-> "app-policy", doc |-> app]>>)

\* POST /v1/profiles/compile: the merged document, stamped as a policy, and the trace.
\* trace[i] holds the entries of layer i, which replace what layer i - 1 ended with.
Compile(profile, app) ==
    LET layers == Layers(profile, app)
        acc[i \in DOMAIN layers] ==
            IF i = 1 THEN layers[1].doc ELSE Merge(acc[i - 1], layers[i].doc)
        last == acc[Len(layers)]
    IN  [layers |-> layers,
         doc |-> [last EXCEPT !.meta = (@ \cup {"tenant", "profile", "status"}) \ {"parent"}],
         trace |-> [i \in DOMAIN layers |->
                      IF i = 1 THEN {} ELSE Entries(acc[i - 1], layers[i].doc)]]

\* What the trace says about a value: the layer of the last entry that covers it, the
\* baseline if there is none.
Attributed(compiled, covering) ==
    LET mentions == {i \in DOMAIN compiled.trace : compiled.trace[i] \cap covering # {}}
    IN  compiled.layers[IF mentions = {} THEN 1
                        ELSE CHOOSE i \in mentions : \A j \in mentions : j <= i].doc

-----------------------------------------------------------------------------
(* The linter.                                                              *)

OnFails == {"block", "redact", "rewrite", "flag", "reask", "block_and_explain", "mask"}

Directions == {"input", "output"}

Scenarios == {"pii", "secrets", "hallucination", "content_safety"}

MetaKeys == {"id", "version", "tenant", "status", "profile", "labels", "created_by",
             "created_at", "approved_by", "approved_at", "change_note", "parent_version",
             "origin", "origin_ref"}

GuardKeys == {"id", "scenario", "detector", "direction", "threshold", "on_fail", "evidence",
              "fail_mode", "provenance", "rules", "verify_live"}

ValidGuard(g) ==
    /\ {"id", "scenario", "detector", "direction", "on_fail"} \subseteq DOMAIN g
    /\ DOMAIN g \subseteq GuardKeys
    /\ g.scenario \in Scenarios
    /\ g.direction \subseteq Directions /\ g.direction # {}
    /\ g.on_fail \in OnFails
    /\ "threshold" \in DOMAIN g => g.threshold \in 0 .. 1000

\* validate_schema: what schemas/policy.schema.json accepts.
ValidSchema(doc) ==
    /\ {"id", "version", "tenant", "status"} \subseteq doc.meta /\ doc.meta \subseteq MetaKeys
    /\ {"apps", "environments"} \subseteq DOMAIN doc.spec
    /\ DOMAIN doc.spec \subseteq {"apps", "environments", "fail_mode", "timeout_ms"}
    /\ doc.spec["apps"] # {} /\ doc.spec["environments"] # {}
    /\ doc.guards \in Seq(ToSet(doc.guards)) /\ doc.guards # <<>>
    /\ \A i \in DOMAIN doc.guards : ValidGuard(doc.guards[i])

MissingFailMode(doc) ==
    "fail_mode" \notin DOMAIN doc.spec
      /\ \E i \in DOMAIN doc.guards : "fail_mode" \notin DOMAIN doc.guards[i]

VerifyLiveInProd(doc) ==
    /\ "prod" \in doc.spec["environments"]
    /\ \E i \in DOMAIN doc.guards :
         /\ doc.guards[i].scenario = "secrets"
         /\ "verify_live" \in DOMAIN doc.guards[i] /\ doc.guards[i].verify_live

FullTextUnderPii(doc) ==
    \E i \in DOMAIN doc.guards :
      /\ doc.guards[i].scenario = "pii"
      /\ "evidence" \in DOMAIN doc.guards[i] /\ doc.guards[i].evidence = "full_text"

\* lint_policy without an issue of severity ERROR: the rules run on valid documents.
\* Warnings (streaming, contradictory guards) do not stop a document.
Accepted(doc) ==
    ValidSchema(doc) /\ ~MissingFailMode(doc) /\ ~VerifyLiveInProd(doc) /\ ~FullTextUnderPii(doc)
=============================================================================
