# GuardX: TLA+ specifications

GuardX is a guardrail system for LLM applications. A **gateway** (Go) stands
between an application and its model and enforces policies; a **control plane**
(Python, FastAPI, PostgreSQL) keeps the policies, builds signed bundles from
them and stores the evidence of every decision; **detector services** (Python,
gRPC/HTTP) look at texts; an **automation plane** (Python) proposes policies.

The modules in this directory are written from the code, one action per step of
a handler or goroutine. `PROJECT.json` names, for every definition, the lines it
stands for.

## 1. Inventory

| Component | State | Operations | Status |
|---|---|---|---|
| Evidence ingestion (`control/guardx_control/api/evidence.py`) | tables `guard_decisions`, `guard_decisions_head`; row locks | `POST /v1/evidence/events` | modelled: `EvidenceIngest` |
| Evidence delivery (`gateway/internal/evidence/http_emitter.go`) | queue, flusher's batch, spool file | `Emit`, `flushLoop`, `replayLoop`, `Close` | partly: `EvidenceDelivery` |
| Evidence audit (`api/evidence.py`, `evidence/chain.py`, `harness/verify_chain/main.go`) | `chain_anchors`, what a handler has read | verify, `sign_anchor`, export, `verify_chain` | partly: `EvidenceAudit` |
| Policy registry (`api/policies.py`) | tables `policies`, `policy_audit` | create, submit, approve, reject, revoke, propose | modelled: `PolicyLifecycle` |
| Bundle builder and distribution (`bundle_builder/builder.py`, `api/bundles.py`, `api/detectors.py`, `gateway/internal/bundle`, `internal/policy/index.go`) | table `bundles`, detector catalog; poller, channel, index | build, pull, verify, hand over, install | modelled: `PolicyDistribution` |
| Request path (`gateway/internal/proxy/proxy.go`, `httpapi/check.go`, `detector/dispatcher.go`, `detector/action.go`) | per request: loaded index, text, outcomes | proxy, check, `Dispatcher.Run`, `ApplyActions` | partly: `RequestPath`, `ApplyActions` |
| Circuit breaker (`gateway/internal/detector/http_backend.go`) | failure counter, open-until deadline (two atomics) | `Check`, `recordFailure`, `recordSuccess` | modelled: `DetectorCalls` |
| Detector services (`detectors/pii`, `safety`, `nli`, `llm_judge`) | rubrics, providers, packs (read once) | `/v1/check`, `Judge.evaluate` | partly: `DetectorServices` (their decisions; what a model or a pattern finds is an input) |
| Profile inheritance (`profiles/inheritance.py`) | pack files | `compile_policy`, `POST /v1/profiles/compile` | modelled: `PolicyDocuments` |
| Policy linter (`linter/linter.py`) | - | `validate_schema`, `lint_policy` | modelled: `PolicyDocuments` |
| Automation plane (`automation/guardx_automation`) | what a job has loaded and read | gitleaks feed, auto-tuner, synthesizer | modelled: `Automation` |
| Feedback (`api/feedback.py`) | table `feedback` | one INSERT | partly: an input of `Automation` |
| Metrics registry (`gateway/internal/metrics`) | families under a mutex | get-or-create, `Render` | not modelled |
| Secrets scanner (`gateway/internal/detector/secrets`) | automaton | `Scan` | not modelled |
| Canonical JSON and signing (both languages) | - | encode, hash, sign | not modelled (represented by sets of documents) |
| Authentication (`api/auth.py`, `api/oidc.py`) | API keys, tokens | group mapping | not modelled; the role table is part of `PolicyLifecycle` |
| Console, harness, deployment | - | - | not modelled |

**How they interact.** A request handler of the gateway loads the policy index
once, runs guards, calls `Emit` for each outcome, and answers. The emitter posts
batches to the Control API, which appends them to one hash chain per
(tenant, app). Auditors verify, anchor and export a chain. Policies move through
the registry, each request in a transaction of its own; a build reads the
registry and inserts a bundle; the gateway polls for it, verifies it and swaps
the index that request handlers load. People compile a version from profile packs
and a layer of their own; the linter judges every submission. Automation jobs read
the versions of a policy over HTTP, compute, and propose the next patch version in
another request; rule AA-1 approves what a feed calls a monotonic addition. A guard
whose detector is a service is checked over HTTP through a circuit breaker that all
guards of this detector share, and the service may ask an LLM judge.

**What is hard.**

* Several gateways append to one hash chain at once; two batches may take the
  head rows of their chains in opposite orders.
* The emitter has three kinds of goroutines on one queue and one spool file, and
  a network on which an answer can get lost after, or before, the batch it
  answers is recorded. The process may crash, or shut down while requests run.
* `sign_anchor`, export and build read their inputs in several statements of a
  READ COMMITTED transaction without locks.
* Registry handlers read a status, check it, and write it back unconditionally.
* Bundles are pulled, verified and handed over asynchronously, and a request
  must not see two of them.
* Guards run in parallel, fail, time out and escalate.
* The two atomics of a circuit breaker are written one after the other by
  concurrent calls, in both orders.
* A job computes on versions that people approve, revoke or supersede before it
  posts; which version is "the current one" is decided by `created_at` in one
  place and by `approved_at` in another.
* A judge can time out, be unconfigured, or answer prose, malformed JSON or
  unknown verdicts, and each takes another path to a verdict.
* A document is merged over layers that add, change and remove the same guards,
  and the trace that explains it is kept by another part of the merge.

**What makes each part correct.** Ingestion: a linear, gap-free chain per
(tenant, app); a batch lands whole and once. Delivery: nothing recorded twice,
nothing lost but what was in memory at a crash, everything recorded in the end.
Audit: a chain that
verifies vouches for all that is below a known hash; anchors leave no hole. Registry: approval only
through the workflow and with separation of duty; documents never change.
Distribution: only approved versions are enforced, never an older bundle after a
newer one, and the newest is served in the end. Request path: one bundle per
request, one event per guard, no effect without a guard that calls for it, and
nothing that was redacted comes back. Detector calls: what nothing assessed gets
the guard's fail mode, stricter settings never pass more, a recovered service is
used again. Documents: the trace explains what was compiled. Automation: what no
person approved only adds rules, tuned thresholds raise no further alarms, every
extracted rule is accounted for, and what stays on offer arrives.

`PROJECT.json` lists the hazards of the code line by line with the properties
that cover them; those without a property say why.

## 2. The modules

| Module | What it is |
|---|---|
| `EvidenceLog` | What the evidence store promises: one append-only log per chain, each event at most once and in its own chain. |
| `EvidenceIngest` | The ingest transaction: `Receive`, `LockHead`/`InsertHead` (SELECT FOR UPDATE or INSERT), `Stage` (rows built on the head), `Commit`, `Conflict` (unique indexes), `DeadlockVictim` (the database aborts one), crash. Refines `EvidenceLog`. |
| `EvidenceDelivery` | The emitter and the process it lives in. `caller` is where each `Emit` call is, `queue` the channel, `batch` the flusher's slice, `flusher`/`replayer` the program counters of the loops, `post` the requests in flight, `late` those whose client gave up. The API is the atomic store that `EvidenceIngest` implements. |
| `EvidenceAudit` | One chain; `Damage`, by which rows are forged in any column, inserted, deleted and renumbered behind the API's back; the walks of the API and of the tool; `sign_anchor` and export in their separate statements. Hashes are the tuples they are computed from. Time stamps are fractions of `Digits` digits of which the database keeps `StoredDigits`. |
| `PolicyLifecycle` | The registry. `worker` holds what a handler has read; `Begin...` is the SELECT and the checks, the second half the write and the commit. |
| `PolicyDistribution` | Extends `PolicyLifecycle` with builds (four statements), detector registration and the gateway's client: poller, channel of capacity one, index, restarts. |
| `ApplyActions` | The edit loop of `ApplyActions` on texts of bytes, and what it has to hide. |
| `RequestPath` | Proxy and check handlers over `ApplyActions`: phases, policies, guard goroutines, fail modes, escalation, evidence events, index swap. |
| `PolicyDocuments` | Documents as `[meta, spec, guards]`: inheritance chains with missing parents and cycles, `Merge`, the override trace (`Entries`), `Compile`, and the linter's errors (`Accepted`). Pure operators and recursive functions. |
| `Automation` | One policy's registry with a request as a step (`Submit`, `Move`), people, the feed (`FeedLoad`, `FeedRead`, `FeedPost`, `FeedFails`), the tuner (`TunerRead`, `TunerPost`) and the synthesizer, over `PolicyDocuments`. `Recommended` is the threshold search with its Wilson interval, `CompileGuards` the grouping of extracted rules. |
| `DetectorServices` | What the three services and the judge library answer for a guard's config, a text and a provider's reply, status codes included. Pure operators. |
| `DetectorCalls` | The HTTP backend of one detector: `Send`, `Refuse`, `Lose`, `Serve`, then `OpenCircuit`/`CloseCircuit` as the second atomic, `Garble` for a body that cannot be read, `Tick` for the deadline, and `RunOne`, the dispatcher's reading of an answer. |
| `EvidenceIngest_proofs`, `EvidenceDelivery_proofs`, `EvidenceAudit_proofs`, `PolicyLifecycle_proofs`, `PolicyDistribution_proofs`, `RequestPath_proofs`, `Automation_proofs`, `DetectorCalls_proofs` | Theorems about the module they are named after (section 5). |
| `MC...` | Constants for the model checker. |

Definitions whose name extends that of another one (`ConflictOnSeqOnly` after
`Conflict`) are deliberate defects: each run's properties are shown to fail when
the definition is replaced by the defect.

**Abstractions.** Hashing is injective (a hash is the tuple that was hashed). A
signature never fails over what the API signed. An event is a model value with a
chain and a time stamp, a document is its status stamp, a text is a short
sequence of bytes. Transactions are READ COMMITTED: a statement sees what was
committed when it started. HTTP handlers of the control plane are the threads
`Workers`, `Builders`, `Signers`, `Requests`. Clocks appear only where they are
compared: the order of approvals, the time stamps of events, the deadline of the
circuit (in ticks). Thresholds are integers in thousandths. The threshold grid of
the tuner and the scores it looks at are integers in 40ths of a thousandth, where
the code uses floating point: every threshold that is tried is such a number, so a
score rounded down to one compares with it as the score does. The Wilson bound is
compared without a root.
A version number is the pair of a release and a patch. What differs in a text is
what the detectors find in it; a byte of a text stands for the place it was typed
at and occurs there alone. The `anchor` of a candidate is its entry in the
provenance of a guard; several candidates may share one. `PolicyLifecycle` and `Automation` model the same
registry at two grains: the first splits each request into its read and its
commit, the second takes a request as one step and splits the jobs that make two.

## 3. The runs

Every property of a passing run is known to fail for at least one defect of the
code it is about.

| Run | Bounds | What it shows |
|---|---|---|
| `EvidenceIngest` | 3 handlers, 2 chains, 3 events, batches of up to 2 | chains stay linked, heads current, batches whole and once; deadlocks end; refinement of `EvidenceLog` |
| `EvidenceDelivery` | 2 events, queue of 1, batch of 2, 2 failed posts, 2 lost answers, 1 crash, 1 shutdown | nothing recorded twice or lost from disk; the spool drains while answers arrive |
| `EvidenceDelivery_lostack` | 2 events, 1 failed post, 1 lost answer, no crash | finding 1 |
| `EvidenceAudit` | 2 rows, 2 signers, 1 export, 2 damages, page of 1 | anchors leave no hole; exports check what they show; a verifying chain vouches for what is below a known hash; the tool agrees with the API |
| `PolicyLifecycle` | 1 version, 2 handlers, 5 principals, one time stamp | workflow, separation of duty, immutable documents |
| `PolicyDistribution` | 2 versions of a policy, 1 registry handler, 2 time stamps, 2 builds, 2 bundles, 1 restart | what is enforced, and in which order |
| `RequestPath` | 1 request, 2 bundles of 2 policies with 2 guards each, texts of up to 3 bytes | one bundle, one event per guard, effects explained |
| `RequestPath_offsets` | 1 character of two bytes | finding 2 |
| `Automation` | 4 versions, 25 inputs to compile (over a pack whose metadata repeat the baseline's) of which 5 are posted, 2 rule lists, 1 feed, 2 states of the feedback, 3 extractions | rule AA-1, the trace, tuned thresholds, synthesized guards; offered rules arrive |
| `Automation_rollback` | 2 releases and 2 patches of one, 2 drafts | finding 3 |
| `Automation_rounding` | violations at 0.7689, false alarms at 0.768 | finding 4 |
| `DetectorCalls` | 2 concurrent calls, 9 guards of 3 services, 3 texts, 10 replies, a circuit that opens after 2 failures for 2 ticks | fail modes, monotone strictness, recovery |

**Why the bounds are enough.** In ingestion, a conflict needs two handlers, a
deadlock two chains, a queue of waiters three handlers, and a row built on a stale
head a second event in one chain. The queue of one makes `Emit` overflow as soon as
two events are emitted, so that queue, batch and spool hold events at once. One lost
answer makes a duplicate post, a second one a duplicate of the replay. In the audit,
two rows and two signers let an anchor begin where another one ends, overlap it, or
sign a head that has moved on, and a page of one row is shorter than the chain. Of
damage, two changes are needed to forge a row together with the one that links to
it, or to take a row away and put another in its place, before, between and after
the ingestions. The run's constraint (`Relevant`) goes into no step of a signer or
the export once something was damaged, because their properties are about anchors
and numbers, which damage leaves alone, or exclude it; the theorems know no such
limit, of rows or damage either. The races of the registry are between two handlers
on one row; different rows do not interact before a bundle picks among them, for
which two versions of one policy are needed. The clock of approvals may stand still,
as `datetime.now` may: two approvals with equal stamps both go into a bundle,
because the builder joins on the stamp. In the registry alone stamps play no part,
so one is enough there. Requests share nothing but the index, so one request and two
bundles show a swap under a request; two policies show that the second gets the text
of the first, and two guards that the order in which they return does not matter. In
automation, one release with its two patches lets a feed and the tuner extend the
same version, race for its number, and extend what the other made; version 0.1.0 is
the one number the synthesizer uses; a second release (`Automation_rollback`) is
what a rollback needs. The rule lists change the expression of a known id, repeat an
id, and hold a rule without one; the drafts contain a guard that is removed, one
that the linter refuses and packs that are missing or inherit from themselves. Races
of the breaker's atomics are between two calls, and a threshold of two tells a
counter from a flag. Every bound is a constant of its module with "bound:" in its
comment.

`CHECK_DEADLOCK FALSE` is set in all runs because their inputs are finite: once
every event is recorded, every request answered or every bound used up, nothing
more happens. That nothing hangs before is the business of the liveness
properties.

**Fairness.** `EvidenceIngest`: a handler that can go on does (its thread runs
until the request is answered), and PostgreSQL ends deadlocks; nothing is
assumed of whether a request arrives. `EvidenceDelivery`: the tickers of the
loops tick, a post is answered or times out (the client has a timeout), a
goroutine waiting for the mutex gets it, which `sync.Mutex` guarantees in its
starvation mode (strong fairness); no fairness for `Emit`, faults, crash or
restart. `PolicyDistribution`: the poll is repeated, and it is not lost every
time (strong fairness of `Deliver`). `RequestPath`: a handler goes on, since
detectors run into the dispatcher's budget and the upstream call into its
client's timeout. `Automation`: the scheduler keeps starting the feed (weak
fairness of `FeedLoad`), source and registry answer in the end (strong fairness,
since each attempt may fail), and people submit and approve what is drafted even
if they rejected it before; nothing is assumed of tuner, synthesizer, authors or
revocations. `RuleArrives` excuses what the code cannot do: a revoked version, a
policy without secrets guard, no further patch number within the bound.
`DetectorCalls`: time passes, calls keep coming, a call that was sent ends (the
client has a timeout), and a call that has written one atomic writes the other.

## 4. Findings

Each is a statement of the repository that a run refutes; the run's counterexample
is the shortest way there.

1. `EvidenceDelivery_lostack`: one lost answer blocks the spool for good. The
   replayed batch contains an event the API has, the API refuses the batch as a
   whole, and all events spooled with it are never recorded
   (`http_emitter.go:23-26` promises that they are).
2. `RequestPath_offsets`: character offsets of the PII service are used as byte
   offsets (`detector.proto:48`); after a non-ASCII character the wrong bytes
   are redacted.
3. `Automation_rollback`: a feed extends the approved version with the newest
   `created_at`, the builder ships the one with the newest `approved_at`. With two
   approved releases, an automatically approved "addition" to the one replaces the
   other in the next bundle, thresholds and actions included
   (`gitleaks.py:7-8` says that it never modifies them).
4. `Automation_rounding`: the tuner rounds the threshold it has checked to three
   digits. Between false alarms at 0.768 and violations at 0.7689 the grid finds
   0.76875; proposed is 0.769, which misses every violation (`tuner.py:5` promises
   a miss rate of at most 0.5%, `tuner.py:124` not to breach that ceiling).

**Divergences without a run.** Met while modelling, described here only. The
models contain the behaviour of the first ten, and the properties named leave room
for it:

* Auto-approval writes status, approver and rule into the document after it was
  hashed (`policies.py:344-347` after 87-88), so the stored document does not have
  the stored hash and the gateway refuses every bundle that contains it
  (`verifier.go:118-139`), though `policies.py:312` says that such a proposal is
  approved. `EnforcedWasApproved` says only that nothing of the kind is enforced.
* The replayer posts the whole spool at once. Once it holds more events than the API
  takes in one post (500, `evidence.py:70`), every replay is refused and nothing in
  it is ever recorded (`http_emitter.go:23-24`: "A separate worker replays the spool
  once the API recovers"). `RecordedInTheEnd` excuses such a spool.
* The emitter is closed while requests still run (`main.go:199`); what they emit then
  stays in the queue or fails in the closed spool file (`http_emitter.go:25-26`: "the
  payload is never lost while disk has room"). `NothingLost` excuses what is emitted
  after the shutdown began.
* With a full queue `Emit` takes the mutex that the replayer holds over a post of up
  to ten seconds (`http_emitter.go:92`: "Callers never wait on the network").
* Rows deleted or added at the end of a chain leave one that verifies, since the walk
  compares its end with neither head row nor anchors (`chain.py:4-5`: "any insert,
  delete, or edit breaks the chain and is detectable"). `VerifiedIsWritten` is about
  the rows below a known hash. `is_shadow` is not hashed, so that an edit of it is
  not seen anywhere in the chain (`0003_shadow_flag.py`); rows have no such column
  here.
* The event hash is computed over the time stamp as the gateway wrote it (up to nine
  digits, no trailing zeros) and verified over the stamp as the database formats it
  (six digits or none), so that an untouched row can be reported as modified
  (`chain-anchor-fail.md:11`: "an event's fields were modified after ingest").
  `ReadableStampsVerify` says which stamps are safe.
* A reject or approve that read the row before it was approved and revoked, and
  commits afterwards, takes the revocation back (`docs/deployment/README.md:354`: "a
  re-promotion is a fresh version, not an un-revoke"). `ApprovedByWorkflow` allows
  it: the version did go through the workflow once.
* `fail_mode: closed` makes a failed guard a FAIL without spans, which changes nothing
  if the guard's action is redact, mask or flag (`bundle-stale.md:10`: it "will now
  **block** on any detector error"; `dispatcher.go:171`). `EffectsExplained` does not
  ask for effects.
* The redacted conversation replaces the last message and the earlier ones are
  forwarded as they came (the comment at `proxy.go:309-310` says they are blanked).
  `HiddenStaysHidden` is about the last one.
* Of two findings that overlap the later is dropped as "already covered"
  (`action.go:66`), also where it reaches beyond the first one. `HiddenStaysHidden`
  asks for the first byte of every edit.
* A guard without a config is sent as `null`, refused with 422 and so always gets
  its fail mode. A guard whose config names an unknown rubric or pack makes the
  service answer 500, and these failures open the circuit for all guards of the
  detector.
* The safety service reads an answer it cannot parse, from a rubric of format
  json_object, as an empty object: PASS. Its category thresholds override the
  model's verdict in the strict direction only; a FAIL the model states stays.
* The gateway never sends a context, so the groundedness check always answers
  NEEDS_ESCALATION, or PASS where the config requires no context. A claim whose
  judgement fails counts as unsupported, whatever the fail mode.
* The feed writes `config.extra_rules`, which no detector of the gateway reads.
* The tuner reads the oldest 5000 events of a chain, searches down to
  max(0.05, current - 0.2) where its docstring says 0.5, and its result need not
  lower the false alarms once it is rounded. Guards with one id all get what is recommended for the last of them.
* The synthesizer always proposes version 0.1.0, so a second synthesis for a
  policy is refused; it leaves rules without a scenario to people and drops those
  of an unknown one silently (`synth.py:215-216`), raises
  KeyError if the highest severity of a group is unknown, and between rules of
  equal medium severity the first decides, so a later "block" is lost.
* The linter's rule on streaming cannot fire after the schema, its rule on
  production knows only the literal "prod", and it does not run when a bundle is
  built. In the override trace, `replaced` names the previous layer, which need
  not be the one that set the value.
* The approval time is `datetime.now`, and the builder joins the versions on the
  latest one (`builder.py:35-44`): two versions of a policy approved in the same
  microsecond are both put into the bundle.

## 5. What is proved

The theorems hold for every value of the constants that satisfies the named
assumption of the module (`IngestAssumption`, `DeliveryAssumption`,
`AuditAssumption`, `LifecycleAssumption`, `DistributionAssumption`,
`PowersAssumption`, `PacksAssumption`, `AutomationAssumption`, `ListsAssumption`, `NoneAssumption`,
`DetectorCallsAssumption`, `ConfigAssumption`, `RepliesAssumption`,
`RequestPathAssumption`, `BundlesAssumption`, `InputsAssumption`,
`FindingsAssumption`, `MessagesAssumption`, `LayersAssumption`,
`EvidencesAssumption`), so for any
number of handlers, chains, events, rows, versions, people, builders, bundles,
feeds, rule lists, documents, requests, calls, guards and faults. The assumptions
say of which type the constants are, that the sets of events, chains or versions
are finite where a model needs it, that the stand-ins for "nobody" and for rule
AA-1 are not people, that lists of rules, candidates, guards and bundles are
lists, that thresholds and scores are numbers and labelled scores finitely many,
that guards in a layer carry identifiers and no field is named like a mark of the
override trace (`LayersAssumption`), that a proxied request begins with its input,
that what a detector finds is a finite set of regions that do not end before they
start (`FindingsAssumption`), and that each place in the messages of a request, each
place in the model's answers and the marks that replace text are bytes of their own
(`MessagesAssumption`). TLC
evaluates them in every run. Nothing else is assumed. `PowersAssumption` is a fact of
arithmetic (a power of a positive number is one) that the provers cannot derive.

Each proof goes the same way: an inductive invariant holds initially
(`...Init`), every step keeps it (`...Next`, `StepKeeps`: one lemma per action or
group of actions), and it implies the properties. TLC was used on the small instances
to find the invariants before they were proved.

| Module | Properties proved |
|---|---|
| `EvidenceIngest_proofs` | `TypeOK`, `ChainLinked`, `HeadCurrent`, `WholeBatches`, `ImplementsLog`, and the lemma-like `StagedOnHead`, `EventOnce` |
| `EvidenceDelivery_proofs` | `TypeOK`, `RecordedOnce`, `NothingLost`, `DurableKept` |
| `EvidenceAudit_proofs` | all of its run: `TypeOK`, `VerifiedIsWritten`, `ReadableStampsVerify`, `ToolAgrees`, `AnchorsCover`, `ExportCoversAnchors`; also `AnchorNamesRow` |
| `PolicyLifecycle_proofs` | all of its run: `LifecycleTypeOK`, `ApprovedByWorkflow`, `DocumentImmutable` |
| `PolicyDistribution_proofs` | `TypeOK`, `EnforcedWasApproved`, `NeverOlder` |
| `RequestPath_proofs` | `TypeOK`, `OneBundle`, `EveryGuardRecorded`, `EffectsExplained`, `HiddenStaysHidden` |
| `Automation_proofs` | all of its run but liveness: `TypeOK`, `AutoApprovedOnlyAdds`, `TraceExplains`, `SynthesizedAccountable`, `TunedRaisesNoAlarm` |
| `DetectorCalls_proofs` | `FailModeDecides`, `StricterNeverPasses` |

Why the properties are not inductive, and what the invariants add:

* **Ingestion** (`Integrity`). That a chain stays linked needs the staged rows
  to continue the committed ones; that needs the head a handler has read to be
  current (`StagedOnHead`), which the row lock gives as long as every handler
  holds the locks of what it has read (`Working`) and the head row names the
  last row (`HeadCurrent`). `OwnChain` keeps a handler's rows in the chains it
  has locked; `EventOnce` rests on the unique index. `WholeBatches` needs that on
  the way to a commit no event of the batch is lost (`BatchKept`): it is staged, or
  its chain is left to do, because a listing of a finite set leaves nothing out
  (`OrdersCover`).
* **Delivery** (`DeliveryInv`). At-most-once recording in the store is simple;
  that nothing is lost is not: it needs each event to be in one place of the
  process at a time (`OneCopy`), a post in flight to carry just what the batch
  or the spool holds, and a positive answer to mean recorded (`Loops`), and it
  needs what a shutdown leaves in the queue to have come too late (`Stopping`).
* **Audit** (`AuditInv`). The invariant says nothing of damaged rows but their types:
  whatever is in them, a hash is injective, so a sound row with the hash of the row
  written under its number says the same and names the same hash below it. The
  properties follow down the chain: of the rows at which the two would differ there
  would be a least one above which they agree (`SameHashSameRow`, `LeastNumber`).
  `Written` supplies the chain as ingestion wrote it, ending at the head.
  `Anchored` keeps a last anchor, so that the maximum in `FirstUnanchored` exists; a
  signer's start is at most one beyond an anchor (`HasReadPrev`), also when others
  have signed since. An export of an undamaged chain is complete because a chain
  never gets shorter between its reads (`Exporting`).
* **Registry** (`LifecycleInv`). Handlers write on what they have read without a
  lock. `StillTrue` says which part of what they checked nobody can take back:
  the row exists and keeps its author, its submission stays on record, and
  roles do not change. The properties rest on that part only, which is why they
  hold although a late commit can take a revocation back (section 4).
* **Distribution** (`DistributionInv`). What a gateway enforces was approved because audit entries
  stay and both picks and bundles are sound (`SoundBuilds`), and intact because
  whatever is behind verification was verified (`Verified`). `Ordered` places
  `pulled`, `lastSeq`, `channel`, `taken` and `index` in one order.
* **Request path** (`IInv`, a conjunction over the requests). Exactly one event
  for each guard needs two halves: the evidence is only about what the handler is
  through with (`Honest`), so that a new event cannot be a second one, and all of
  that has its event (`Recorded`); the input phase counts as complete when the
  output begins because a handler waits for the model only past its last policy
  (`Progress`). What an effect is explained by must not have failed open already
  as an outcome, before there is an event (`Returned`, `FailModeIsObeyed`).
* **Text of a request** (`HInv`, on top of `IInv`). What was hidden is not in the
  text the handler goes on with, because of what the loop of `ApplyActions` makes
  of any sorted edits: the text up to the end of the last edit holds nothing that
  an edit hides, also where edits overlap (`CutKeepsLoopInv`, `LoopInvariant`,
  `RewriteHides`). Spans become such edits because the byte offset of a character
  is found by counting (`EveryCharacterBegins`, `SpansFit`). The forwarded message
  consists of messages of the request (`ConcatJoins`), and the model's answer is
  made of other bytes, so nothing comes back with it.
* **Automation** (`AutomationInv`). A feed posts on what it read in an earlier
  request, without a lock. The proof rests on what nobody takes back: a row stays,
  its document, parent and origin never change, and an approval stays on record
  even if the version is revoked (`Grows`, `JobsInv`). That the loop over the
  offered rules selects only rules with new ids is proved for every list
  (`LoopExists`, `LoopSelects`). `Listed` says that lists of rules stay
  lists through compilation, extension, tuning and synthesis.
* **Proposals** (`ProposalsInv`). A proposal of the tuner is what `Retune` makes of
  its parent, which is still as it was read, and one of the synthesizer is what
  `CompileGuards` makes of its candidates. The rest is about these functions. The
  tuner: missed violations grow and false alarms shrink with the threshold
  (`RatesAreMonotone`), what the search returns before it is rounded has passed its
  checks (`RecommendedIsGood`), and rounding, which moves it by half a thousandth at
  most, cannot take it below the threshold in force (`RecommendedRaisesNoAlarm`). The synthesizer: the dictionary of groups holds, after
  every candidate, each candidate under its key and no key twice (`IntoKeeps`,
  `LoopGroups`); a guard's number grows with each group of its scenario
  (`CountGrows`), so identifiers differ.
* **Override trace** (`MergingExplains`). The loop invariant over the layers says of
  each value so far which layer is the last whose entries cover it, and that this
  layer set it. One merge keeps it since its entries cover just the values it
  takes from the child (`SpecExplained`, `GuardExplained`), and a guard that drops
  out is said to (`RemovalExplained`). Layers are documents because a chain that
  can be resolved consists of packs (`ChainOfPacks`). The proof also showed that
  one layer may bring a guard and remove it, which the trace says at that layer
  and not at a later one; `TraceExplains` is stated accordingly.
* **Detector calls** (`CallInv`). The steps update single fields of a call, so the
  invariant fixes its shape; the rest is that a judge that was asked and failed is
  reported as ERROR, whatever the config. `StricterNeverPasses` is about the
  services alone and needs that the least score of a set of claims exists and
  only falls when a claim is added; `MoreClaimsKeepFail` proves it for answers of
  any number of claims, where the run looks at one and two.

The refinement theorem of ingestion shows that every step is `Record` of
`EvidenceLog` or leaves the log unchanged, with the log read off the committed rows.

What a loop computes for every list, text or chain is proved without an induction
theorem: the loop is a recursive function (`Fresh`, `Groups`, `ElementsAt`,
`Compile`, `WayUp`, `Rewrite`, `Concat`), and a step at which its invariant fails
would have a first one, since a non-empty set of numbers has a least element
(`LeastNatural`). That is why these are not `SelectSeq` or folds.

**Only model-checked.** All liveness (`EveryRequestAnswered`,
`RecordedInTheEnd`, `NewestServed`, `RuleArrives`, `RecoveredIsUsed`): it rests on
fairness and ENABLED, which the prover does not handle. Every invariant and action
property that a passing run checks is a theorem.

## 6. What is not modelled

* Failures of the spool file itself: a torn line, a failing reopen, a scanner
  error. The spool is a sequence of whole events.
* Anchor signatures, the time window of an export, evidence minimization.
* `max_age_hours`: the code never evaluates it.
* Metrics and logging of the request path, unknown JSON fields, streaming (which
  the gateway refuses).
* The metrics registry: its one hazard is a data race whose outcome is a corrupt
  iteration or a crash of the Go runtime, not a state of the program.
* The secrets scanner and the canonical JSON encoders: pure functions on bytes,
  whose interesting inputs are long strings; unit tests and fuzzing reach them
  better than a small model.
* What a pattern, a layer 1 signal, an entity recognizer or a language model
  finds in a text: an input of `DetectorServices`. The judge's extraction of rules
  and the evidence and feedback the tuner joins are inputs of `Automation`; so is
  the pull of feedback and its storage, a single INSERT.
* Warnings of the linter, labels, change notes and the order of trace entries
  within a layer.
* API keys, tokens and group mapping; the console; the harness but for
  `verify_chain`; deployment files.

## 7. Plan

In this order:

1. `SpoolFile`: the spool as lines, with torn writes and a failing reopen, and
   `EvidenceDelivery` over it.
2. The composition of `DetectorCalls` with `RequestPath`: the outcomes of guards
   as those of the shared breaker, with the dispatcher's budget.
3. Feedback as an action of `Automation`, with events as rows of a chain, so that
   the tuner's window of 5000 events can be stated.
4. `RoleMapping` and `CanonicalJson` as functions against reference definitions.
5. Theorems: the refinement of the registry at its two grains, `PolicyLifecycle`
   implementing the requests of `Automation`.
