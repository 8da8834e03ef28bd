------------------------- MODULE PolicyDistribution -------------------------
(***************************************************************************)
(* From the policy registry to an enforcement point: the bundle builder of *)
(* the Control API and the bundle client of a gateway, on top of the       *)
(* registry of PolicyLifecycle, for one tenant and environment.            *)
(*                                                                         *)
(* A build picks the approved versions, looks up their detectors and then  *)
(* the next sequence number, and inserts the signed bundle; these are four *)
(* statements of a READ COMMITTED transaction.  The gateway's poller pulls *)
(* the newest bundle, verifies it and hands it over a channel of capacity  *)
(* one to the goroutine that swaps the policy index.  Nothing is kept over *)
(* a restart of the gateway.                                               *)
(***************************************************************************)
EXTENDS PolicyLifecycle, Sequences, FiniteSetsExt

CONSTANTS
    InEnvironment,  \* the versions whose applies_to names the environment
    Portable,       \* the versions whose document both canonicalizers encode alike
    Unregistered,   \* the versions that refer to detectors registered later
    Builders,       \* the threads that execute build requests
    MaxBundles,     \* bound: bundles
    MaxRestarts     \* bound: restarts of the gateway

ASSUME DistributionAssumption ==
    /\ InEnvironment \subseteq Versions /\ Portable \subseteq Versions
    /\ Unregistered \subseteq Versions
    /\ MaxBundles \in Nat /\ MaxRestarts \in Nat

VARIABLES
    registered, \* the versions all of whose detectors are in the catalog
    bundles,    \* the rows of table bundles, by bundle_seq: sets of entries
    builder,    \* builder[b]: where build request b is and what it has read
    gateway,    \* the bundle client and the policy index of a gateway
    newest,     \* history: the newest bundle any gateway process has served
    restarts    \* history: restarts so far, for the bound

distributionVars == <<registered, bundles, builder, gateway, newest, restarts>>
vars == <<lifecycleVars, distributionVars>>

-----------------------------------------------------------------------------
(* Composing a bundle. *)

ApprovedOf(id) == {v \in Versions : PolicyOf[v] = id /\ row[v].exists /\ row[v].status = "approved"}

\* _latest_approved_versions, then the filter by environment: of every policy the
\* version approved last, if that one names the environment.  The join is on the
\* time stamp: it finds all versions approved at that time.
Picked ==
    {v \in Versions :
        /\ v \in ApprovedOf(PolicyOf[v])
        /\ row[v].at = Max({row[u].at : u \in ApprovedOf(PolicyOf[v])})
        /\ v \in InEnvironment}

Entries == [v : Versions, intact : BOOLEAN, pinned : BOOLEAN]

\* What is read of the version and its detectors goes into the manifest.
PolicyEntry(p) == [v |-> p.v, intact |-> p.intact, pinned |-> p.v \in registered]

\* Mutant of Verify: document hashes are not compared.
VerifyPinsOnly(n) == \A e \in bundles[n] : e.v \in Portable /\ e.pinned

\* Verify in the gateway.  The envelope arrives as it was signed; the check fails
\* if the gateway canonicalizes a document differently, finds a document that
\* does not have the hash the manifest names, or a detector without a digest.
Verify(n) == \A e \in bundles[n] : e.v \in Portable /\ e.intact /\ e.pinned

-----------------------------------------------------------------------------

IdleBuilder == [pc |-> "idle", picks |-> {}, entries |-> {}, seq |-> 0]

\* 0 stands for no bundle.
StartedGateway == [lastSeq |-> 0, pulled |-> 0, channel |-> 0, taken |-> 0, index |-> 0]

Seqs == 0 .. Len(bundles)

TypeOK ==
    /\ LifecycleTypeOK
    /\ registered \subseteq Versions
    /\ bundles \in Seq(SUBSET Entries) /\ Len(bundles) <= MaxBundles
    /\ builder \in [Builders ->
          [pc : {"idle", "picked", "referred", "numbered"}, picks : SUBSET [v : Versions, intact : BOOLEAN],
           entries : SUBSET Entries, seq : 0 .. MaxBundles + 1]]
    /\ gateway \in [lastSeq : Seqs, pulled : Seqs, channel : Seqs, taken : Seqs, index : Seqs]
    /\ newest \in Seqs
    /\ restarts \in 0 .. MaxRestarts

Init ==
    /\ LifecycleInit
    /\ registered = Versions \ Unregistered
    /\ bundles = <<>>
    /\ builder = [b \in Builders |-> IdleBuilder]
    /\ gateway = StartedGateway
    /\ newest = 0 /\ restarts = 0

-----------------------------------------------------------------------------
(* The Control API. *)

\* register_detector, for the last missing detector of version v.
RegisterDetector(v) ==
    /\ v \notin registered
    /\ registered' = registered \cup {v}
    /\ UNCHANGED <<lifecycleVars, bundles, builder, gateway, newest, restarts>>

BuildPick(b) ==
    /\ builder[b].pc = "idle"
    /\ Len(bundles) < MaxBundles
    /\ builder' = [builder EXCEPT ![b] =
          [IdleBuilder EXCEPT !.pc = "picked",
                              !.picks = {[v |-> v, intact |-> DocIntact(row[v])] : v \in Picked}]]
    /\ UNCHANGED <<lifecycleVars, registered, bundles, gateway, newest, restarts>>

\* _detector_refs.
BuildRefer(b) ==
    /\ builder[b].pc = "picked"
    /\ builder' = [builder EXCEPT ![b].pc = "referred",
                                  ![b].entries = {PolicyEntry(p) : p \in builder[b].picks}]
    /\ UNCHANGED <<lifecycleVars, registered, bundles, gateway, newest, restarts>>

\* The next bundle_seq.
BuildNumber(b) ==
    /\ builder[b].pc = "referred"
    /\ builder' = [builder EXCEPT ![b].pc = "numbered", ![b].seq = Len(bundles) + 1]
    /\ UNCHANGED <<lifecycleVars, registered, bundles, gateway, newest, restarts>>

\* The commit; if another build took the sequence number, the primary key
\* refuses the row and the request fails.
BuildCommit(b) ==
    /\ builder[b].pc = "numbered"
    /\ \/ /\ builder[b].seq = Len(bundles) + 1
          /\ Len(bundles) < MaxBundles
          /\ bundles' = Append(bundles, builder[b].entries)
       \/ /\ builder[b].seq \in DOMAIN bundles
          /\ UNCHANGED bundles
    /\ builder' = [builder EXCEPT ![b] = IdleBuilder]
    /\ UNCHANGED <<lifecycleVars, registered, gateway, newest, restarts>>

-----------------------------------------------------------------------------
(* The gateway. *)

\* Mutant of Pull: the bundle after lastSeq is asked for, not the newest.
PullSuccessor ==
    /\ gateway.pulled = 0
    /\ Len(bundles) > gateway.lastSeq
    /\ gateway' = [gateway EXCEPT !.pulled = gateway.lastSeq + 1]
    /\ UNCHANGED <<lifecycleVars, registered, bundles, builder, newest, restarts>>

\* Mutant of Pull: the answer is not compared with lastSeq.
PullUncompared ==
    /\ gateway.pulled = 0
    /\ gateway' = [gateway EXCEPT !.pulled = gateway.lastSeq + 1]
    /\ UNCHANGED <<lifecycleVars, registered, bundles, builder, newest, restarts>>

\* The request of PollOnce is answered: the newest bundle, if it is newer than
\* lastSeq (otherwise 204, or 404 if there is none yet).
Pull ==
    /\ gateway.pulled = 0
    /\ Len(bundles) > gateway.lastSeq
    /\ gateway' = [gateway EXCEPT !.pulled = Len(bundles)]
    /\ UNCHANGED <<lifecycleVars, registered, bundles, builder, newest, restarts>>

\* The response is lost or the request times out.
PullLost ==
    /\ gateway.pulled # 0
    /\ gateway' = [gateway EXCEPT !.pulled = 0]
    /\ UNCHANGED <<lifecycleVars, registered, bundles, builder, newest, restarts>>

\* Mutant of Deliver: a bundle that finds the channel full is dropped.
DeliverUnlessFull ==
    /\ gateway.pulled # 0
    /\ gateway' = IF Verify(gateway.pulled)
                  THEN [gateway EXCEPT !.pulled = 0, !.lastSeq = gateway.pulled,
                                       !.channel = IF @ = 0 THEN gateway.pulled ELSE @]
                  ELSE [gateway EXCEPT !.pulled = 0]
    /\ UNCHANGED <<lifecycleVars, registered, bundles, builder, newest, restarts>>

\* tick: verify, remember, and put the bundle into the channel, in place of one
\* that nobody took yet.  A bundle that does not verify changes nothing.
Deliver ==
    /\ gateway.pulled # 0
    /\ gateway' = IF Verify(gateway.pulled)
                  THEN [gateway EXCEPT !.pulled = 0, !.lastSeq = gateway.pulled,
                                       !.channel = gateway.pulled]
                  ELSE [gateway EXCEPT !.pulled = 0]
    /\ UNCHANGED <<lifecycleVars, registered, bundles, builder, newest, restarts>>

Take ==
    /\ gateway.channel # 0 /\ gateway.taken = 0
    /\ gateway' = [gateway EXCEPT !.taken = gateway.channel, !.channel = 0]
    /\ UNCHANGED <<lifecycleVars, registered, bundles, builder, newest, restarts>>

\* policy.Build and Snapshot.Store.
Install ==
    /\ gateway.taken # 0
    /\ gateway' = [gateway EXCEPT !.index = gateway.taken, !.taken = 0]
    /\ newest' = Max({newest, gateway.taken})
    /\ UNCHANGED <<lifecycleVars, registered, bundles, builder, restarts>>

Restart ==
    /\ restarts < MaxRestarts
    /\ restarts' = restarts + 1
    /\ gateway' = StartedGateway
    /\ UNCHANGED <<lifecycleVars, registered, bundles, builder, newest>>

-----------------------------------------------------------------------------

Registry == LifecycleNext /\ UNCHANGED distributionVars

Build(b) == BuildPick(b) \/ BuildRefer(b) \/ BuildNumber(b) \/ BuildCommit(b)

Client == Pull \/ Deliver \/ Take \/ Install

Next ==
    \/ Registry
    \/ \E v \in Versions : RegisterDetector(v)
    \/ \E b \in Builders : Build(b)
    \/ Client
    \/ PullLost
    \/ Restart

Spec == Init /\ [][Next]_vars

\* The poller's ticker goes on; a poll that keeps being made is answered now and
\* then; the consumer of the channel runs.
FairSpec ==
    /\ Spec
    /\ WF_vars(Pull) /\ SF_vars(Deliver)
    /\ WF_vars(Take) /\ WF_vars(Install)

-----------------------------------------------------------------------------
(* Properties. *)

\* Invariant I1, from the registry to the request path: every version that a
\* gateway enforces has been approved, in full knowledge of the audit table, by
\* somebody who may approve or by rule AA-1, however builds, revocations and
\* polls interleave; and its document is the one that was hashed.
EnforcedWasApproved ==
    gateway.index # 0 =>
        \A e \in bundles[gateway.index] :
            /\ e.intact
            /\ \E s \in Approvers :
                  /\ Entry(e.v, "approved", s) \in audit
                  /\ s = AutoRule \/ MayApprove(s)

\* A gateway, restarted or not, never goes back to a bundle older than one that
\* was served before.
NeverOlder == [][gateway'.index # 0 => gateway'.index >= newest]_gateway

\* Once no more bundles are built, the gateway serves the newest one, if that one
\* verifies, whatever bundles that do not verify came before it.
NewestServed ==
    <>[](bundles # <<>> /\ Verify(Len(bundles)) => gateway.index = Len(bundles))
=============================================================================
