----------------------- MODULE PolicyDistribution_proofs -----------------------
(***************************************************************************)
(* Proofs about PolicyDistribution for any set of versions, people,        *)
(* builders and any number of bundles: type correctness, that a gateway    *)
(* enforces only what was approved, and that no gateway goes back to an    *)
(* older bundle.                                                           *)
(***************************************************************************)
EXTENDS PolicyDistribution, PolicyLifecycle_proofs

-----------------------------------------------------------------------------
(* The inductive invariant. *)

\* Somebody who may approve, or rule AA-1, is on record for version v.
Known(v) ==
    \E s \in Approvers : Entry(v, "approved", s) \in audit /\ (s = AutoRule \/ MayApprove(s))

\* A set of picks or entries is made of versions that have been approved.
Sound(S) == \A e \in S : Known(e.v)

\* What builds have read and what they have written is sound.
SoundBuilds ==
    /\ \A b \in Builders : Sound(builder[b].picks) /\ Sound(builder[b].entries)
    /\ \A n \in DOMAIN bundles : Sound(bundles[n])

\* A bundle on its way through the gateway has been verified.
Verified == \A n \in {gateway.channel, gateway.taken, gateway.index} : n # 0 => Verify(n)

\* A bundle on its way is at least as new as what is served, and what lies
\* behind it on the way is newer still.
Ordered ==
    /\ gateway.pulled # 0 => gateway.pulled > gateway.lastSeq /\ gateway.pulled >= newest
    /\ gateway.lastSeq # 0 => gateway.lastSeq >= newest
    /\ gateway.channel <= gateway.lastSeq /\ gateway.taken <= gateway.lastSeq
    /\ gateway.channel # 0 => gateway.channel >= newest /\ gateway.channel >= gateway.taken
    /\ gateway.taken # 0 => gateway.taken >= newest
    /\ gateway.index # 0 => gateway.index = newest

DistributionInv ==
    LifecycleInv /\ TypeOK /\ SoundBuilds /\ Verified /\ Ordered

-----------------------------------------------------------------------------

\* The system starts with nothing approved and nothing built.
LEMMA DistributionInvInit == Init => DistributionInv
<1>. SUFFICES ASSUME Init PROVE DistributionInv
    OBVIOUS
<1>1. LifecycleInv
    BY LifecycleInvInit DEF Init
<1>2. LifecycleTypeOK
    BY <1>1 DEF LifecycleInv
<1>4. TypeOK
  <2>1. \A b \in Builders : builder[b] = IdleBuilder
      BY DEF Init
  <2>2. Len(bundles) = 0 /\ bundles \in Seq(SUBSET Entries) /\ Seqs = {0}
      BY DEF Init, Seqs
  <2>3. IdleBuilder \in [pc : {"idle", "picked", "referred", "numbered"},
                         picks : SUBSET [v : Versions, intact : BOOLEAN],
                         entries : SUBSET Entries, seq : 0 .. MaxBundles + 1]
      BY DistributionAssumption DEF IdleBuilder
  <2>. QED BY <1>2, <2>2, <2>3, DistributionAssumption DEF Init, TypeOK, StartedGateway
<1>5. SoundBuilds
    BY DEF Init, SoundBuilds, Sound, IdleBuilder
<1>6. Verified /\ Ordered
    BY DEF Init, Verified, Ordered, StartedGateway
<1>. QED BY <1>1, <1>4, <1>5, <1>6 DEF DistributionInv

-----------------------------------------------------------------------------
(* The registry. *)

\* An approved row is on record, and its approver was somebody who may approve.
LEMMA ApprovedKnown ==
    ASSUME LifecycleInv, NEW v \in Versions, row[v].status = "approved"
    PROVE  Known(v)
<1>1. row[v].approver \in Approvers
    BY DEF LifecycleInv, LifecycleTypeOK, Rows
<1>. QED BY <1>1 DEF LifecycleInv, ApprovedByWorkflow, Known

\* The audit table only grows.
LEMMA AuditGrows ==
    ASSUME [LifecycleNext]_lifecycleVars
    PROVE  audit \subseteq audit'
<1>1. ASSUME NEW w \in Workers, NEW p \in Principals, NEW v \in Versions, Begin(w, p, v)
      PROVE  audit' = audit
    BY <1>1 DEF Begin, BeginCreate, BeginPropose, BeginSubmit, BeginApprove, BeginReject,
            BeginRevoke, Serve
<1>2. ASSUME NEW w \in Workers, End(w)
      PROVE  audit \subseteq audit'
    BY <1>2 DEF End, InsertConflict, Create, Propose, Submit, Approve, Reject, Revoke, Abandon
<1>. QED BY <1>1, <1>2 DEF LifecycleNext, lifecycleVars

\* What is known of a version stays known.
LEMMA KnownGrows ==
    ASSUME audit \subseteq audit'
    PROVE  \A v : Known(v) => Known(v)'
BY DEF Known, MayApprove, Authorized

\* A sound set stays sound.
LEMMA SoundStays ==
    ASSUME audit \subseteq audit', NEW S, Sound(S)
    PROVE  \A e \in S : Known(e.v)'
BY KnownGrows DEF Sound

\* The versions picked for a bundle are approved.
LEMMA PickedSound ==
    ASSUME LifecycleInv, NEW S, \A e \in S : e.v \in Picked
    PROVE  Sound(S)
<1>1. ASSUME NEW v \in Picked
      PROVE  v \in Versions /\ row[v].status = "approved"
    BY <1>1 DEF Picked, ApprovedOf
<1>. QED BY <1>1, ApprovedKnown DEF Sound

\* Steps of the registry.
LEMMA RegistryPreserves ==
    ASSUME DistributionInv, [LifecycleNext]_lifecycleVars, UNCHANGED distributionVars
    PROVE  DistributionInv'
<1>1. LifecycleInv'
    BY LifecycleInvNext DEF DistributionInv
<1>2. TypeOK'
    BY <1>1 DEF DistributionInv, TypeOK, LifecycleInv, distributionVars, Seqs
<1>3. SoundBuilds'
  <2>1. audit \subseteq audit'
      BY AuditGrows
  <2>2. SoundBuilds /\ builder' = builder /\ bundles' = bundles
      BY DEF DistributionInv, distributionVars
  <2>. QED BY <2>1, <2>2, SoundStays DEF SoundBuilds, Sound
<1>4. Verified' /\ Ordered'
    BY DEF DistributionInv, Verified, Verify, Ordered, distributionVars
<1>. QED BY <1>1, <1>2, <1>3, <1>4 DEF DistributionInv

-----------------------------------------------------------------------------
(* Builds. *)

\* A step that leaves registry and gateway alone and writes sound sets.
LEMMA BuildStep ==
    ASSUME DistributionInv, UNCHANGED <<lifecycleVars, gateway, newest, restarts>>,
           TypeOK',
           \A b \in Builders : Sound(builder'[b].picks) /\ Sound(builder'[b].entries),
           \/ bundles' = bundles
           \/ \E S : Sound(S) /\ bundles' = Append(bundles, S)
    PROVE  DistributionInv'
<1>1. LifecycleInv'
    BY LifecycleInvNext DEF DistributionInv
<1>2. /\ bundles \in Seq(SUBSET Entries) /\ audit' = audit
      /\ gateway.channel \in Seqs /\ gateway.taken \in Seqs /\ gateway.index \in Seqs
    BY DEF DistributionInv, TypeOK, lifecycleVars
<1>3. /\ \A n \in DOMAIN bundles : bundles'[n] = bundles[n]
      /\ \A n \in DOMAIN bundles' : n \in DOMAIN bundles \/ Sound(bundles'[n])
    BY <1>2
<1>4. SoundBuilds'
  <2>1. \A n \in DOMAIN bundles' : Sound(bundles'[n])
      BY <1>3 DEF DistributionInv, SoundBuilds
  <2>. QED BY <1>2, <2>1 DEF SoundBuilds, Sound, Known, MayApprove, Authorized
<1>5. Verified'
  <2>1. \A n \in Seqs : n # 0 => n \in DOMAIN bundles
      BY <1>2 DEF Seqs
  <2>2. \A n \in {gateway.channel, gateway.taken, gateway.index} : n # 0 => n \in DOMAIN bundles
      BY <1>2, <2>1
  <2>. QED BY <1>3, <2>2 DEF DistributionInv, Verified, Verify
<1>6. Ordered'
    BY DEF DistributionInv, Ordered
<1>. QED BY <1>1, <1>4, <1>5, <1>6 DEF DistributionInv

\* Replacing what a build has read keeps the type of its locals.
LEMMA BuilderType ==
    ASSUME NEW A, NEW B, NEW C, NEW D, NEW r \in [pc : A, picks : B, entries : C, seq : D],
           NEW pc \in A, NEW picks \in B, NEW entries \in C, NEW seq \in D
    PROVE  /\ [r EXCEPT !.pc = pc, !.picks = picks] \in [pc : A, picks : B, entries : C, seq : D]
           /\ [r EXCEPT !.pc = pc, !.entries = entries]
                 \in [pc : A, picks : B, entries : C, seq : D]
           /\ [r EXCEPT !.pc = pc, !.seq = seq]
                 \in [pc : A, picks : B, entries : C, seq : D]
OBVIOUS

\* Each statement of a build, and the registration of a detector.
LEMMA BuildPreserves ==
    ASSUME DistributionInv,
           (\E v \in Versions : RegisterDetector(v)) \/ (\E b \in Builders : Build(b))
    PROVE  DistributionInv'
<1>1. /\ LifecycleTypeOK /\ registered \subseteq Versions
      /\ bundles \in Seq(SUBSET Entries) /\ Len(bundles) <= MaxBundles
      /\ builder \in [Builders ->
            [pc : {"idle", "picked", "referred", "numbered"}, picks : SUBSET [v : Versions, intact : BOOLEAN],
             entries : SUBSET Entries, seq : 0 .. MaxBundles + 1]]
      /\ gateway \in [lastSeq : Seqs, pulled : Seqs, channel : Seqs, taken : Seqs, index : Seqs]
      /\ newest \in Seqs /\ restarts \in 0 .. MaxRestarts
      /\ SoundBuilds /\ MaxBundles \in Nat
    BY DistributionAssumption DEF DistributionInv, TypeOK
<1>2. Sound({})
    BY DEF Sound
<1>3. ASSUME NEW b \in Builders, NEW new,
             new \in [pc : {"idle", "picked", "referred", "numbered"},
                      picks : SUBSET [v : Versions, intact : BOOLEAN],
                      entries : SUBSET Entries, seq : 0 .. MaxBundles + 1],
             Sound(new.picks), Sound(new.entries),
             builder' = [builder EXCEPT ![b] = new],
             \/ bundles' = bundles
             \/ bundles' = Append(bundles, builder[b].entries) /\ Len(bundles) < MaxBundles,
             UNCHANGED <<lifecycleVars, registered, gateway, newest, restarts>>
      PROVE  DistributionInv'
  <2>0. builder[b].entries \in SUBSET Entries
      BY <1>1
  <2>1. bundles' \in Seq(SUBSET Entries) /\ Len(bundles') <= MaxBundles /\ Seqs \subseteq Seqs'
    <3>1. CASE bundles' = bundles
        BY <1>1, <3>1 DEF Seqs
    <3>2. CASE bundles' = Append(bundles, builder[b].entries) /\ Len(bundles) < MaxBundles
      <4>1. bundles' \in Seq(SUBSET Entries) /\ Len(bundles') = Len(bundles) + 1
          BY <1>1, <2>0, <3>2
      <4>2. Len(bundles) \in Nat
          BY <1>1
      <4>. QED BY <1>1, <3>2, <4>1, <4>2 DEF Seqs
    <3>. QED BY <1>3, <3>1, <3>2
  <2>2. LifecycleTypeOK'
      BY <1>1, <1>3 DEF LifecycleTypeOK, lifecycleVars
  <2>3. gateway' \in [lastSeq : Seqs', pulled : Seqs', channel : Seqs', taken : Seqs', index : Seqs']
      BY <1>1, <1>3, <2>1
  <2>4. TypeOK'
      BY <1>1, <1>3, <2>1, <2>2, <2>3 DEF TypeOK
  <2>5. \A c \in Builders : Sound(builder'[c].picks) /\ Sound(builder'[c].entries)
      BY <1>1, <1>3 DEF SoundBuilds
  <2>6. Sound(builder[b].entries)
      BY <1>1 DEF SoundBuilds
  <2>. QED BY <1>3, <2>4, <2>5, <2>6, BuildStep
<1>4. CASE \E v \in Versions : RegisterDetector(v)
  <2>1. PICK v \in Versions : RegisterDetector(v)
      BY <1>4
  <2>2. registered' \subseteq Versions
        /\ UNCHANGED <<lifecycleVars, bundles, builder, gateway, newest, restarts>>
      BY <1>1, <2>1 DEF RegisterDetector
  <2>3. LifecycleTypeOK' /\ Seqs' = Seqs
      BY <1>1, <2>2 DEF LifecycleTypeOK, lifecycleVars, Seqs
  <2>4. TypeOK'
      BY <1>1, <2>2, <2>3 DEF TypeOK
  <2>. QED BY <1>1, <2>2, <2>4, BuildStep DEF SoundBuilds
<1>5. ASSUME NEW b \in Builders, BuildPick(b)
      PROVE  DistributionInv'
  <2>. DEFINE picks == {[v |-> v, intact |-> DocIntact(row[v])] : v \in Picked}
              new == [IdleBuilder EXCEPT !.pc = "picked", !.picks = picks]
  <2>1. /\ builder' = [builder EXCEPT ![b] = new]
        /\ UNCHANGED <<lifecycleVars, registered, bundles, gateway, newest, restarts>>
      BY <1>5 DEF BuildPick
  <2>2. ASSUME NEW v \in Picked
        PROVE  [v |-> v, intact |-> DocIntact(row[v])] \in [v : Versions, intact : BOOLEAN]
    <3>1. v \in Versions
        BY DEF Picked
    <3>. QED BY <3>1 DEF DocIntact
  <2>3. picks \in SUBSET [v : Versions, intact : BOOLEAN]
      BY <2>2
  <2>4. \A e \in picks : e.v \in Picked
      OBVIOUS
  <2>. HIDE DEF picks
  <2>5. Sound(picks)
      BY <2>4, PickedSound DEF DistributionInv
  <2>6. new \in [pc : {"idle", "picked", "referred", "numbered"},
                 picks : SUBSET [v : Versions, intact : BOOLEAN],
                 entries : SUBSET Entries, seq : 0 .. MaxBundles + 1]
        /\ new.picks = picks /\ new.entries = {}
    <3>1. IdleBuilder \in [pc : {"idle", "picked", "referred", "numbered"},
                           picks : SUBSET [v : Versions, intact : BOOLEAN],
                           entries : SUBSET Entries, seq : 0 .. MaxBundles + 1]
        BY <1>1 DEF IdleBuilder
    <3>2. new.picks = picks /\ new.entries = {}
        BY DEF IdleBuilder
    <3>. QED BY <2>3, <3>1, <3>2, BuilderType
  <2>. HIDE DEF new
  <2>. QED BY <1>2, <1>3, <2>1, <2>5, <2>6
<1>6. ASSUME NEW b \in Builders, BuildRefer(b)
      PROVE  DistributionInv'
  <2>. DEFINE entries == {PolicyEntry(p) : p \in builder[b].picks}
              new == [builder[b] EXCEPT !.pc = "referred", !.entries = entries]
  <2>1. builder[b].picks \in SUBSET [v : Versions, intact : BOOLEAN] /\ Sound(builder[b].picks)
      BY <1>1 DEF SoundBuilds
  <2>2. entries \in SUBSET Entries
    <3>1. ASSUME NEW p \in builder[b].picks
          PROVE  PolicyEntry(p) \in Entries
      <4>1. p \in [v : Versions, intact : BOOLEAN]
          BY <2>1
      <4>. QED BY <4>1 DEF PolicyEntry, Entries
    <3>. QED BY <3>1
  <2>3. \A e \in entries : \E p \in builder[b].picks : e.v = p.v
      BY DEF PolicyEntry
  <2>. HIDE DEF entries
  <2>4. Sound(entries)
      BY <2>1, <2>3 DEF Sound
  <2>5. new \in [pc : {"idle", "picked", "referred", "numbered"},
                 picks : SUBSET [v : Versions, intact : BOOLEAN],
                 entries : SUBSET Entries, seq : 0 .. MaxBundles + 1]
        /\ new.picks = builder[b].picks /\ new.entries = entries
    <3>1. builder[b] \in [pc : {"idle", "picked", "referred", "numbered"},
                          picks : SUBSET [v : Versions, intact : BOOLEAN],
                          entries : SUBSET Entries, seq : 0 .. MaxBundles + 1]
        BY <1>1
    <3>2. new.picks = builder[b].picks /\ new.entries = entries
        BY <3>1
    <3>. QED BY <2>1, <2>2, <3>1, <3>2, BuilderType
  <2>6. /\ builder' = [builder EXCEPT ![b] = new]
        /\ UNCHANGED <<lifecycleVars, registered, bundles, gateway, newest, restarts>>
    <3>1. /\ builder' = [builder EXCEPT ![b].pc = "referred", ![b].entries = entries]
          /\ UNCHANGED <<lifecycleVars, registered, bundles, gateway, newest, restarts>>
        BY <1>6 DEF BuildRefer, entries
    <3>. QED BY <1>1, <3>1
  <2>. HIDE DEF new
  <2>. QED BY <1>3, <2>1, <2>4, <2>5, <2>6
<1>8. ASSUME NEW b \in Builders, BuildNumber(b)
      PROVE  DistributionInv'
  <2>. DEFINE new == [builder[b] EXCEPT !.pc = "numbered", !.seq = Len(bundles) + 1]
  <2>1. builder[b] \in [pc : {"idle", "picked", "referred", "numbered"},
                        picks : SUBSET [v : Versions, intact : BOOLEAN],
                        entries : SUBSET Entries, seq : 0 .. MaxBundles + 1]
      BY <1>1
  <2>2. Len(bundles) + 1 \in 0 .. MaxBundles + 1
      BY <1>1
  <2>3. new \in [pc : {"idle", "picked", "referred", "numbered"},
                 picks : SUBSET [v : Versions, intact : BOOLEAN],
                 entries : SUBSET Entries, seq : 0 .. MaxBundles + 1]
        /\ new.picks = builder[b].picks /\ new.entries = builder[b].entries
      BY <2>1, <2>2
  <2>4. Sound(builder[b].picks) /\ Sound(builder[b].entries)
      BY <1>1 DEF SoundBuilds
  <2>5. /\ builder' = [builder EXCEPT ![b] = new]
        /\ UNCHANGED <<lifecycleVars, registered, bundles, gateway, newest, restarts>>
    <3>1. /\ builder' = [builder EXCEPT ![b].pc = "numbered", ![b].seq = Len(bundles) + 1]
          /\ UNCHANGED <<lifecycleVars, registered, bundles, gateway, newest, restarts>>
        BY <1>8 DEF BuildNumber
    <3>. QED BY <1>1, <3>1
  <2>. HIDE DEF new
  <2>. QED BY <1>3, <2>3, <2>4, <2>5
<1>7. ASSUME NEW b \in Builders, BuildCommit(b)
      PROVE  DistributionInv'
  <2>1. IdleBuilder \in [pc : {"idle", "picked", "referred", "numbered"},
                         picks : SUBSET [v : Versions, intact : BOOLEAN],
                         entries : SUBSET Entries, seq : 0 .. MaxBundles + 1]
        /\ IdleBuilder.picks = {} /\ IdleBuilder.entries = {}
      BY <1>1 DEF IdleBuilder
  <2>2. /\ builder' = [builder EXCEPT ![b] = IdleBuilder]
        /\ UNCHANGED <<lifecycleVars, registered, gateway, newest, restarts>>
        /\ \/ bundles' = bundles
           \/ bundles' = Append(bundles, builder[b].entries) /\ Len(bundles) < MaxBundles
      BY <1>7 DEF BuildCommit
  <2>. QED BY <1>2, <1>3, <2>1, <2>2
<1>. QED BY <1>4, <1>5, <1>6, <1>7, <1>8 DEF Build

-----------------------------------------------------------------------------
(* The gateway. *)

\* A step of the gateway keeps what the rest of the invariant says.
LEMMA GatewayStep ==
    ASSUME DistributionInv, UNCHANGED <<lifecycleVars, registered, bundles, builder>>,
           gateway' \in [lastSeq : Seqs, pulled : Seqs, channel : Seqs, taken : Seqs, index : Seqs],
           newest' \in Seqs, restarts' \in 0 .. MaxRestarts,
           \A n \in {gateway'.channel, gateway'.taken, gateway'.index} : n # 0 => Verify(n),
           Ordered'
    PROVE  DistributionInv'
<1>1. LifecycleInv'
    BY LifecycleInvNext DEF DistributionInv
<1>3. TypeOK'
    BY <1>1 DEF DistributionInv, TypeOK, LifecycleInv, Seqs
<1>4. SoundBuilds'
  <2>1. audit' = audit
      BY DEF lifecycleVars
  <2>. QED BY <2>1 DEF DistributionInv, SoundBuilds, Sound, Known, MayApprove, Authorized
<1>5. Verified'
    BY DEF Verified, Verify
<1>. QED BY <1>1, <1>3, <1>4, <1>5 DEF DistributionInv

\* The larger of two numbers that are in order.
LEMMA MaxOfOrdered ==
    ASSUME NEW m \in Nat, NEW n \in Nat, n >= m
    PROVE  Max({m, n}) = n
BY DEF Max

\* Moving a bundle along the gateway keeps the type of its slots.
LEMMA SlotsType ==
    ASSUME NEW S, NEW g \in [lastSeq : S, pulled : S, channel : S, taken : S, index : S],
           NEW n \in S, NEW zero \in S
    PROVE  /\ [g EXCEPT !.pulled = zero, !.lastSeq = n, !.channel = n]
                 \in [lastSeq : S, pulled : S, channel : S, taken : S, index : S]
           /\ [g EXCEPT !.taken = n, !.channel = zero]
                 \in [lastSeq : S, pulled : S, channel : S, taken : S, index : S]
           /\ [g EXCEPT !.index = n, !.taken = zero]
                 \in [lastSeq : S, pulled : S, channel : S, taken : S, index : S]
OBVIOUS

\* What each step of the bundle client does to the order of bundles.
LEMMA GatewayPreserves ==
    ASSUME DistributionInv, Client \/ PullLost \/ Restart
    PROVE  DistributionInv' /\ (gateway'.index # 0 => gateway'.index >= newest)
<1>1. /\ Verified /\ Ordered /\ Len(bundles) \in Nat /\ Seqs = 0 .. Len(bundles)
      /\ gateway \in [lastSeq : Seqs, pulled : Seqs, channel : Seqs, taken : Seqs, index : Seqs]
      /\ newest \in Seqs /\ restarts \in 0 .. MaxRestarts
    BY DEF DistributionInv, TypeOK, Seqs
<1>2. /\ newest <= Len(bundles) /\ newest \in Nat
      /\ gateway.lastSeq \in Nat /\ gateway.pulled \in Nat /\ gateway.channel \in Nat
      /\ gateway.taken \in Nat /\ gateway.index \in Nat
    BY <1>1
<1>0. gateway.pulled \in Seqs /\ gateway.channel \in Seqs /\ gateway.taken \in Seqs /\ 0 \in Seqs
    BY <1>1
<1>3. CASE Pull
  <2>1. /\ UNCHANGED <<lifecycleVars, registered, bundles, builder, newest, restarts>>
        /\ gateway' = [gateway EXCEPT !.pulled = Len(bundles)]
        /\ Len(bundles) > gateway.lastSeq
      BY <1>3 DEF Pull
  <2>2. gateway' \in [lastSeq : Seqs, pulled : Seqs, channel : Seqs, taken : Seqs, index : Seqs]
      BY <1>1, <2>1
  <2>3. /\ gateway'.pulled = Len(bundles) /\ gateway'.lastSeq = gateway.lastSeq
        /\ gateway'.channel = gateway.channel /\ gateway'.taken = gateway.taken
        /\ gateway'.index = gateway.index
      BY <1>1, <2>1
  <2>4. Ordered'
      BY <1>1, <1>2, <2>1, <2>3 DEF Ordered
  <2>5. \A n \in {gateway'.channel, gateway'.taken, gateway'.index} : n # 0 => Verify(n)
      BY <1>1, <2>3 DEF Verified
  <2>. QED BY <1>1, <1>2, <2>1, <2>2, <2>3, <2>4, <2>5, GatewayStep DEF Ordered
<1>4. CASE PullLost \/ (Deliver /\ ~Verify(gateway.pulled))
  <2>1. /\ UNCHANGED <<lifecycleVars, registered, bundles, builder, newest, restarts>>
        /\ gateway' = [gateway EXCEPT !.pulled = 0]
      BY <1>4 DEF PullLost, Deliver
  <2>2. gateway' \in [lastSeq : Seqs, pulled : Seqs, channel : Seqs, taken : Seqs, index : Seqs]
      BY <1>1, <2>1
  <2>3. /\ gateway'.pulled = 0 /\ gateway'.lastSeq = gateway.lastSeq
        /\ gateway'.channel = gateway.channel /\ gateway'.taken = gateway.taken
        /\ gateway'.index = gateway.index
      BY <1>1, <2>1
  <2>4. Ordered'
      BY <1>1, <2>1, <2>3 DEF Ordered
  <2>5. \A n \in {gateway'.channel, gateway'.taken, gateway'.index} : n # 0 => Verify(n)
      BY <1>1, <2>3 DEF Verified
  <2>. QED BY <1>1, <1>2, <2>1, <2>2, <2>3, <2>4, <2>5, GatewayStep DEF Ordered
<1>5. CASE Deliver /\ Verify(gateway.pulled)
  <2>1. /\ UNCHANGED <<lifecycleVars, registered, bundles, builder, newest, restarts>>
        /\ gateway' = [gateway EXCEPT !.pulled = 0, !.lastSeq = gateway.pulled,
                                      !.channel = gateway.pulled]
        /\ gateway.pulled # 0
      BY <1>5 DEF Deliver
  <2>2. gateway' \in [lastSeq : Seqs, pulled : Seqs, channel : Seqs, taken : Seqs, index : Seqs]
      BY <1>1, <1>0, <2>1, SlotsType
  <2>3. /\ gateway'.pulled = 0 /\ gateway'.lastSeq = gateway.pulled
        /\ gateway'.channel = gateway.pulled /\ gateway'.taken = gateway.taken
        /\ gateway'.index = gateway.index
      BY <1>1, <2>1
  <2>4. Ordered'
      BY <1>1, <1>2, <2>1, <2>3 DEF Ordered
  <2>5. \A n \in {gateway'.channel, gateway'.taken, gateway'.index} : n # 0 => Verify(n)
      BY <1>1, <1>5, <2>3 DEF Verified
  <2>. QED BY <1>1, <1>2, <2>1, <2>2, <2>3, <2>4, <2>5, GatewayStep DEF Ordered
<1>6. CASE Take
  <2>1. /\ UNCHANGED <<lifecycleVars, registered, bundles, builder, newest, restarts>>
        /\ gateway' = [gateway EXCEPT !.taken = gateway.channel, !.channel = 0]
        /\ gateway.channel # 0
      BY <1>6 DEF Take
  <2>2. gateway' \in [lastSeq : Seqs, pulled : Seqs, channel : Seqs, taken : Seqs, index : Seqs]
      BY <1>1, <1>0, <2>1, SlotsType
  <2>3. /\ gateway'.pulled = gateway.pulled /\ gateway'.lastSeq = gateway.lastSeq
        /\ gateway'.channel = 0 /\ gateway'.taken = gateway.channel
        /\ gateway'.index = gateway.index
      BY <1>1, <2>1
  <2>4. Ordered'
      BY <1>1, <1>2, <2>1, <2>3 DEF Ordered
  <2>5. \A n \in {gateway'.channel, gateway'.taken, gateway'.index} : n # 0 => Verify(n)
      BY <1>1, <2>3 DEF Verified
  <2>. QED BY <1>1, <1>2, <2>1, <2>2, <2>3, <2>4, <2>5, GatewayStep DEF Ordered
<1>7. CASE Install
  <2>1. /\ UNCHANGED <<lifecycleVars, registered, bundles, builder, restarts>>
        /\ gateway' = [gateway EXCEPT !.index = gateway.taken, !.taken = 0]
        /\ newest' = Max({newest, gateway.taken})
        /\ gateway.taken # 0
      BY <1>7 DEF Install
  <2>2. gateway' \in [lastSeq : Seqs, pulled : Seqs, channel : Seqs, taken : Seqs, index : Seqs]
      BY <1>1, <1>0, <2>1, SlotsType
  <2>3. /\ gateway'.pulled = gateway.pulled /\ gateway'.lastSeq = gateway.lastSeq
        /\ gateway'.channel = gateway.channel /\ gateway'.taken = 0
        /\ gateway'.index = gateway.taken
      BY <1>1, <2>1
  <2>4. gateway.taken >= newest
      BY <1>1, <2>1 DEF Ordered
  <2>5. newest' = gateway.taken
      BY <1>2, <2>1, <2>4, MaxOfOrdered
  <2>6. Ordered'
      BY <1>1, <1>2, <2>1, <2>3, <2>4, <2>5 DEF Ordered
  <2>7. \A n \in {gateway'.channel, gateway'.taken, gateway'.index} : n # 0 => Verify(n)
      BY <1>1, <2>3 DEF Verified
  <2>8. newest' \in Seqs
      BY <1>1, <2>5
  <2>. QED BY <1>1, <1>2, <2>1, <2>2, <2>3, <2>4, <2>6, <2>7, <2>8, GatewayStep
<1>8. CASE Restart
  <2>1. /\ UNCHANGED <<lifecycleVars, registered, bundles, builder, newest>>
        /\ gateway' = StartedGateway /\ restarts' \in 0 .. MaxRestarts
      BY <1>1, <1>8, DistributionAssumption DEF Restart
  <2>2. gateway' \in [lastSeq : Seqs, pulled : Seqs, channel : Seqs, taken : Seqs, index : Seqs]
      BY <1>1, <2>1 DEF StartedGateway
  <2>3. Ordered'
      BY <2>1 DEF Ordered, StartedGateway
  <2>4. \A n \in {gateway'.channel, gateway'.taken, gateway'.index} : n = 0
      BY <2>1 DEF StartedGateway
  <2>. QED BY <1>1, <2>1, <2>2, <2>3, <2>4, GatewayStep
<1>. QED BY <1>3, <1>4, <1>5, <1>6, <1>7, <1>8 DEF Client

\* Every step preserves the invariant.
LEMMA DistributionInvNext == DistributionInv /\ [Next]_vars => DistributionInv'
<1>. SUFFICES ASSUME DistributionInv, [Next]_vars PROVE DistributionInv'
    OBVIOUS
<1>1. CASE Registry
    BY <1>1, RegistryPreserves DEF Registry
<1>2. CASE UNCHANGED vars
    BY <1>2, RegistryPreserves DEF vars
<1>. QED BY <1>1, <1>2, BuildPreserves, GatewayPreserves DEF Next

-----------------------------------------------------------------------------
(* The theorems. *)

\* The inductive invariant holds of every reachable state.
THEOREM DistributionInvariant == Spec => []DistributionInv
    BY DistributionInvInit, DistributionInvNext, PTL DEF Spec

\* Bundles, builds and the gateway keep their types.
THEOREM DistributionTypeCorrect == Spec => []TypeOK
    BY DistributionInvariant, PTL DEF DistributionInv

\* The bundle that is served is one of the bundles.
LEMMA ServedIsBuilt ==
    ASSUME DistributionInv, gateway.index # 0
    PROVE  gateway.index \in DOMAIN bundles
BY DEF DistributionInv, TypeOK, Seqs

\* A gateway enforces intact documents of versions that somebody who may
\* approve, or rule AA-1, approved on record.
THEOREM DistributionEnforcedWasApproved == Spec => []EnforcedWasApproved
<1>1. DistributionInv => EnforcedWasApproved
  <2>. SUFFICES ASSUME DistributionInv, gateway.index # 0, NEW e \in bundles[gateway.index]
                PROVE  e.intact /\ Known(e.v)
      BY DEF EnforcedWasApproved, Known
  <2>1. e.intact
      BY DEF DistributionInv, Verified, Verify
  <2>2. Known(e.v)
      BY ServedIsBuilt DEF DistributionInv, SoundBuilds, Sound
  <2>. QED BY <2>1, <2>2
<1>. QED BY <1>1, DistributionInvariant, PTL

\* One step never installs an older bundle than has been served.
LEMMA NeverOlderStep ==
    ASSUME DistributionInv, [Next]_vars
    PROVE  [gateway'.index # 0 => gateway'.index >= newest]_gateway
<1>. SUFFICES ASSUME gateway' # gateway PROVE gateway'.index # 0 => gateway'.index >= newest
    OBVIOUS
<1>1. Client \/ PullLost \/ Restart
    BY DEF Next, vars, distributionVars, Registry, RegisterDetector, Build, BuildPick,
           BuildRefer, BuildNumber, BuildCommit
<1>. QED BY <1>1, GatewayPreserves

\* No gateway, restarted or not, goes back to a bundle older than one served
\* before, for any number of bundles and restarts.
THEOREM DistributionNeverOlder == Spec => NeverOlder
    BY DistributionInvariant, NeverOlderStep, PTL DEF Spec, NeverOlder
=============================================================================
