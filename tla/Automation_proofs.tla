-------------------------- MODULE Automation_proofs --------------------------
(***************************************************************************)
(* Proofs about the automation plane, for any policies, profiles, rule     *)
(* lists, feeds, feedback, texts and reviewers: the state is of its types; *)
(* the override trace explains what is compiled from any list of layers;   *)
(* what no person approved extends an approved version by new rules and    *)
(* nothing else (rule AA-1), although a feed reads and posts in separate   *)
(* requests; what the synthesizer and the tuner propose is what they       *)
(* promise.                                                                *)
(*                                                                         *)
(* A feed writes on what it read without a lock.  The proof rests on what  *)
(* nobody takes back: a version's document and the fact of its approval.   *)
(* What a loop over a list computes is found by its invariant: among the   *)
(* steps where it does not hold there would be a first one (LeastNatural). *)
(***************************************************************************)
EXTENDS Automation, FiniteSetTheorems, WellFoundedInduction, TLAPS

-----------------------------------------------------------------------------
(* Least elements, and sequences.                                           *)

\* A non-empty set of natural numbers has a least element.
LEMMA LeastNatural ==
    ASSUME NEW T \in SUBSET Nat, T # {}
    PROVE  \E x \in T : \A y \in T : x <= y
<1> DEFINE R == OpToRel(<, Nat)
<1>1. IsWellFoundedOn(R, Nat)
  BY NatLessThanWellFounded
<1> HIDE DEF R
<1>2. PICK x \in T : \A y \in T : ~ (<<y, x>> \in R)
  BY <1>1, WFMin
<1>3. \A y \in T : y < x => <<y, x>> \in R
  BY DEF R, OpToRel
<1>4. ASSUME NEW y \in T PROVE x <= y
  <2>1. x \in Nat /\ y \in Nat
    OBVIOUS
  <2>2. ~(y < x)
    BY <1>2, <1>3
  <2> QED BY <2>1, <2>2
<1> QED BY <1>4

\* A non-empty set of positions has a last one.
LEMMA LastPosition ==
    ASSUME NEW n \in Nat, NEW T \in SUBSET (1 .. n), T # {}
    PROVE  \E i \in T : \A j \in T : j <= i
<1> DEFINE D == {n - i : i \in T}
<1>1. D \in SUBSET Nat /\ D # {}
  <2>1. \A i \in T : n - i \in Nat
    OBVIOUS
  <2> QED BY <2>1
<1>2. PICK d \in D : \A e \in D : d <= e
  <2> HIDE DEF D
  <2> QED BY <1>1, LeastNatural
<1>3. PICK i \in T : d = n - i
  OBVIOUS
<1>4. ASSUME NEW j \in T PROVE j <= i
  <2>1. n - j \in D
    OBVIOUS
  <2> QED BY <1>2, <1>3, <2>1
<1> QED BY <1>4

\* Appending to a sequence adds the element to what it holds.
LEMMA ToSetAppend ==
    ASSUME NEW T, NEW s \in Seq(T), NEW e \in T
    PROVE  /\ Append(s, e) \in Seq(T) /\ Len(Append(s, e)) = Len(s) + 1
           /\ ToSet(Append(s, e)) = ToSet(s) \cup {e}
<1>1. Append(s, e) \in Seq(T) /\ Len(Append(s, e)) = Len(s) + 1
  OBVIOUS
<1>2. /\ DOMAIN Append(s, e) = 1 .. Len(s) + 1 /\ DOMAIN s = 1 .. Len(s)
      /\ \A i \in 1 .. Len(s) : Append(s, e)[i] = s[i]
      /\ Append(s, e)[Len(s) + 1] = e /\ Len(s) \in Nat
  OBVIOUS
<1>3. ToSet(Append(s, e)) = ToSet(s) \cup {e}
  BY <1>2 DEF ToSet
<1> QED BY <1>1, <1>3

\* The last approved of a sequence that holds all approved versions is approved.
LEMMA LastApprovedIsApproved ==
    ASSUME NEW S, NEW s \in Seq(S), Approved \subseteq ToSet(s), Approved # {}
    PROVE  LastApproved(s) \in Approved
<1> DEFINE T == {i \in DOMAIN s : s[i] \in Approved}
<1>1. DOMAIN s = 1 .. Len(s) /\ Len(s) \in Nat
  OBVIOUS
<1>2. T # {} /\ T \in SUBSET (1 .. Len(s))
  BY <1>1 DEF ToSet
<1>3. \E i \in T : \A j \in T : j <= i
  <2> HIDE DEF T
  <2> QED BY <1>1, <1>2, LastPosition
<1>4. \E i \in DOMAIN s : /\ s[i] \in Approved
                          /\ \A j \in DOMAIN s : s[j] \in Approved => j <= i
  BY <1>3
<1> QED BY <1>4 DEF LastApproved

-----------------------------------------------------------------------------
(* Lists and layers of documents.                                           *)

\* One step of the loop over a list, of which some positions are kept.
Kept(f, n, s, positions) ==
    IF n = 0 THEN <<>>
    ELSE IF n \in positions THEN Append(f[n - 1], s[n])
    ELSE f[n - 1]

IsKept(f, m, s, positions) == f = [n \in 0 .. m |-> Kept(f, n, s, positions)]

\* The loop has a result for every prefix of the list.
LEMMA KeptExists ==
    ASSUME NEW s, NEW positions, NEW len \in Nat
    PROVE  \E f : IsKept(f, len, s, positions)
<1> DEFINE Bad == {m \in 0 .. len : ~\E f : IsKept(f, m, s, positions)}
<1>1. Bad = {}
  <2> SUFFICES ASSUME Bad # {} PROVE FALSE
    OBVIOUS
  <2>1. Bad \in SUBSET Nat
    OBVIOUS
  <2>2. PICK m \in Bad : \A k \in Bad : m <= k
    <3> HIDE DEF Bad
    <3> QED BY <2>1, LeastNatural
  <2>3. ASSUME m = 0 PROVE FALSE
    <3> DEFINE f == [n \in 0 .. 0 |-> <<>>]
    <3>1. IsKept(f, 0, s, positions)
      BY DEF Kept, IsKept
    <3> HIDE DEF f
    <3> QED BY <2>3, <3>1
  <2>4. ASSUME m # 0 PROVE FALSE
    <3>1. m - 1 \in 0 .. len /\ ~(m <= m - 1) /\ m \in Nat
      BY <2>4
    <3>2. PICK f : IsKept(f, m - 1, s, positions)
      BY <2>2, <3>1
    <3> DEFINE g == [n \in 0 .. m |-> IF n = m THEN Kept(f, m, s, positions) ELSE f[n]]
    <3>3. ASSUME NEW n \in 0 .. m PROVE g[n] = Kept(g, n, s, positions)
      <4>1. n # 0 => g[n - 1] = f[n - 1]
        BY <3>1
      <4>2. Kept(g, n, s, positions) = Kept(f, n, s, positions)
        BY <4>1 DEF Kept
      <4>3. n # m => n \in 0 .. m - 1
        BY <3>1
      <4>4. n # m => f[n] = Kept(f, n, s, positions)
        BY <3>2, <4>3 DEF IsKept
      <4> QED BY <4>2, <4>4
    <3>4. IsKept(g, m, s, positions)
      <4>1. g = [n \in 0 .. m |-> g[n]]
        OBVIOUS
      <4> HIDE DEF g
      <4> QED BY <3>3, <4>1 DEF IsKept
    <3> HIDE DEF g
    <3> QED BY <3>4
  <2> QED BY <2>3, <2>4
<1>2. len \in 0 .. len
  OBVIOUS
<1> QED BY <1>1, <1>2

\* So it keeps the elements at the positions, and no others.
LEMMA ElementsAtHolds ==
    ASSUME NEW S, NEW s \in Seq(S), NEW positions
    PROVE  /\ ElementsAt(s, positions) \in Seq(S)
           /\ ToSet(ElementsAt(s, positions)) = {s[i] : i \in DOMAIN s \cap positions}
<1> DEFINE loop == CHOOSE f : f = [n \in 0 .. Len(s) |->
                      IF n = 0 THEN <<>>
                      ELSE IF n \in positions THEN Append(f[n - 1], s[n])
                      ELSE f[n - 1]]
<1>1. ElementsAt(s, positions) = loop[Len(s)]
  BY DEF ElementsAt
<1>2. \E f : f = [n \in 0 .. Len(s) |->
                      IF n = 0 THEN <<>>
                      ELSE IF n \in positions THEN Append(f[n - 1], s[n])
                      ELSE f[n - 1]]
  <2> Len(s) \in Nat
    OBVIOUS
  <2>1. PICK f : IsKept(f, Len(s), s, positions)
    BY KeptExists
  <2>2. f = [n \in 0 .. Len(s) |->
                      IF n = 0 THEN <<>>
                      ELSE IF n \in positions THEN Append(f[n - 1], s[n])
                      ELSE f[n - 1]]
    BY <2>1 DEF IsKept, Kept
  <2> QED BY <2>2
<1>3. IsKept(loop, Len(s), s, positions)
  BY <1>2 DEF IsKept, Kept
<1> HIDE DEF loop
<1>4. \A m \in 0 .. Len(s) : loop[m] = Kept(loop, m, s, positions)
  BY <1>3 DEF IsKept
<1> DEFINE Ok(m) == /\ loop[m] \in Seq(S)
                    /\ ToSet(loop[m]) = {s[i] : i \in (1 .. m) \cap positions}
           Bad == {m \in 0 .. Len(s) : ~Ok(m)}
<1>5. Bad = {}
  <2> SUFFICES ASSUME Bad # {} PROVE FALSE
    OBVIOUS
  <2>1. Bad \in SUBSET Nat
    OBVIOUS
  <2>2. PICK m \in Bad : \A k \in Bad : m <= k
    <3> HIDE DEF Bad
    <3> QED BY <2>1, LeastNatural
  <2>3. m \in 0 .. Len(s) /\ Len(s) \in Nat
    OBVIOUS
  <2>4. ASSUME m = 0 PROVE FALSE
    <3>1. loop[0] = <<>>
      BY <1>4, <2>3, <2>4 DEF Kept
    <3>2. <<>> \in Seq(S) /\ ToSet(<<>>) = {} /\ 1 .. 0 = {}
      BY DEF ToSet
    <3> QED BY <2>2, <2>4, <3>1, <3>2
  <2>5. ASSUME m # 0 PROVE FALSE
    <3>1. m - 1 \in 0 .. Len(s) /\ ~(m <= m - 1) /\ m \in 1 .. Len(s) /\ m \in Nat
      BY <2>3, <2>5
    <3>2. loop[m - 1] \in Seq(S) /\ ToSet(loop[m - 1]) = {s[i] : i \in (1 .. (m - 1)) \cap positions}
      BY <2>2, <3>1
    <3>3. s[m] \in S
      BY <3>1
    <3>4. 1 .. m = 1 .. (m - 1) \cup {m}
      BY <3>1
    <3>5. CASE m \notin positions
      <4>1. loop[m] = loop[m - 1]
        BY <1>4, <2>3, <2>5, <3>5 DEF Kept
      <4>2. (1 .. m) \cap positions = (1 .. (m - 1)) \cap positions
        BY <3>4, <3>5
      <4> QED BY <2>2, <3>2, <4>1, <4>2
    <3>6. CASE m \in positions
      <4>1. loop[m] = Append(loop[m - 1], s[m])
        BY <1>4, <2>3, <2>5, <3>6 DEF Kept
      <4>2. (1 .. m) \cap positions = ((1 .. (m - 1)) \cap positions) \cup {m}
        BY <3>4, <3>6
      <4>3. /\ Append(loop[m - 1], s[m]) \in Seq(S)
            /\ ToSet(Append(loop[m - 1], s[m])) = ToSet(loop[m - 1]) \cup {s[m]}
        BY <3>2, <3>3, ToSetAppend
      <4>4. {s[i] : i \in (1 .. m) \cap positions}
              = {s[i] : i \in (1 .. (m - 1)) \cap positions} \cup {s[m]}
        BY <4>2
      <4> QED BY <2>2, <3>2, <4>1, <4>3, <4>4
    <3> QED BY <3>5, <3>6
  <2> QED BY <2>4, <2>5
<1>6. Len(s) \in 0 .. Len(s) /\ DOMAIN s = 1 .. Len(s)
  OBVIOUS
<1>7. loop[Len(s)] \in Seq(S) /\ ToSet(loop[Len(s)]) = {s[i] : i \in DOMAIN s \cap positions}
  BY <1>5, <1>6
<1> QED BY <1>1, <1>7

\* The last of the guards with an id is one of them.
LEMMA LastWithIsThere ==
    ASSUME NEW S, NEW guards \in Seq(S), NEW id \in Ids(guards)
    PROVE  LastWith(guards, id) \in ToSet(guards) /\ LastWith(guards, id).id = id
<1> DEFINE at == {i \in DOMAIN guards : guards[i].id = id}
           last == CHOOSE i \in at : \A j \in at : j <= i
<1>1. at \in SUBSET (1 .. Len(guards)) /\ Len(guards) \in Nat /\ at # {}
  BY DEF Ids
<1>2. LastWith(guards, id) = guards[last]
  BY DEF LastWith, LastOf
<1>3. last \in at
  <2> HIDE DEF at
  <2>1. \E i \in at : \A j \in at : j <= i
    BY <1>1, LastPosition
  <2> QED BY <2>1
<1> HIDE DEF last
<1> QED BY <1>2, <1>3 DEF ToSet

\* What a guard becomes under a layer.
MergedGuard(guard, child) ==
    IF guard.id \in Ids(child) THEN Overlay(LastWith(child, guard.id), guard) ELSE guard

Dropped(guard, child) == guard.id \in Ids(child) /\ Removes(LastWith(child, guard.id))

\* The guards of a merged document.
LEMMA MergedGuards ==
    ASSUME NEW S, NEW parent \in Seq(S), NEW T, NEW child \in Seq(T)
    PROVE  /\ MergeGuards(parent, child) \in Seq(ToSet(MergeGuards(parent, child)))
           /\ ToSet(MergeGuards(parent, child)) =
                {MergedGuard(g, child) : g \in {h \in ToSet(parent) : ~Dropped(h, child)}}
                  \cup {g \in ToSet(child) : g.id \notin Ids(parent) /\ ~Removes(g)}
<1> DEFINE stays == {i \in DOMAIN parent : ~Dropped(parent[i], child)}
           comes == {i \in DOMAIN child : child[i].id \notin Ids(parent) /\ ~Removes(child[i])}
           kept == ElementsAt(parent, stays)
           added == ElementsAt(child, comes)
           front == [i \in DOMAIN kept |-> MergedGuard(kept[i], child)]
<1>1. MergeGuards(parent, child) = front \o added
  BY DEF MergeGuards, MergedGuard, Dropped
<1>2. kept \in Seq(S) /\ ToSet(kept) = {parent[i] : i \in DOMAIN parent \cap stays}
  <2> HIDE DEF stays
  <2> QED BY ElementsAtHolds
<1>3. added \in Seq(T) /\ ToSet(added) = {child[i] : i \in DOMAIN child \cap comes}
  <2> HIDE DEF comes
  <2> QED BY ElementsAtHolds
<1>4. ToSet(kept) = {h \in ToSet(parent) : ~Dropped(h, child)}
  BY <1>2 DEF ToSet
<1>5. ToSet(added) = {g \in ToSet(child) : g.id \notin Ids(parent) /\ ~Removes(g)}
  BY <1>3 DEF ToSet
<1> HIDE DEF kept, added
<1>6. /\ DOMAIN front = 1 .. Len(kept) /\ Len(kept) \in Nat
      /\ ToSet(front) = {MergedGuard(g, child) : g \in ToSet(kept)}
  <2>1. DOMAIN kept = 1 .. Len(kept) /\ Len(kept) \in Nat
    BY <1>2
  <2> QED BY <2>1 DEF ToSet
<1>7. front \in Seq(ToSet(front))
  <2>1. front = [i \in 1 .. Len(kept) |-> front[i]] /\ \A i \in 1 .. Len(kept) : front[i] \in ToSet(front)
    BY <1>6 DEF ToSet
  <2> HIDE DEF front
  <2> QED BY <1>6, <2>1
<1> HIDE DEF front
<1>8. ToSet(front \o added) = ToSet(front) \cup ToSet(added) /\ front \o added \in Seq(ToSet(front \o added))
  <2>1. /\ DOMAIN front = 1 .. Len(front) /\ Len(front) \in Nat
        /\ DOMAIN added = 1 .. Len(added) /\ Len(added) \in Nat
        /\ DOMAIN (front \o added) = 1 .. Len(front) + Len(added)
        /\ \A i \in 1 .. Len(front) + Len(added) :
             (front \o added)[i] = IF i <= Len(front) THEN front[i] ELSE added[i - Len(front)]
    BY <1>3, <1>7
  <2>2. \A i \in 1 .. Len(front) : (front \o added)[i] = front[i] /\ i \in DOMAIN (front \o added)
    BY <2>1
  <2>3. ASSUME NEW i \in 1 .. Len(added)
        PROVE  /\ (front \o added)[Len(front) + i] = added[i]
               /\ Len(front) + i \in DOMAIN (front \o added)
    <3>1. Len(front) + i \in 1 .. Len(front) + Len(added) /\ ~(Len(front) + i <= Len(front))
          /\ (Len(front) + i) - Len(front) = i
      BY <2>1
    <3> QED BY <2>1, <3>1
  <2>4. \A i \in 1 .. Len(front) + Len(added) :
          i \in 1 .. Len(front) \/ i - Len(front) \in 1 .. Len(added)
    BY <2>1
  <2>5. ToSet(front \o added) \subseteq ToSet(front) \cup ToSet(added)
    BY <2>1, <2>4 DEF ToSet
  <2>6. ToSet(front) \subseteq ToSet(front \o added)
    BY <2>1, <2>2 DEF ToSet
  <2>7. ToSet(added) \subseteq ToSet(front \o added)
    BY <2>1, <2>3 DEF ToSet
  <2>8. front \o added \in Seq(ToSet(front) \cup ToSet(added))
    <3>1. added \in Seq(ToSet(added))
      <4>1. added = [i \in 1 .. Len(added) |-> added[i]] /\ \A i \in 1 .. Len(added) : added[i] \in ToSet(added)
        BY <1>3, <2>1 DEF ToSet
      <4> QED BY <2>1, <4>1
    <3>2. front \in Seq(ToSet(front) \cup ToSet(added)) /\ added \in Seq(ToSet(front) \cup ToSet(added))
      BY <1>7, <3>1
    <3> QED BY <3>2
  <2>9. ToSet(front \o added) = ToSet(front) \cup ToSet(added)
    BY <2>5, <2>6, <2>7
  <2> QED BY <2>8, <2>9
<1> QED BY <1>1, <1>4, <1>5, <1>6, <1>8

\* A guard that a layer may bring.
IsLayerGuard(guard) ==
    /\ "id" \in DOMAIN guard /\ guard.id # None
    /\ DOMAIN guard \cap {"ADDED", "REMOVED"} = {}
    /\ "rules" \in DOMAIN guard => guard.rules \in Seq(ToSet(guard.rules))

LEMMA LayerGuards ==
    ASSUME NEW doc
    PROVE  IsLayer(doc) <=> /\ doc.guards \in Seq(ToSet(doc.guards))
                            /\ \A g \in ToSet(doc.guards) : IsLayerGuard(g)
<1>1. IsLayer(doc) <=> /\ doc.guards \in Seq(ToSet(doc.guards))
                       /\ \A i \in DOMAIN doc.guards : IsLayerGuard(doc.guards[i])
  BY DEF IsLayer, IsLayerGuard
<1> QED BY <1>1 DEF ToSet

\* The identifiers of a list of guards.
LEMMA IdsAreIds == ASSUME NEW guards PROVE Ids(guards) = {g.id : g \in ToSet(guards)}
  BY DEF Ids, ToSet

\* A value that takes precedence.
LEMMA OverlayHas ==
    ASSUME NEW over, NEW under
    PROVE  /\ DOMAIN Overlay(over, under) = DOMAIN over \cup DOMAIN under
           /\ \A f \in DOMAIN over : Overlay(over, under)[f] = over[f]
           /\ \A f \in DOMAIN under \ DOMAIN over : Overlay(over, under)[f] = under[f]
  BY DEF Overlay

\* The trace of one merge, entry by entry.
LEMMA SpecEntries ==
    ASSUME NEW parent, IsLayer(parent), NEW child, IsLayer(child), NEW f
    PROVE  <<None, f>> \in Entries(parent, child) <=> f \in Overridden(parent.spec, child.spec)
<1>1. \A g \in ToSet(parent.guards) \cup ToSet(child.guards) : g.id # None
  BY LayerGuards DEF IsLayerGuard
<1>2. ASSUME NEW i \in DOMAIN parent.guards, parent.guards[i].id \in Ids(child.guards)
      PROVE  LastWith(child.guards, parent.guards[i].id).id # None
  <2>1. child.guards \in Seq(ToSet(child.guards))
    BY DEF IsLayer
  <2> DEFINE id == parent.guards[i].id
  <2>2. id \in Ids(child.guards) /\ id # None
    BY <1>1, <1>2 DEF ToSet
  <2> HIDE DEF id
  <2>3. LastWith(child.guards, id).id = id
    BY <2>1, <2>2, LastWithIsThere
  <2> QED BY <2>2, <2>3 DEF id
<1> DEFINE Theirs(i) == LastWith(child.guards, parent.guards[i].id)
           shared == {i \in DOMAIN parent.guards : parent.guards[i].id \in Ids(child.guards)}
           Of(i) == IF Removes(Theirs(i)) THEN {<<Theirs(i).id, "REMOVED">>}
                    ELSE {<<Theirs(i).id, x>> : x \in Overridden(parent.guards[i], Theirs(i))}
           new == {g \in ToSet(child.guards) : g.id \notin Ids(parent.guards) /\ ~Removes(g)}
<1>3. <<None, f>> \in Entries(parent, child) <=>
        \/ f \in Overridden(parent.spec, child.spec)
        \/ \E i \in shared : <<None, f>> \in Of(i)
        \/ \E g \in new : <<None, f>> = <<g.id, "ADDED">>
  BY DEF Entries
<1>4. ASSUME NEW i \in shared PROVE <<None, f>> \notin Of(i)
  BY <1>2
<1>5. \A g \in new : <<None, f>> # <<g.id, "ADDED">>
  BY <1>1
<1> QED BY <1>3, <1>4, <1>5

LEMMA GuardEntries ==
    ASSUME NEW parent, IsLayer(parent), NEW child, IsLayer(child), NEW id, id # None, NEW x
    PROVE  <<id, x>> \in Entries(parent, child) <=>
             \/ /\ id \in Ids(parent.guards) /\ id \in Ids(child.guards)
                /\ IF Removes(LastWith(child.guards, id)) THEN x = "REMOVED"
                   ELSE \E g \in ToSet(parent.guards) :
                          g.id = id /\ x \in Overridden(g, LastWith(child.guards, id))
             \/ /\ id \notin Ids(parent.guards) /\ x = "ADDED"
                /\ \E g \in ToSet(child.guards) : g.id = id /\ ~Removes(g)
<1> DEFINE Theirs(i) == LastWith(child.guards, parent.guards[i].id)
           shared == {i \in DOMAIN parent.guards : parent.guards[i].id \in Ids(child.guards)}
           Of(i) == IF Removes(Theirs(i)) THEN {<<Theirs(i).id, "REMOVED">>}
                    ELSE {<<Theirs(i).id, f>> : f \in Overridden(parent.guards[i], Theirs(i))}
           new == {g \in ToSet(child.guards) : g.id \notin Ids(parent.guards) /\ ~Removes(g)}
<1>1. \A i \in shared : Theirs(i).id = parent.guards[i].id
  <2>1. child.guards \in Seq(ToSet(child.guards))
    BY DEF IsLayer
  <2> QED BY <2>1, LastWithIsThere
<1>2. <<id, x>> \in Entries(parent, child) <=>
        (\E i \in shared : <<id, x>> \in Of(i)) \/ (\E g \in new : <<id, x>> = <<g.id, "ADDED">>)
  BY DEF Entries
<1>3. ASSUME NEW i \in shared
      PROVE  <<id, x>> \in Of(i) <=>
               /\ parent.guards[i].id = id
               /\ IF Removes(LastWith(child.guards, id)) THEN x = "REMOVED"
                  ELSE x \in Overridden(parent.guards[i], LastWith(child.guards, id))
  <2>1. Theirs(i).id = parent.guards[i].id
    BY <1>1
  <2> QED BY <2>1
<1>4. (\E i \in shared : <<id, x>> \in Of(i)) <=>
        /\ id \in Ids(parent.guards) /\ id \in Ids(child.guards)
        /\ IF Removes(LastWith(child.guards, id)) THEN x = "REMOVED"
           ELSE \E g \in ToSet(parent.guards) :
                  g.id = id /\ x \in Overridden(g, LastWith(child.guards, id))
  <2> HIDE DEF Of
  <2>1. \A i : i \in shared <=> i \in DOMAIN parent.guards /\ parent.guards[i].id \in Ids(child.guards)
    OBVIOUS
  <2> HIDE DEF shared
  <2> QED BY <1>3, <2>1 DEF Ids, ToSet
<1>5. (\E g \in new : <<id, x>> = <<g.id, "ADDED">>) <=>
        /\ id \notin Ids(parent.guards) /\ x = "ADDED"
        /\ \E g \in ToSet(child.guards) : g.id = id /\ ~Removes(g)
  OBVIOUS
<1> QED BY <1>2, <1>4, <1>5

\* What a layer says of a value of the merged document: it set it, and its entries cover
\* it, or they do not and the value is from below.
LEMMA SpecExplained ==
    ASSUME NEW parent, IsLayer(parent), NEW child, IsLayer(child),
           NEW f \in DOMAIN Merge(parent, child).spec
    PROVE  IF <<None, f>> \in Entries(parent, child)
           THEN f \in DOMAIN child.spec /\ child.spec[f] = Merge(parent, child).spec[f]
           ELSE f \in DOMAIN parent.spec /\ parent.spec[f] = Merge(parent, child).spec[f]
<1>1. <<None, f>> \in Entries(parent, child) <=>
        f \in DOMAIN child.spec /\ (f \in DOMAIN parent.spec => parent.spec[f] # child.spec[f])
  BY SpecEntries DEF Overridden
<1>2. Merge(parent, child).spec = Overlay(child.spec, parent.spec)
  BY DEF Merge
<1> DEFINE over == child.spec
           under == parent.spec
           merged == Overlay(over, under)
<1>3. /\ DOMAIN merged = DOMAIN over \cup DOMAIN under
      /\ \A x \in DOMAIN over : merged[x] = over[x]
      /\ \A x \in DOMAIN under \ DOMAIN over : merged[x] = under[x]
  <2> HIDE DEF over, under
  <2> QED BY OverlayHas
<1>4. Merge(parent, child).spec = merged
  BY <1>2
<1> HIDE DEF merged
<1> QED BY <1>1, <1>3, <1>4

LEMMA GuardExplained ==
    ASSUME NEW parent, IsLayer(parent), NEW child, IsLayer(child),
           NEW g \in ToSet(Merge(parent, child).guards), NEW f \in DOMAIN g
    PROVE  IF Entries(parent, child) \cap {<<g.id, f>>, <<g.id, "ADDED">>} # {}
           THEN \E h \in ToSet(child.guards) : h.id = g.id /\ f \in DOMAIN h /\ h[f] = g[f]
           ELSE \E h \in ToSet(parent.guards) : h.id = g.id /\ f \in DOMAIN h /\ h[f] = g[f]
<1> DEFINE E == Entries(parent, child)
<1>1. /\ parent.guards \in Seq(ToSet(parent.guards)) /\ child.guards \in Seq(ToSet(child.guards))
      /\ \A h \in ToSet(parent.guards) \cup ToSet(child.guards) : IsLayerGuard(h)
  BY LayerGuards
<1>2. ToSet(Merge(parent, child).guards) =
        {MergedGuard(h, child.guards) : h \in {k \in ToSet(parent.guards) : ~Dropped(k, child.guards)}}
          \cup {h \in ToSet(child.guards) : h.id \notin Ids(parent.guards) /\ ~Removes(h)}
  BY <1>1, MergedGuards DEF Merge
<1>3. ASSUME NEW id, id # None, NEW x
      PROVE  <<id, x>> \in E <=>
             \/ /\ id \in Ids(parent.guards) /\ id \in Ids(child.guards)
                /\ IF Removes(LastWith(child.guards, id)) THEN x = "REMOVED"
                   ELSE \E h \in ToSet(parent.guards) :
                          h.id = id /\ x \in Overridden(h, LastWith(child.guards, id))
             \/ /\ id \notin Ids(parent.guards) /\ x = "ADDED"
                /\ \E h \in ToSet(child.guards) : h.id = id /\ ~Removes(h)
  BY <1>3, GuardEntries
<1> HIDE DEF E
<1>4. ASSUME g \in ToSet(child.guards), g.id \notin Ids(parent.guards), ~Removes(g)
      PROVE  E \cap {<<g.id, f>>, <<g.id, "ADDED">>} # {}
  <2>1. g.id # None
    BY <1>1, <1>4 DEF IsLayerGuard
  <2> QED BY <1>3, <1>4, <2>1
<1>5. ASSUME NEW k \in ToSet(parent.guards), g = k, k.id \notin Ids(child.guards)
      PROVE  E \cap {<<g.id, f>>, <<g.id, "ADDED">>} = {}
  <2>1. k.id # None /\ k.id \in Ids(parent.guards)
    BY <1>1, IdsAreIds DEF IsLayerGuard
  <2>2. <<k.id, f>> \notin E /\ <<k.id, "ADDED">> \notin E
    BY <1>3, <1>5, <2>1
  <2> QED BY <1>5, <2>2
<1>6. ASSUME NEW k \in ToSet(parent.guards), k.id \in Ids(child.guards),
             ~Removes(LastWith(child.guards, k.id)), g = Overlay(LastWith(child.guards, k.id), k)
      PROVE  IF E \cap {<<g.id, f>>, <<g.id, "ADDED">>} # {}
             THEN \E h \in ToSet(child.guards) : h.id = g.id /\ f \in DOMAIN h /\ h[f] = g[f]
             ELSE k.id = g.id /\ f \in DOMAIN k /\ k[f] = g[f]
  <2> DEFINE last == LastWith(child.guards, k.id)
  <2>1. last \in ToSet(child.guards) /\ last.id = k.id
    BY <1>1, <1>6, LastWithIsThere
  <2>2. IsLayerGuard(last) /\ IsLayerGuard(k)
    BY <1>1, <2>1
  <2>3. /\ DOMAIN g = DOMAIN last \cup DOMAIN k
        /\ \A x \in DOMAIN last : g[x] = last[x]
        /\ \A x \in DOMAIN k \ DOMAIN last : g[x] = k[x]
    <3>1. g = Overlay(last, k)
      BY <1>6
    <3> HIDE DEF last
    <3> DEFINE merged == Overlay(last, k)
    <3>2. /\ DOMAIN merged = DOMAIN last \cup DOMAIN k
          /\ \A x \in DOMAIN last : merged[x] = last[x]
          /\ \A x \in DOMAIN k \ DOMAIN last : merged[x] = k[x]
      BY OverlayHas
    <3>3. g = merged
      BY <3>1
    <3> HIDE DEF merged
    <3> QED BY <3>2, <3>3
  <2>4. k.id \in Ids(parent.guards) /\ k.id # None
    BY <2>2, IdsAreIds DEF IsLayerGuard
  <2>5. \A x : <<k.id, x>> \in E <=>
               \E h \in ToSet(parent.guards) : h.id = k.id /\ x \in Overridden(h, last)
    BY <1>3, <1>6, <2>4
  <2>6. <<k.id, "ADDED">> \notin E
    BY <2>2, <2>5 DEF Overridden, IsLayerGuard
  <2> HIDE DEF last
  <2>7. g.id = k.id
    BY <2>1, <2>2, <2>3 DEF IsLayerGuard
  <2>8. CASE <<k.id, f>> \in E
    <3>1. f \in DOMAIN last
      BY <2>5, <2>8 DEF Overridden
    <3> QED BY <2>1, <2>3, <2>7, <2>8, <3>1
  <2>9. CASE <<k.id, f>> \notin E
    <3>1. E \cap {<<g.id, f>>, <<g.id, "ADDED">>} = {}
      BY <2>6, <2>7, <2>9
    <3>2. f \notin Overridden(k, last)
      BY <2>5, <2>9
    <3>3. f \in DOMAIN k /\ k[f] = g[f]
      BY <2>3, <3>2 DEF Overridden
    <3> QED BY <2>7, <3>1, <3>3
  <2> QED BY <2>8, <2>9
<1>7. CASE g \in {h \in ToSet(child.guards) : h.id \notin Ids(parent.guards) /\ ~Removes(h)}
  BY <1>4, <1>7 DEF E
<1>8. CASE \E k \in ToSet(parent.guards) : ~Dropped(k, child.guards) /\ g = MergedGuard(k, child.guards)
  <2>1. PICK k \in ToSet(parent.guards) : ~Dropped(k, child.guards) /\ g = MergedGuard(k, child.guards)
    BY <1>8
  <2>2. CASE k.id \notin Ids(child.guards)
    <3>1. g = k
      BY <2>1, <2>2 DEF MergedGuard
    <3> QED BY <1>5, <2>2, <3>1 DEF E
  <2>3. CASE k.id \in Ids(child.guards)
    <3>1. g = Overlay(LastWith(child.guards, k.id), k) /\ ~Removes(LastWith(child.guards, k.id))
      BY <2>1, <2>3 DEF MergedGuard, Dropped
    <3> QED BY <1>6, <2>3, <3>1 DEF E
  <2> QED BY <2>2, <2>3
<1> QED BY <1>2, <1>7, <1>8

\* A guard that was there, or that the layer brings, is gone only if its entries say so.
LEMMA RemovalExplained ==
    ASSUME NEW parent, IsLayer(parent), NEW child, IsLayer(child), NEW id,
           \/ id \in Ids(parent.guards)
           \/ \E g \in ToSet(child.guards) : g.id = id /\ ~Removes(g),
           id \notin Ids(Merge(parent, child).guards)
    PROVE  <<id, "REMOVED">> \in Entries(parent, child)
<1>1. /\ parent.guards \in Seq(ToSet(parent.guards)) /\ child.guards \in Seq(ToSet(child.guards))
      /\ \A h \in ToSet(parent.guards) \cup ToSet(child.guards) : IsLayerGuard(h)
  BY LayerGuards
<1>2. ToSet(Merge(parent, child).guards) =
        {MergedGuard(h, child.guards) : h \in {k \in ToSet(parent.guards) : ~Dropped(k, child.guards)}}
          \cup {h \in ToSet(child.guards) : h.id \notin Ids(parent.guards) /\ ~Removes(h)}
  BY <1>1, MergedGuards DEF Merge
<1>3. \A g \in ToSet(Merge(parent, child).guards) : g.id # id
  BY IdsAreIds
<1>4. id \in Ids(parent.guards)
  BY <1>2, <1>3
<1>5. PICK k \in ToSet(parent.guards) : k.id = id
  BY <1>4, IdsAreIds
<1>6. id # None
  BY <1>1, <1>5 DEF IsLayerGuard
<1>7. Dropped(k, child.guards)
  <2> SUFFICES ASSUME ~Dropped(k, child.guards) PROVE FALSE
    OBVIOUS
  <2> DEFINE g == MergedGuard(k, child.guards)
  <2>1. g \in ToSet(Merge(parent, child).guards)
    BY <1>2, <1>5
  <2>2. CASE k.id \notin Ids(child.guards)
    <3>1. g = k
      BY <2>2 DEF MergedGuard
    <3> QED BY <1>3, <1>5, <2>1, <3>1
  <2>3. CASE k.id \in Ids(child.guards)
    <3> DEFINE last == LastWith(child.guards, k.id)
    <3>1. last \in ToSet(child.guards) /\ last.id = k.id
      BY <1>1, <2>3, LastWithIsThere
    <3>2. g = Overlay(last, k)
      BY <2>3 DEF MergedGuard
    <3>3. "id" \in DOMAIN last
      BY <1>1, <3>1 DEF IsLayerGuard
    <3>4. g.id = last.id
      BY <3>2, <3>3 DEF Overlay
    <3> QED BY <1>3, <1>5, <2>1, <3>1, <3>4
  <2> QED BY <2>2, <2>3
<1>8. id \in Ids(child.guards) /\ Removes(LastWith(child.guards, id))
  BY <1>5, <1>7 DEF Dropped
<1> QED BY <1>4, <1>6, <1>8, GuardEntries

\* A merged document is again what a layer can be merged into.
LEMMA MergeIsLayer ==
    ASSUME NEW parent, IsLayer(parent), NEW child, IsLayer(child)
    PROVE  IsLayer(Merge(parent, child))
<1> DEFINE doc == Merge(parent, child)
<1>1. /\ parent.guards \in Seq(ToSet(parent.guards)) /\ child.guards \in Seq(ToSet(child.guards))
      /\ \A h \in ToSet(parent.guards) \cup ToSet(child.guards) : IsLayerGuard(h)
  BY LayerGuards
<1>2. /\ doc.guards \in Seq(ToSet(doc.guards))
      /\ ToSet(doc.guards) =
        {MergedGuard(h, child.guards) : h \in {k \in ToSet(parent.guards) : ~Dropped(k, child.guards)}}
          \cup {h \in ToSet(child.guards) : h.id \notin Ids(parent.guards) /\ ~Removes(h)}
  BY <1>1, MergedGuards DEF Merge
<1> HIDE DEF doc
<1>3. ASSUME NEW k \in ToSet(parent.guards) PROVE IsLayerGuard(MergedGuard(k, child.guards))
  <2>1. IsLayerGuard(k)
    BY <1>1
  <2>2. CASE k.id \notin Ids(child.guards)
    BY <2>1, <2>2 DEF MergedGuard
  <2>3. CASE k.id \in Ids(child.guards)
    <3> DEFINE last == LastWith(child.guards, k.id)
               g == Overlay(last, k)
    <3>1. last \in ToSet(child.guards) /\ last.id = k.id
      BY <1>1, <2>3, LastWithIsThere
    <3>2. IsLayerGuard(last)
      BY <1>1, <3>1
    <3>3. MergedGuard(k, child.guards) = g
      BY <2>3 DEF MergedGuard
    <3> HIDE DEF last
    <3>4. /\ DOMAIN g = DOMAIN last \cup DOMAIN k
          /\ \A x \in DOMAIN last : g[x] = last[x]
          /\ \A x \in DOMAIN k \ DOMAIN last : g[x] = k[x]
      BY OverlayHas
    <3> HIDE DEF g
    <3>5. "id" \in DOMAIN g /\ g.id # None
      BY <2>1, <3>2, <3>4 DEF IsLayerGuard
    <3>6. DOMAIN g \cap {"ADDED", "REMOVED"} = {}
      BY <2>1, <3>2, <3>4 DEF IsLayerGuard
    <3>7. ASSUME "rules" \in DOMAIN g PROVE g.rules \in Seq(ToSet(g.rules))
      <4>1. CASE "rules" \in DOMAIN last
        <5>1. g.rules = last.rules
          BY <3>4, <4>1
        <5>2. last.rules \in Seq(ToSet(last.rules))
          BY <3>2, <4>1 DEF IsLayerGuard
        <5> QED BY <5>1, <5>2
      <4>2. CASE "rules" \notin DOMAIN last
        <5>1. g.rules = k.rules /\ "rules" \in DOMAIN k
          BY <3>4, <3>7, <4>2
        <5>2. k.rules \in Seq(ToSet(k.rules))
          BY <2>1, <5>1 DEF IsLayerGuard
        <5> QED BY <5>1, <5>2
      <4> QED BY <4>1, <4>2
    <3>8. IsLayerGuard(g)
      BY <3>5, <3>6, <3>7 DEF IsLayerGuard
    <3> QED BY <3>3, <3>8
  <2> QED BY <2>2, <2>3
<1>4. \A g \in ToSet(doc.guards) : IsLayerGuard(g)
  BY <1>1, <1>2, <1>3
<1> QED BY <1>2, <1>4, LayerGuards DEF doc

-----------------------------------------------------------------------------
(* What is compiled from a list of layers.                                  *)

\* One step of the loop over the layers.
Merging(f, n, layers) == IF n = 1 THEN layers[1].doc ELSE Merge(f[n - 1], layers[n].doc)

IsMerging(f, m, layers) == f = [n \in 1 .. m |-> Merging(f, n, layers)]

\* The loop has a result for every prefix of the list.
LEMMA MergingExists ==
    ASSUME NEW layers, NEW len \in Nat \ {0}
    PROVE  \E f : IsMerging(f, len, layers)
<1> DEFINE Bad == {m \in 1 .. len : ~\E f : IsMerging(f, m, layers)}
<1>1. Bad = {}
  <2> SUFFICES ASSUME Bad # {} PROVE FALSE
    OBVIOUS
  <2>1. Bad \in SUBSET Nat
    OBVIOUS
  <2>2. PICK m \in Bad : \A k \in Bad : m <= k
    <3> HIDE DEF Bad
    <3> QED BY <2>1, LeastNatural
  <2>3. ASSUME m = 1 PROVE FALSE
    <3> DEFINE f == [n \in 1 .. 1 |-> layers[1].doc]
    <3>1. IsMerging(f, 1, layers)
      BY DEF Merging, IsMerging
    <3> HIDE DEF f
    <3> QED BY <2>3, <3>1
  <2>4. ASSUME m # 1 PROVE FALSE
    <3>1. m - 1 \in 1 .. len /\ ~(m <= m - 1) /\ m \in Nat
      BY <2>4
    <3>2. PICK f : IsMerging(f, m - 1, layers)
      BY <2>2, <3>1
    <3> DEFINE g == [n \in 1 .. m |-> IF n = m THEN Merging(f, m, layers) ELSE f[n]]
    <3>3. ASSUME NEW n \in 1 .. m PROVE g[n] = Merging(g, n, layers)
      <4>1. n # 1 => g[n - 1] = f[n - 1]
        BY <3>1
      <4>2. Merging(g, n, layers) = Merging(f, n, layers)
        BY <4>1 DEF Merging
      <4>3. n # m => n \in 1 .. m - 1
        BY <3>1
      <4>4. n # m => f[n] = Merging(f, n, layers)
        BY <3>2, <4>3 DEF IsMerging
      <4> QED BY <4>2, <4>4
    <3>4. IsMerging(g, m, layers)
      <4>1. g = [n \in 1 .. m |-> g[n]]
        OBVIOUS
      <4> HIDE DEF g
      <4> QED BY <3>3, <4>1 DEF IsMerging
    <3> HIDE DEF g
    <3> QED BY <3>4
  <2> QED BY <2>3, <2>4
<1>2. len \in 1 .. len
  OBVIOUS
<1> QED BY <1>1, <1>2

\* The entries that the merges up to a layer wrote.
TraceOf(f, n, layers) == IF n = 1 THEN {} ELSE Entries(f[n - 1], layers[n].doc)

\* Of the first n layers, layer l is the last with an entry that covers, or the first one.
LastToCover(f, layers, n, covering, l) ==
    /\ l \in 1 .. n
    /\ l # 1 => TraceOf(f, l, layers) \cap covering # {}
    /\ \A i \in l + 1 .. n : TraceOf(f, i, layers) \cap covering = {}

\* The loop invariant: the entries so far explain what was merged so far.
SpecSet(f, layers, n) ==
    \A x \in DOMAIN f[n].spec : \E l :
        /\ LastToCover(f, layers, n, {<<None, x>>}, l)
        /\ x \in DOMAIN layers[l].doc.spec /\ layers[l].doc.spec[x] = f[n].spec[x]

GuardsSet(f, layers, n) ==
    \A g \in ToSet(f[n].guards) : \A x \in DOMAIN g : \E l :
        /\ LastToCover(f, layers, n, {<<g.id, x>>, <<g.id, "ADDED">>}, l)
        /\ \E h \in ToSet(layers[l].doc.guards) : h.id = g.id /\ x \in DOMAIN h /\ h[x] = g[x]

RemovalsSaid(f, layers, n) ==
    \A i \in 1 .. n : \A g \in ToSet(layers[i].doc.guards) :
        ~Removes(g) /\ g.id \notin Ids(f[n].guards) =>
            \E j \in i .. n : <<g.id, "REMOVED">> \in TraceOf(f, j, layers)

\* Another layer either covers, or leaves the last one that did.
LEMMA NextToCover ==
    ASSUME NEW f, NEW layers, NEW n \in Nat \ {0, 1}, NEW covering
    PROVE  /\ TraceOf(f, n, layers) \cap covering # {} => LastToCover(f, layers, n, covering, n)
           /\ \A l : TraceOf(f, n, layers) \cap covering = {}
                       /\ LastToCover(f, layers, n - 1, covering, l)
                     => LastToCover(f, layers, n, covering, l)
<1>1. n \in 1 .. n /\ n + 1 .. n = {}
  OBVIOUS
<1>2. ASSUME NEW l, TraceOf(f, n, layers) \cap covering = {},
             LastToCover(f, layers, n - 1, covering, l)
      PROVE  LastToCover(f, layers, n, covering, l)
  <2>1. l \in 1 .. n - 1
    BY <1>2 DEF LastToCover
  <2>2. l \in 1 .. n /\ \A i \in l + 1 .. n : i = n \/ i \in l + 1 .. n - 1
    BY <2>1
  <2> QED BY <1>2, <2>2 DEF LastToCover
<1> QED BY <1>1, <1>2 DEF LastToCover

LEMMA MergingExplains ==
    ASSUME NEW layers, NEW len \in Nat \ {0}, \A i \in 1 .. len : IsLayer(layers[i].doc),
           NEW f, IsMerging(f, len, layers)
    PROVE  /\ IsLayer(f[len])
           /\ SpecSet(f, layers, len) /\ GuardsSet(f, layers, len) /\ RemovalsSaid(f, layers, len)
<1> DEFINE Ok(m) == /\ IsLayer(f[m])
                    /\ SpecSet(f, layers, m) /\ GuardsSet(f, layers, m) /\ RemovalsSaid(f, layers, m)
           Bad == {m \in 1 .. len : ~Ok(m)}
<1>1. \A m \in 1 .. len : f[m] = Merging(f, m, layers)
  BY DEF IsMerging
<1>2. Ok(1)
  <2>1. f[1] = layers[1].doc /\ 1 \in 1 .. len
    BY <1>1 DEF Merging
  <2>2. \A covering : LastToCover(f, layers, 1, covering, 1)
    <3>1. 1 \in 1 .. 1 /\ 1 + 1 .. 1 = {}
      OBVIOUS
    <3> QED BY <3>1 DEF LastToCover
  <2>3. SpecSet(f, layers, 1) /\ GuardsSet(f, layers, 1)
    BY <2>1, <2>2 DEF SpecSet, GuardsSet
  <2>4. RemovalsSaid(f, layers, 1)
    <3>1. \A g \in ToSet(layers[1].doc.guards) : g.id \in Ids(f[1].guards)
      BY <2>1, IdsAreIds
    <3>2. \A i \in 1 .. 1 : i = 1
      OBVIOUS
    <3> QED BY <3>1, <3>2 DEF RemovalsSaid
  <2> QED BY <2>1, <2>3, <2>4
<1>3. ASSUME NEW m \in 2 .. len, Ok(m - 1) PROVE Ok(m)
  <2> DEFINE parent == f[m - 1]
             child == layers[m].doc
  <2>1. /\ m \in 1 .. len /\ m # 1 /\ m \in Nat \ {0, 1} /\ m - 1 \in 1 .. m
        /\ \A i \in 1 .. m : i = m \/ i \in 1 .. m - 1
    OBVIOUS
  <2>2. IsLayer(parent) /\ IsLayer(child)
    BY <1>3, <2>1
  <2>3. f[m] = Merge(parent, child) /\ TraceOf(f, m, layers) = Entries(parent, child)
    BY <1>1, <2>1 DEF Merging, TraceOf
  <2>4. /\ SpecSet(f, layers, m - 1) /\ GuardsSet(f, layers, m - 1)
        /\ RemovalsSaid(f, layers, m - 1)
    BY <1>3
  <2>5. IsLayer(f[m])
    BY <2>2, <2>3, MergeIsLayer
  <2>6. SpecSet(f, layers, m)
    <3> SUFFICES ASSUME NEW x \in DOMAIN f[m].spec
                 PROVE  \E l : /\ LastToCover(f, layers, m, {<<None, x>>}, l)
                               /\ x \in DOMAIN layers[l].doc.spec
                               /\ layers[l].doc.spec[x] = f[m].spec[x]
      BY DEF SpecSet
    <3>1. IF <<None, x>> \in Entries(parent, child)
          THEN x \in DOMAIN child.spec /\ child.spec[x] = f[m].spec[x]
          ELSE x \in DOMAIN parent.spec /\ parent.spec[x] = f[m].spec[x]
      <4> HIDE DEF parent, child
      <4> QED BY <2>2, <2>3, SpecExplained
    <3>2. CASE <<None, x>> \in Entries(parent, child)
      <4>1. LastToCover(f, layers, m, {<<None, x>>}, m)
        BY <2>1, <2>3, <3>2, NextToCover
      <4> QED BY <3>1, <3>2, <4>1
    <3>3. CASE <<None, x>> \notin Entries(parent, child)
      <4>1. PICK l : /\ LastToCover(f, layers, m - 1, {<<None, x>>}, l)
                     /\ x \in DOMAIN layers[l].doc.spec /\ layers[l].doc.spec[x] = parent.spec[x]
        BY <2>4, <3>1, <3>3 DEF SpecSet
      <4>2. LastToCover(f, layers, m, {<<None, x>>}, l)
        BY <2>1, <2>3, <3>3, <4>1, NextToCover
      <4> QED BY <3>1, <3>3, <4>1, <4>2
    <3> QED BY <3>2, <3>3
  <2>7. GuardsSet(f, layers, m)
    <3> SUFFICES ASSUME NEW g \in ToSet(f[m].guards), NEW x \in DOMAIN g
                 PROVE  \E l : /\ LastToCover(f, layers, m, {<<g.id, x>>, <<g.id, "ADDED">>}, l)
                               /\ \E h \in ToSet(layers[l].doc.guards) :
                                    h.id = g.id /\ x \in DOMAIN h /\ h[x] = g[x]
      BY DEF GuardsSet
    <3> DEFINE covering == {<<g.id, x>>, <<g.id, "ADDED">>}
    <3>1. IF Entries(parent, child) \cap covering # {}
          THEN \E h \in ToSet(child.guards) : h.id = g.id /\ x \in DOMAIN h /\ h[x] = g[x]
          ELSE \E h \in ToSet(parent.guards) : h.id = g.id /\ x \in DOMAIN h /\ h[x] = g[x]
      <4> HIDE DEF parent, child
      <4> QED BY <2>2, <2>3, GuardExplained
    <3>2. CASE Entries(parent, child) \cap covering # {}
      <4>1. LastToCover(f, layers, m, covering, m)
        <5> HIDE DEF covering
        <5> QED BY <2>1, <2>3, <3>2, NextToCover
      <4> QED BY <3>1, <3>2, <4>1
    <3>3. CASE Entries(parent, child) \cap covering = {}
      <4>1. PICK k \in ToSet(parent.guards) : k.id = g.id /\ x \in DOMAIN k /\ k[x] = g[x]
        BY <3>1, <3>3
      <4>2. PICK l : /\ LastToCover(f, layers, m - 1, covering, l)
                     /\ \E h \in ToSet(layers[l].doc.guards) :
                          h.id = k.id /\ x \in DOMAIN h /\ h[x] = k[x]
        BY <2>4, <4>1 DEF GuardsSet
      <4>3. LastToCover(f, layers, m, covering, l)
        <5> HIDE DEF covering
        <5> QED BY <2>1, <2>3, <3>3, <4>2, NextToCover
      <4> QED BY <4>1, <4>2, <4>3
    <3> QED BY <3>2, <3>3
  <2>8. RemovalsSaid(f, layers, m)
    <3> SUFFICES ASSUME NEW i \in 1 .. m, NEW g \in ToSet(layers[i].doc.guards),
                        ~Removes(g), g.id \notin Ids(f[m].guards)
                 PROVE  \E j \in i .. m : <<g.id, "REMOVED">> \in TraceOf(f, j, layers)
      BY DEF RemovalsSaid
    <3>1. CASE i = m \/ g.id \in Ids(parent.guards)
      <4>1. m \in i .. m
        BY <2>1
      <4> DEFINE id == g.id
      <4>2. \/ id \in Ids(parent.guards)
            \/ \E h \in ToSet(child.guards) : h.id = id /\ ~Removes(h)
        BY <3>1
      <4>3. id \notin Ids(Merge(parent, child).guards)
        BY <2>3
      <4> HIDE DEF id, parent, child
      <4>4. <<id, "REMOVED">> \in Entries(parent, child)
        BY <2>2, <4>2, <4>3, RemovalExplained
      <4> QED BY <2>3, <4>1, <4>4 DEF id
    <3>2. CASE i # m /\ g.id \notin Ids(parent.guards)
      <4>1. i \in 1 .. m - 1
        BY <2>1, <3>2
      <4>2. PICK j \in i .. m - 1 : <<g.id, "REMOVED">> \in TraceOf(f, j, layers)
        BY <2>4, <3>2, <4>1 DEF RemovalsSaid
      <4>3. j \in i .. m
        BY <2>1
      <4> QED BY <4>2, <4>3
    <3> QED BY <3>1, <3>2
  <2> QED BY <2>5, <2>6, <2>7, <2>8
<1>4. Bad = {}
  <2> SUFFICES ASSUME Bad # {} PROVE FALSE
    OBVIOUS
  <2>1. Bad \in SUBSET Nat
    OBVIOUS
  <2>2. PICK m \in Bad : \A k \in Bad : m <= k
    <3> HIDE DEF Bad
    <3> QED BY <2>1, LeastNatural
  <2>3. m # 1
    BY <1>2, <2>2
  <2>4. m \in 2 .. len /\ m - 1 \in 1 .. len /\ ~(m <= m - 1)
    BY <2>3
  <2>5. Ok(m - 1)
    BY <2>2, <2>4
  <2> QED BY <1>3, <2>2, <2>4, <2>5
<1>5. len \in 1 .. len
  OBVIOUS
<1> QED BY <1>4, <1>5

-----------------------------------------------------------------------------
(* The layers of a profile.                                                 *)

\* One step up from a profile.
Up(f, n, profile) ==
    IF n = 0 THEN profile
    ELSE IF f[n - 1] \in DOMAIN Packs THEN Packs[f[n - 1]].parent ELSE None

IsUp(f, m, profile) == f = [n \in 0 .. m |-> Up(f, n, profile)]

\* There is a way up of every length.
LEMMA UpExists ==
    ASSUME NEW profile, NEW len \in Nat
    PROVE  \E f : IsUp(f, len, profile)
<1> DEFINE Bad == {m \in 0 .. len : ~\E f : IsUp(f, m, profile)}
<1>1. Bad = {}
  <2> SUFFICES ASSUME Bad # {} PROVE FALSE
    OBVIOUS
  <2>1. Bad \in SUBSET Nat
    OBVIOUS
  <2>2. PICK m \in Bad : \A k \in Bad : m <= k
    <3> HIDE DEF Bad
    <3> QED BY <2>1, LeastNatural
  <2>3. ASSUME m = 0 PROVE FALSE
    <3> DEFINE f == [n \in 0 .. 0 |-> profile]
    <3>1. IsUp(f, 0, profile)
      BY DEF Up, IsUp
    <3> HIDE DEF f
    <3> QED BY <2>3, <3>1
  <2>4. ASSUME m # 0 PROVE FALSE
    <3>1. m - 1 \in 0 .. len /\ ~(m <= m - 1) /\ m \in Nat
      BY <2>4
    <3>2. PICK f : IsUp(f, m - 1, profile)
      BY <2>2, <3>1
    <3> DEFINE g == [n \in 0 .. m |-> IF n = m THEN Up(f, m, profile) ELSE f[n]]
    <3>3. ASSUME NEW n \in 0 .. m PROVE g[n] = Up(g, n, profile)
      <4>1. n # 0 => g[n - 1] = f[n - 1]
        BY <3>1
      <4>2. Up(g, n, profile) = Up(f, n, profile)
        BY <4>1 DEF Up
      <4>3. n # m => n \in 0 .. m - 1
        BY <3>1
      <4>4. n # m => f[n] = Up(f, n, profile)
        BY <3>2, <4>3 DEF IsUp
      <4> QED BY <4>2, <4>4
    <3>4. IsUp(g, m, profile)
      <4>1. g = [n \in 0 .. m |-> g[n]]
        OBVIOUS
      <4> HIDE DEF g
      <4> QED BY <3>3, <4>1 DEF IsUp
    <3> HIDE DEF g
    <3> QED BY <3>4
  <2> QED BY <2>3, <2>4
<1>2. len \in 0 .. len
  OBVIOUS
<1> QED BY <1>1, <1>2

\* The way up, step by step.
LEMMA WayUpSteps ==
    ASSUME NEW profile
    PROVE  /\ Cardinality(DOMAIN Packs) \in Nat
           /\ IsUp(WayUp(profile), Cardinality(DOMAIN Packs), profile)
<1> DEFINE len == Cardinality(DOMAIN Packs)
           up == CHOOSE f : f = [n \in 0 .. len |->
                    IF n = 0 THEN profile
                    ELSE IF f[n - 1] \in DOMAIN Packs THEN Packs[f[n - 1]].parent ELSE None]
<1>1. len \in Nat
  BY PacksAssumption, FS_CardinalityType
<1>2. WayUp(profile) = up
  BY DEF WayUp
<1> HIDE DEF len
<1>3. \E f : f = [n \in 0 .. len |->
                    IF n = 0 THEN profile
                    ELSE IF f[n - 1] \in DOMAIN Packs THEN Packs[f[n - 1]].parent ELSE None]
  <2>1. PICK f : IsUp(f, len, profile)
    BY <1>1, UpExists
  <2>2. f = [n \in 0 .. len |->
                    IF n = 0 THEN profile
                    ELSE IF f[n - 1] \in DOMAIN Packs THEN Packs[f[n - 1]].parent ELSE None]
    BY <2>1 DEF IsUp, Up
  <2> QED BY <2>2
<1>4. IsUp(up, len, profile)
  BY <1>3 DEF IsUp, Up
<1> HIDE DEF up
<1> QED BY <1>1, <1>2, <1>4 DEF len

\* A chain that can be resolved consists of packs.
LEMMA ChainOfPacks ==
    ASSUME NEW profile, ~Missing(profile), ~Cyclic(profile)
    PROVE  Chain(profile) \in Seq(DOMAIN Packs)
<1> DEFINE len == Cardinality(DOMAIN Packs)
           up == WayUp(profile)
           Ends == {n \in 0 .. len : up[n] = None}
<1>1. len \in Nat /\ DOMAIN up = 0 .. len /\ \A n \in 0 .. len : up[n] = Up(up, n, profile)
  <2>1. len \in Nat /\ up = [n \in 0 .. len |-> Up(up, n, profile)]
    BY WayUpSteps DEF IsUp
  <2> HIDE DEF up, len
  <2> QED BY <2>1
<1>2. up[len] = None /\ \A n \in 0 .. len : up[n] \in DOMAIN Packs \cup {None}
  BY <1>1 DEF Cyclic, Missing
<1>3. Chain(profile) = [k \in 1 .. Cardinality({n \in 0 .. len : up[n] # None}) |->
                          up[Cardinality({n \in 0 .. len : up[n] # None}) - k]]
  BY <1>1 DEF Chain
<1> HIDE DEF len, up
<1>4. PICK d \in Ends : \A n \in Ends : d <= n
  <2>1. Ends \in SUBSET Nat /\ Ends # {}
    BY <1>1, <1>2
  <2> HIDE DEF Ends
  <2> QED BY <2>1, LeastNatural
<1>5. d \in 0 .. len /\ d \in Nat
  BY <1>1
<1>6. \A n \in 0 .. d - 1 : up[n] # None
  <2>1. \A n \in 0 .. d - 1 : n \in 0 .. len /\ ~(d <= n)
    BY <1>1, <1>5
  <2> QED BY <1>4, <2>1
<1>7. \A n \in d .. len : up[n] = None
  <2> DEFINE Later == {n \in d .. len : up[n] # None}
  <2> SUFFICES ASSUME Later # {} PROVE FALSE
    OBVIOUS
  <2>1. Later \in SUBSET Nat
    BY <1>5
  <2>2. PICK m \in Later : \A k \in Later : m <= k
    <3> HIDE DEF Later
    <3> QED BY <2>1, LeastNatural
  <2>3. up[d] = None /\ up[m] # None /\ m \in d .. len
    BY <1>4
  <2>4. m # d
    BY <2>3
  <2>5. m - 1 \in d .. len /\ ~(m <= m - 1) /\ m \in 0 .. len /\ m # 0
    BY <1>1, <1>5, <2>3, <2>4
  <2>6. up[m - 1] = None
    BY <2>2, <2>5
  <2>7. up[m] = Up(up, m, profile)
    BY <1>1, <2>5
  <2> QED BY <2>3, <2>5, <2>6, <2>7, PacksAssumption DEF Up
<1>8. {n \in 0 .. len : up[n] # None} = 0 .. d - 1
  <2>1. \A n \in 0 .. len : n \in 0 .. d - 1 \/ n \in d .. len
    BY <1>1, <1>5
  <2>2. 0 .. d - 1 \subseteq 0 .. len
    BY <1>1, <1>5
  <2> QED BY <1>6, <1>7, <2>1, <2>2
<1>9. Cardinality(0 .. d - 1) = d
  <2>1. 0 \in Int /\ d - 1 \in Int
    BY <1>5
  <2>2. Cardinality(0 .. d - 1) = IF 0 > d - 1 THEN 0 ELSE (d - 1) - 0 + 1
    BY <2>1, FS_Interval
  <2> QED BY <1>5, <2>2
<1>10. Chain(profile) = [k \in 1 .. d |-> up[d - k]]
  BY <1>3, <1>8, <1>9
<1>11. \A k \in 1 .. d : up[d - k] \in DOMAIN Packs
  <2>1. \A k \in 1 .. d : d - k \in 0 .. d - 1 /\ d - k \in 0 .. len
    BY <1>1, <1>5
  <2> QED BY <1>2, <1>6, <2>1
<1> QED BY <1>5, <1>10, <1>11

\* The layers of a profile and an app.
LEMMA LayersAreLayers ==
    ASSUME NEW profile, ~Missing(profile), ~Cyclic(profile), NEW app, app = None \/ IsLayer(app)
    PROVE  /\ Len(Layers(profile, app)) \in Nat \ {0}
           /\ DOMAIN Layers(profile, app) = 1 .. Len(Layers(profile, app))
           /\ \A i \in DOMAIN Layers(profile, app) : IsLayer(Layers(profile, app)[i].doc)
<1> DEFINE chain == Chain(profile)
           packs == IF profile \in {None, Baseline} THEN <<>>
                    ELSE AboveBaseline(chain)
           names == <<Baseline>> \o packs
           base == [i \in DOMAIN names |-> [name |-> IF i = 1 THEN Baseline ELSE Packs[names[i]].key,
                                            doc |-> Packs[names[i]].doc]]
           top == IF app = None THEN <<>> ELSE <<[name |-> "app-policy", doc |-> app]>>
           L == {layer \in {base[i] : i \in DOMAIN names} \cup {[name |-> "app-policy", doc |-> app]} :
                   IsLayer(layer.doc)}
<1>1. Layers(profile, app) = base \o top
  BY DEF Layers
<1>2. packs \in Seq(DOMAIN Packs)
  <2>1. chain \in Seq(DOMAIN Packs)
    BY ChainOfPacks
  <2>2. <<>> \in Seq(DOMAIN Packs)
    OBVIOUS
  <2> HIDE DEF chain
  <2>3. AboveBaseline(chain) \in Seq(DOMAIN Packs)
    BY <2>1, ElementsAtHolds DEF AboveBaseline
  <2> QED BY <2>2, <2>3
<1> HIDE DEF packs
<1>3. names \in Seq(DOMAIN Packs) /\ Len(names) \in Nat \ {0} /\ DOMAIN names = 1 .. Len(names)
  BY <1>2, PacksAssumption
<1> HIDE DEF names
<1>4. base \in Seq(L) /\ Len(base) = Len(names)
  <2>1. \A i \in DOMAIN names : base[i] \in L
    BY <1>3, LayersAssumption
  <2>2. base = [i \in 1 .. Len(names) |-> base[i]]
    BY <1>3
  <2> HIDE DEF base, L
  <2> QED BY <1>3, <2>1, <2>2
<1>5. top \in Seq(L)
  <2>1. app # None => [name |-> "app-policy", doc |-> app] \in L
    OBVIOUS
  <2> HIDE DEF L
  <2> QED BY <2>1
<1>6. \A layer \in L : IsLayer(layer.doc)
  OBVIOUS
<1> HIDE DEF base, top, L
<1>7. base \o top \in Seq(L) /\ Len(base \o top) = Len(base) + Len(top) /\ Len(top) \in Nat
  BY <1>4, <1>5
<1>8. /\ Len(base \o top) \in Nat \ {0} /\ DOMAIN (base \o top) = 1 .. Len(base \o top)
      /\ \A i \in DOMAIN (base \o top) : (base \o top)[i] \in L
  BY <1>3, <1>4, <1>7
<1> QED BY <1>1, <1>6, <1>8

\* The layer that the trace names for what an entry may cover.
LEMMA AttributedIsLast ==
    ASSUME NEW compiled, NEW f, NEW len \in Nat, NEW covering, NEW l,
           DOMAIN compiled.trace = 1 .. len,
           \A i \in 1 .. len : compiled.trace[i] = TraceOf(f, i, compiled.layers),
           LastToCover(f, compiled.layers, len, covering, l)
    PROVE  Attributed(compiled, covering) = compiled.layers[l].doc
<1> DEFINE mentions == {i \in DOMAIN compiled.trace : compiled.trace[i] \cap covering # {}}
<1>1. \A i : i \in mentions <=> i \in 1 .. len /\ TraceOf(f, i, compiled.layers) \cap covering # {}
  OBVIOUS
<1>2. Attributed(compiled, covering) =
        compiled.layers[IF mentions = {} THEN 1
                        ELSE CHOOSE i \in mentions : \A j \in mentions : j <= i].doc
  BY DEF Attributed
<1> HIDE DEF mentions
<1>3. l \in 1 .. len /\ \A i \in mentions : i <= l
  <2>1. \A i \in 1 .. len : i <= l \/ i \in l + 1 .. len
    BY DEF LastToCover
  <2> QED BY <1>1, <2>1 DEF LastToCover
<1>4. CASE l \in mentions
  <2>1. \E i \in mentions : \A j \in mentions : j <= i
    BY <1>3, <1>4
  <2> DEFINE last == CHOOSE i \in mentions : \A j \in mentions : j <= i
  <2>2. last \in mentions /\ \A j \in mentions : j <= last
    BY <2>1
  <2> HIDE DEF last
  <2>3. last \in 1 .. len /\ last <= l /\ l <= last
    BY <1>1, <1>3, <1>4, <2>2
  <2>4. last = l
    BY <1>3, <2>3
  <2> QED BY <1>2, <1>4, <2>4 DEF last
<1>5. CASE l \notin mentions
  <2>1. l = 1
    BY <1>1, <1>3, <1>5 DEF LastToCover
  <2>2. mentions = {}
    <3>1. \A i \in mentions : i \in 1 .. len /\ i <= 1
      BY <1>1, <1>3, <2>1
    <3>2. \A i \in mentions : i = 1
      BY <3>1
    <3> QED BY <1>5, <2>1, <3>2
  <2> QED BY <1>2, <2>1, <2>2
<1> QED BY <1>4, <1>5

\* What is compiled from layers is a document like theirs, and its trace explains it.
LEMMA CompiledIsExplained ==
    ASSUME NEW profile, ~Missing(profile), ~Cyclic(profile), NEW app, app = None \/ IsLayer(app)
    PROVE  IsLayer(Compile(profile, app).doc) /\ Explains(Compile(profile, app))
<1> DEFINE layers == Layers(profile, app)
           compiled == Compile(profile, app)
           len == Len(layers)
           acc == CHOOSE f : f = [i \in DOMAIN layers |->
                    IF i = 1 THEN layers[1].doc ELSE Merge(f[i - 1], layers[i].doc)]
<1>1. /\ len \in Nat \ {0} /\ DOMAIN layers = 1 .. len
      /\ \A i \in 1 .. len : IsLayer(layers[i].doc)
  BY LayersAreLayers
<1>2. /\ compiled.layers = layers
      /\ compiled.trace = [i \in DOMAIN layers |->
                             IF i = 1 THEN {} ELSE Entries(acc[i - 1], layers[i].doc)]
      /\ compiled.doc = [acc[len] EXCEPT !.meta = (@ \cup {"tenant", "profile", "status"}) \ {"parent"}]
  BY DEF Compile
<1> HIDE DEF layers, compiled, len
<1>3. IsMerging(acc, len, layers)
  <2>1. PICK f : IsMerging(f, len, layers)
    BY <1>1, MergingExists
  <2>2. \E g : g = [i \in DOMAIN layers |->
                    IF i = 1 THEN layers[1].doc ELSE Merge(g[i - 1], layers[i].doc)]
    BY <1>1, <2>1 DEF IsMerging, Merging
  <2>3. acc = [i \in DOMAIN layers |->
                    IF i = 1 THEN layers[1].doc ELSE Merge(acc[i - 1], layers[i].doc)]
    BY <2>2
  <2> HIDE DEF acc
  <2> QED BY <1>1, <2>3 DEF IsMerging, Merging
<1> HIDE DEF acc
<1>4. /\ IsLayer(acc[len])
      /\ SpecSet(acc, layers, len) /\ GuardsSet(acc, layers, len) /\ RemovalsSaid(acc, layers, len)
  BY <1>1, <1>3, MergingExplains
<1>5. compiled.doc.spec = acc[len].spec /\ compiled.doc.guards = acc[len].guards
  BY <1>2
<1>6. compiled.trace = [i \in 1 .. len |-> TraceOf(acc, i, layers)]
  BY <1>1, <1>2 DEF TraceOf
<1>7. IsLayer(compiled.doc)
  BY <1>4, <1>5 DEF IsLayer
<1>8. ASSUME NEW covering, NEW l, LastToCover(acc, layers, len, covering, l)
      PROVE  Attributed(compiled, covering) = layers[l].doc
  <2>1. /\ DOMAIN compiled.trace = 1 .. len
        /\ \A i \in 1 .. len : compiled.trace[i] = TraceOf(acc, i, compiled.layers)
    BY <1>2, <1>6
  <2>2. LastToCover(acc, compiled.layers, len, covering, l) /\ len \in Nat
    BY <1>1, <1>2, <1>8
  <2>3. Attributed(compiled, covering) = compiled.layers[l].doc
    BY <2>1, <2>2, AttributedIsLast
  <2> QED BY <1>2, <2>3
<1>9. ASSUME NEW x \in DOMAIN compiled.doc.spec
      PROVE  Attributed(compiled, {<<None, x>>}).spec[x] = compiled.doc.spec[x]
  BY <1>4, <1>5, <1>8 DEF SpecSet
<1>10. ASSUME NEW i \in DOMAIN compiled.doc.guards, NEW x \in DOMAIN compiled.doc.guards[i]
       PROVE  \E h \in ToSet(Attributed(compiled, {<<compiled.doc.guards[i].id, x>>,
                                                   <<compiled.doc.guards[i].id, "ADDED">>}).guards) :
                 h.id = compiled.doc.guards[i].id /\ x \in DOMAIN h
                   /\ h[x] = compiled.doc.guards[i][x]
  <2> DEFINE g == compiled.doc.guards[i]
             covering == {<<g.id, x>>, <<g.id, "ADDED">>}
  <2>1. g \in ToSet(acc[len].guards) /\ x \in DOMAIN g
    BY <1>5 DEF ToSet
  <2> HIDE DEF g
  <2>2. PICK l : /\ LastToCover(acc, layers, len, covering, l)
                 /\ \E h \in ToSet(layers[l].doc.guards) : h.id = g.id /\ x \in DOMAIN h /\ h[x] = g[x]
    BY <1>4, <2>1 DEF GuardsSet
  <2>3. Attributed(compiled, covering) = layers[l].doc
    <3> HIDE DEF covering
    <3> QED BY <1>8, <2>2
  <2> QED BY <2>2, <2>3 DEF g
<1>11. ASSUME NEW i \in DOMAIN compiled.layers, NEW g \in ToSet(compiled.layers[i].doc.guards),
              ~Removes(g), g.id \notin Ids(compiled.doc.guards)
       PROVE  \E j \in i .. Len(compiled.layers) : <<g.id, "REMOVED">> \in compiled.trace[j]
  <2>1. i \in 1 .. len /\ Len(compiled.layers) = len
    BY <1>1, <1>2 DEF len
  <2>2. PICK j \in i .. len : <<g.id, "REMOVED">> \in TraceOf(acc, j, layers)
    BY <1>2, <1>4, <1>5, <1>11, <2>1 DEF RemovalsSaid
  <2>3. j \in 1 .. len
    BY <1>1, <2>1
  <2> QED BY <1>6, <2>1, <2>2, <2>3
<1>12. Explains(compiled)
  BY <1>9, <1>10, <1>11 DEF Explains
<1> QED BY <1>7, <1>12 DEF compiled

-----------------------------------------------------------------------------
(* The rules a feed adds.                                                   *)

\* One step of the loop over the offered rules.
Grown(f, n, rules, skipped) ==
    IF n = 0 THEN <<>>
    ELSE IF rules[n].id \in skipped THEN f[n - 1]
    ELSE Append(f[n - 1], rules[n])

\* The loop has a result for every prefix of the list.
LEMMA LoopExists ==
    ASSUME NEW S, NEW rules \in Seq(S), NEW skipped
    PROVE  \E f : f = [n \in 0 .. Len(rules) |-> Grown(f, n, rules, skipped)]
<1> DEFINE Has(m) == \E f : f = [n \in 0 .. m |-> Grown(f, n, rules, skipped)]
           Bad == {m \in 0 .. Len(rules) : ~Has(m)}
<1>1. Bad = {}
  <2> SUFFICES ASSUME Bad # {} PROVE FALSE
    OBVIOUS
  <2>1. Bad \in SUBSET Nat
    OBVIOUS
  <2>2. PICK m \in Bad : \A k \in Bad : m <= k
    <3> HIDE DEF Bad
    <3> QED BY <2>1, LeastNatural
  <2>3. ASSUME m = 0 PROVE FALSE
    <3> DEFINE f == [n \in 0 .. 0 |-> <<>>]
    <3>1. f = [n \in 0 .. 0 |-> Grown(f, n, rules, skipped)]
      BY DEF Grown
    <3> QED BY <2>3, <3>1
  <2>4. ASSUME m # 0 PROVE FALSE
    <3>1. m - 1 \in 0 .. Len(rules) /\ ~(m <= m - 1) /\ m \in Nat
      BY <2>4
    <3>2. Has(m - 1)
      BY <2>2, <3>1
    <3>3. PICK f : f = [n \in 0 .. m - 1 |-> Grown(f, n, rules, skipped)]
      BY <3>2
    <3> DEFINE g == [n \in 0 .. m |-> IF n = m THEN Grown(f, m, rules, skipped) ELSE f[n]]
    <3>4. ASSUME NEW n \in 0 .. m PROVE g[n] = Grown(g, n, rules, skipped)
      <4>1. n # 0 => g[n - 1] = f[n - 1]
        BY <3>1
      <4>2. Grown(g, n, rules, skipped) = Grown(f, n, rules, skipped)
        BY <4>1 DEF Grown
      <4>3. n # m => n \in 0 .. m - 1
        BY <3>1
      <4>4. n # m => f[n] = Grown(f, n, rules, skipped)
        BY <3>3, <4>3
      <4> QED BY <4>2, <4>4
    <3>5. g = [n \in 0 .. m |-> Grown(g, n, rules, skipped)]
      <4>1. g = [n \in 0 .. m |-> g[n]]
        OBVIOUS
      <4> HIDE DEF g
      <4> QED BY <3>4, <4>1
    <3> QED BY <3>5
  <2> QED BY <2>3, <2>4
<1>2. Len(rules) \in 0 .. Len(rules)
  OBVIOUS
<1> QED BY <1>1, <1>2

\* Every rule of the loop's result is of the list and was not skipped.
LEMMA LoopSelects ==
    ASSUME NEW S, NEW rules \in Seq(S), NEW skipped, NEW f,
           f = [n \in 0 .. Len(rules) |-> Grown(f, n, rules, skipped)]
    PROVE  /\ f[Len(rules)] \in Seq(S)
           /\ \A k \in DOMAIN f[Len(rules)] : f[Len(rules)][k].id \notin skipped
<1> DEFINE Ok(n) == /\ f[n] \in Seq(S)
                    /\ \A k \in DOMAIN f[n] : f[n][k].id \notin skipped
           Bad == {n \in 0 .. Len(rules) : ~Ok(n)}
<1>1. Bad = {}
  <2> SUFFICES ASSUME Bad # {} PROVE FALSE
    OBVIOUS
  <2>1. Bad \in SUBSET Nat
    OBVIOUS
  <2>2. PICK m \in Bad : \A k \in Bad : m <= k
    <3> HIDE DEF Bad
    <3> QED BY <2>1, LeastNatural
  <2>3. f[m] = Grown(f, m, rules, skipped)
    OBVIOUS
  <2>4. ASSUME m = 0 PROVE FALSE
    <3>1. f[m] = <<>>
      BY <2>3, <2>4 DEF Grown
    <3> QED BY <3>1
  <2>5. ASSUME m # 0 PROVE FALSE
    <3>1. m - 1 \in 0 .. Len(rules) /\ ~(m <= m - 1) /\ m \in 1 .. Len(rules)
      BY <2>5
    <3>2. Ok(m - 1)
      BY <2>2, <3>1
    <3>3. rules[m] \in S
      BY <3>1
    <3>4. ASSUME rules[m].id \notin skipped PROVE Ok(m)
      <4>1. f[m] = Append(f[m - 1], rules[m])
        BY <2>3, <2>5, <3>4 DEF Grown
      <4> DEFINE s == f[m - 1]
      <4>2. s \in Seq(S) /\ \A k \in DOMAIN s : s[k].id \notin skipped
        BY <3>2
      <4> HIDE DEF s
      <4>3. Append(s, rules[m]) \in Seq(S)
        BY <3>3, <4>2
      <4>4. ASSUME NEW k \in DOMAIN Append(s, rules[m])
            PROVE  Append(s, rules[m])[k].id \notin skipped
        <5>1. k \in 1 .. Len(s) + 1 /\ DOMAIN s = 1 .. Len(s) /\ Len(s) \in Nat
          BY <3>3, <4>2
        <5>2. Append(s, rules[m])[k] = IF k = Len(s) + 1 THEN rules[m] ELSE s[k]
          BY <3>3, <4>2, <5>1
        <5> QED BY <3>4, <4>2, <5>1, <5>2
      <4> QED BY <4>1, <4>3, <4>4 DEF s
    <3>5. ASSUME rules[m].id \in skipped PROVE Ok(m)
      <4>1. f[m] = f[m - 1]
        BY <2>3, <2>5, <3>5 DEF Grown
      <4> QED BY <3>2, <4>1
    <3> QED BY <3>4, <3>5
  <2> QED BY <2>4, <2>5
<1>2. Len(rules) \in 0 .. Len(rules)
  OBVIOUS
<1>3. Ok(Len(rules))
  BY <1>1, <1>2
<1> QED BY <1>3

\* The fresh rules are rules on offer, none with an id of the guard or without one.
LEMMA FreshIsFresh ==
    ASSUME NEW S, NEW guard, NEW rules \in Seq(S)
    PROVE  /\ Fresh(guard, rules) \in Seq(S)
           /\ \A k \in DOMAIN Fresh(guard, rules) :
                 Fresh(guard, rules)[k].id \notin Ids(RulesOf(guard)) \cup {None}
<1> DEFINE skipped == Ids(RulesOf(guard)) \cup {None}
           loop == CHOOSE f : f = [n \in 0 .. Len(rules) |->
                      IF n = 0 THEN <<>>
                      ELSE IF rules[n].id \in skipped THEN f[n - 1]
                      ELSE Append(f[n - 1], rules[n])]
<1>1. Fresh(guard, rules) = loop[Len(rules)]
  BY DEF Fresh
<1>2. \E f : f = [n \in 0 .. Len(rules) |-> IF n = 0 THEN <<>>
                      ELSE IF rules[n].id \in skipped THEN f[n - 1]
                      ELSE Append(f[n - 1], rules[n])]
  <2> HIDE DEF skipped, loop
  <2>1. PICK f : f = [n \in 0 .. Len(rules) |-> Grown(f, n, rules, skipped)]
    BY LoopExists
  <2>2. f = [n \in 0 .. Len(rules) |-> IF n = 0 THEN <<>>
                      ELSE IF rules[n].id \in skipped THEN f[n - 1]
                      ELSE Append(f[n - 1], rules[n])]
    BY <2>1 DEF Grown
  <2> QED BY <2>2
<1>3. loop = [n \in 0 .. Len(rules) |-> Grown(loop, n, rules, skipped)]
  <2> HIDE DEF skipped
  <2> QED BY <1>2 DEF Grown
<1> HIDE DEF loop, skipped
<1>4. /\ loop[Len(rules)] \in Seq(S)
      /\ \A k \in DOMAIN loop[Len(rules)] : loop[Len(rules)][k].id \notin skipped
  BY <1>3, LoopSelects
<1> QED BY <1>1, <1>4 DEF skipped

\* A guard that is extended keeps its fields and rules and gains fresh ones.
LEMMA ExtendGuardOnlyAdds ==
    ASSUME NEW S, NEW guard, NEW rules \in Seq(S), IsSecrets(guard), RulesOf(guard) \in Seq(S)
    PROVE  /\ GuardOnlyAdds(guard, ExtendGuard(guard, rules))
           /\ RulesOf(ExtendGuard(guard, rules)) \in Seq(S)
<1> DEFINE old == RulesOf(guard)
           fresh == Fresh(guard, rules)
           new == ExtendGuard(guard, rules)
<1>1. /\ fresh \in Seq(S)
      /\ \A k \in DOMAIN fresh : fresh[k].id \notin Ids(old) \cup {None}
  BY FreshIsFresh
<1>2. /\ DOMAIN new = DOMAIN guard \cup {"rules"}
      /\ \A f \in DOMAIN guard \ {"rules"} : new[f] = guard[f]
      /\ RulesOf(new) = old \o fresh
  <2> HIDE DEF fresh, old
  <2>1. new = [f \in DOMAIN guard \cup {"rules"} |-> IF f = "rules" THEN old \o fresh ELSE guard[f]]
    BY DEF ExtendGuard, fresh, old
  <2> HIDE DEF new
  <2> QED BY <2>1 DEF RulesOf
<1> HIDE DEF fresh, old, new
<1>3. /\ old \o fresh \in Seq(S) /\ Len(old) \in Nat /\ Len(fresh) \in Nat
      /\ DOMAIN old = 1 .. Len(old) /\ DOMAIN fresh = 1 .. Len(fresh)
      /\ DOMAIN (old \o fresh) = 1 .. Len(old) + Len(fresh)
      /\ \A k \in 1 .. Len(old) : (old \o fresh)[k] = old[k]
      /\ \A k \in Len(old) + 1 .. Len(old) + Len(fresh) : (old \o fresh)[k] = fresh[k - Len(old)]
  BY <1>1 DEF old
<1>4. \A k \in DOMAIN old : k \in DOMAIN RulesOf(new) /\ RulesOf(new)[k] = old[k]
  BY <1>2, <1>3
<1>5. ASSUME NEW k \in DOMAIN RulesOf(new) \ DOMAIN old
      PROVE  RulesOf(new)[k].id \notin Ids(old) \cup {None}
  <2>1. k \in Len(old) + 1 .. Len(old) + Len(fresh) /\ k - Len(old) \in DOMAIN fresh
    BY <1>2, <1>3
  <2> QED BY <1>1, <1>2, <1>3, <2>1
<1> QED BY <1>2, <1>3, <1>4, <1>5 DEF GuardOnlyAdds, old, new

-----------------------------------------------------------------------------
(* The invariant.                                                           *)

\* The documents that people draft, and the rules that can occur in a document.
DraftedDocs ==
    {Compile(input[1], input[2]).doc :
        input \in {i \in Drafted : ~Missing(i[1]) /\ ~Cyclic(i[1])}}

RulesIn(doc) == UNION {ToSet(RulesOf(doc.guards[i])) : i \in DOMAIN doc.guards}

DraftedRules == UNION {RulesIn(doc) : doc \in DraftedDocs}

KnownRules == (UNION {ToSet(rules) : rules \in Rulesets}) \cup DraftedRules

\* The rules of every guard are a list.
Listed(doc) == \A i \in DOMAIN doc.guards : RulesOf(doc.guards[i]) \in Seq(KnownRules)

\* A row is a record of the six fields.
RowShape(r) ==
    r = [status |-> r.status, auto |-> r.auto, origin |-> r.origin, parent |-> r.parent,
         ref |-> r.ref, doc |-> r.doc]

RowTyped(r) ==
    /\ RowShape(r)
    /\ r.status \in Statuses /\ r.origin \in Origins /\ r.auto \in BOOLEAN
    /\ r.parent \in DOMAIN rows \cup {None}
    /\ Listed(r.doc)

\* The registry: its rows, their orders, and what rule AA-1 let in.
RegistryInv ==
    /\ rows = [v \in DOMAIN rows |-> rows[v]]
    /\ DOMAIN rows \subseteq Versions /\ IsFiniteSet(DOMAIN rows)
    /\ \A v \in DOMAIN rows : RowTyped(rows[v])
    /\ created \in Seq(DOMAIN rows) /\ Len(created) = Cardinality(DOMAIN rows)
    /\ DOMAIN rows \subseteq ToSet(created)
    /\ approvals \in Seq(DOMAIN rows) /\ Approved \subseteq ToSet(approvals)
    /\ AutoApprovedOnlyAdds

\* What a feed is about to extend, and what the tuner has read, is there; a feed
\* extends what was approved.
FeedTyped(f) ==
    /\ feed[f] = [pc |-> feed[f].pc, rules |-> feed[f].rules, base |-> feed[f].base]
    /\ feed[f].pc \in {"idle", "loaded", "posting"} /\ feed[f].rules \in Rulesets \cup {<<>>}
    /\ feed[f].base \in DOMAIN rows \cup {None}
    /\ feed[f].pc = "posting" =>
         /\ feed[f].base \in DOMAIN rows /\ feed[f].base \in ToSet(approvals)
         /\ Bump(feed[f].base) \in Versions

JobsInv ==
    /\ source \in Rulesets
    /\ feed = [f \in Feeds |-> feed[f]] /\ \A f \in Feeds : FeedTyped(f)
    /\ tuner # None => tuner \in DOMAIN rows /\ Bump(tuner) \in Versions

AutomationInv == RegistryInv /\ JobsInv

\* Versions and approvals stay on record.
Grows == DOMAIN rows \subseteq DOMAIN rows' /\ ToSet(approvals) \subseteq ToSet(approvals')

-----------------------------------------------------------------------------
(* The registry keeps it.                                                   *)

\* Every rule list on offer, and none, is a list of known rules.
LEMMA OfferIsListed ==
    ASSUME NEW rules \in Rulesets \cup {<<>>}
    PROVE  rules \in Seq(KnownRules)
<1>1. ASSUME rules \in Rulesets PROVE rules \in Seq(KnownRules)
  <2>1. rules \in Seq(ToSet(rules))
    BY <1>1, ListsAssumption
  <2>2. ToSet(rules) \subseteq KnownRules
    BY <1>1 DEF KnownRules
  <2> QED BY <2>1, <2>2
<1>2. <<>> \in Seq(KnownRules)
  OBVIOUS
<1> QED BY <1>1, <1>2

\* What people draft has lists of known rules.
LEMMA DraftIsListed ==
    ASSUME NEW input \in Drafted, ~Missing(input[1]), ~Cyclic(input[1])
    PROVE  Listed(Compile(input[1], input[2]).doc)
<1> DEFINE doc == Compile(input[1], input[2]).doc
<1>1. doc \in DraftedDocs
  BY DEF DraftedDocs
<1>2. \A i \in DOMAIN doc.guards : RulesOf(doc.guards[i]) \in Seq(ToSet(RulesOf(doc.guards[i])))
  <2>1. input[2] = None \/ IsLayer(input[2])
    BY AutomationAssumption, ListsAssumption
  <2>2. IsLayer(doc)
    BY <2>1, CompiledIsExplained
  <2> HIDE DEF doc
  <2>3. ASSUME NEW i \in DOMAIN doc.guards
        PROVE  RulesOf(doc.guards[i]) \in Seq(ToSet(RulesOf(doc.guards[i])))
    <3>1. CASE "rules" \in DOMAIN doc.guards[i]
      <4>1. doc.guards[i].rules \in Seq(ToSet(doc.guards[i].rules))
        BY <2>2, <3>1 DEF IsLayer
      <4> QED BY <3>1, <4>1 DEF RulesOf
    <3>2. CASE "rules" \notin DOMAIN doc.guards[i]
      <4>1. <<>> \in Seq(ToSet(<<>>))
        OBVIOUS
      <4> QED BY <3>2, <4>1 DEF RulesOf
    <3> QED BY <3>1, <3>2
  <2> QED BY <2>3
<1> HIDE DEF doc
<1>3. ASSUME NEW i \in DOMAIN doc.guards PROVE RulesOf(doc.guards[i]) \in Seq(KnownRules)
  <2>1. ToSet(RulesOf(doc.guards[i])) \subseteq RulesIn(doc)
    BY DEF RulesIn
  <2>2. RulesIn(doc) \subseteq KnownRules
    BY <1>1 DEF DraftedRules, KnownRules
  <2> QED BY <1>2, <2>1, <2>2
<1>4. Listed(doc)
  BY <1>3 DEF Listed
<1> QED BY <1>4 DEF doc

\* A version that the registry takes in, or refuses, keeps the invariant if its parent and
\* its document are as they should be.
LEMMA SubmitKeeps ==
    ASSUME RegistryInv, NEW v \in Versions, NEW doc, NEW origin \in Origins, NEW class,
           NEW parent \in DOMAIN rows \cup {None}, NEW ref,
           Submit(v, doc, origin, class, parent, ref), Listed(doc),
           AutoApproves(origin, class) =>
             /\ parent \in DOMAIN rows /\ parent \in ToSet(approvals)
             /\ OnlyAdds(rows[parent].doc, doc)
    PROVE  RegistryInv' /\ Grows
<1>1. ASSUME UNCHANGED registry PROVE RegistryInv' /\ Grows
  BY <1>1 DEF RegistryInv, Grows, registry, RowTyped, AutoApprovedOnlyAdds, Approved
<1>2. ASSUME ~UNCHANGED registry PROVE RegistryInv' /\ Grows
  <2> DEFINE auto == AutoApproves(origin, class)
             stamps == {"tenant", "status", "created_by", "origin"}
                         \cup (IF auto THEN ApprovalKeys ELSE {})
             new == WithMeta(doc, doc.meta \cup stamps)
             row == [status |-> IF auto THEN "approved" ELSE "draft", auto |-> auto,
                     origin |-> origin, parent |-> parent, ref |-> ref, doc |-> new]
  <2>1. /\ v \notin DOMAIN rows
        /\ rows' = [w \in DOMAIN rows \cup {v} |-> IF w = v THEN row ELSE rows[w]]
        /\ created' = Append(created, v)
        /\ approvals' = IF auto THEN Append(approvals, v) ELSE approvals
    BY <1>2 DEF Submit
  <2>2. new.spec = doc.spec /\ new.guards = doc.guards
    BY DEF WithMeta
  <2>3. auto \in BOOLEAN
    BY DEF AutoApproves
  <2> HIDE DEF auto, new
  <2>4. /\ row.status \in Statuses /\ row.origin \in Origins /\ row.auto \in BOOLEAN
        /\ row.status = "approved" <=> auto
        /\ row.auto = auto /\ row.parent = parent /\ row.doc = new /\ RowShape(row)
    BY <2>3 DEF Statuses, RowShape
  <2> HIDE DEF row
  <2>5. /\ DOMAIN rows' = DOMAIN rows \cup {v} /\ rows' = [w \in DOMAIN rows' |-> rows'[w]]
        /\ rows'[v] = row /\ \A w \in DOMAIN rows : rows'[w] = rows[w]
    BY <2>1
  <2>6. DOMAIN rows' \subseteq Versions /\ IsFiniteSet(DOMAIN rows')
        /\ Cardinality(DOMAIN rows') = Cardinality(DOMAIN rows) + 1
    BY <2>1, <2>5, FS_AddElement DEF RegistryInv
  <2>7. (\A w \in DOMAIN rows : RowTyped(rows[w]))'
    <3>1. Listed(row.doc)
      BY <2>2, <2>4 DEF Listed
    <3> QED BY <2>4, <2>5, <3>1 DEF RegistryInv, RowTyped
  <2>8. /\ created' \in Seq(DOMAIN rows') /\ Len(created') = Cardinality(DOMAIN rows')
        /\ ToSet(created') = ToSet(created) \cup {v}
    <3>1. created \in Seq(DOMAIN rows) /\ Len(created) = Cardinality(DOMAIN rows)
      BY DEF RegistryInv
    <3> DEFINE D == DOMAIN rows
               E == DOMAIN rows'
    <3>2. D \subseteq E /\ v \in E /\ created \in Seq(D)
      BY <2>5, <3>1
    <3> HIDE DEF D, E
    <3>4. created \in Seq(E)
      BY <3>2
    <3>3. /\ Append(created, v) \in Seq(E)
          /\ Len(Append(created, v)) = Len(created) + 1
          /\ ToSet(Append(created, v)) = ToSet(created) \cup {v}
      BY <3>2, <3>4, ToSetAppend
    <3> QED BY <2>1, <2>6, <3>1, <3>3 DEF E
  <2>9. /\ approvals' \in Seq(DOMAIN rows') /\ ToSet(approvals) \subseteq ToSet(approvals')
        /\ auto => v \in ToSet(approvals')
    <3>1. ASSUME auto
          PROVE  /\ approvals' \in Seq(DOMAIN rows')
                 /\ ToSet(approvals') = ToSet(approvals) \cup {v}
      <4> DEFINE D == DOMAIN rows
                 E == DOMAIN rows'
      <4>1. D \subseteq E /\ v \in E /\ approvals \in Seq(D)
        BY <2>5 DEF RegistryInv
      <4> HIDE DEF D, E
      <4>3. approvals \in Seq(E)
        BY <4>1
      <4>2. /\ Append(approvals, v) \in Seq(E)
            /\ ToSet(Append(approvals, v)) = ToSet(approvals) \cup {v}
        BY <4>1, <4>3, ToSetAppend
      <4> QED BY <2>1, <3>1, <4>2 DEF E
    <3>2. ASSUME ~auto
          PROVE  approvals' \in Seq(DOMAIN rows') /\ approvals' = approvals
      BY <2>1, <2>5, <3>2 DEF RegistryInv
    <3> QED BY <3>1, <3>2
  <2>10. Approved' \subseteq ToSet(approvals')
    BY <2>4, <2>5, <2>9 DEF RegistryInv, Approved
  <2>11. AutoApprovedOnlyAdds'
    <3> SUFFICES ASSUME NEW w \in DOMAIN rows', rows'[w].auto
                 PROVE  /\ rows'[w].parent \in ToSet(approvals')
                        /\ OnlyAdds(rows'[rows'[w].parent].doc, rows'[w].doc)
      BY DEF AutoApprovedOnlyAdds
    <3>1. ASSUME w = v
          PROVE  /\ rows'[w].parent \in ToSet(approvals')
                 /\ OnlyAdds(rows'[rows'[w].parent].doc, rows'[w].doc)
      <4>1. auto /\ rows'[w] = row
        BY <2>4, <2>5, <3>1
      <4>2. /\ parent \in DOMAIN rows /\ parent \in ToSet(approvals)
            /\ OnlyAdds(rows[parent].doc, doc)
        BY <4>1 DEF auto
      <4>3. OnlyAdds(rows[parent].doc, new)
        BY <2>2, <4>2 DEF OnlyAdds
      <4> QED BY <2>4, <2>5, <2>9, <4>1, <4>2, <4>3
    <3>2. ASSUME w # v
          PROVE  /\ rows'[w].parent \in ToSet(approvals')
                 /\ OnlyAdds(rows'[rows'[w].parent].doc, rows'[w].doc)
      <4>1. w \in DOMAIN rows /\ rows'[w] = rows[w] /\ rows[w].auto
        BY <2>5, <3>2
      <4>2. /\ rows[w].parent \in ToSet(approvals)
            /\ OnlyAdds(rows[rows[w].parent].doc, rows[w].doc)
        BY <4>1 DEF RegistryInv, AutoApprovedOnlyAdds
      <4>3. rows[w].parent \in DOMAIN rows
        BY <4>2 DEF RegistryInv, ToSet
      <4> QED BY <2>5, <2>9, <4>1, <4>2, <4>3
    <3> QED BY <3>1, <3>2
  <2>12. DOMAIN rows' \subseteq ToSet(created')
    BY <2>5, <2>8 DEF RegistryInv
  <2> QED BY <2>5, <2>6, <2>7, <2>8, <2>9, <2>10, <2>11, <2>12 DEF RegistryInv, Grows
<1> QED BY <1>1, <1>2

\* A review of a version keeps the invariant, and an approval is put on record.
LEMMA MoveKeeps ==
    ASSUME RegistryInv, NEW v \in DOMAIN rows, NEW from, NEW to \in Statuses, Move(v, from, to),
           \/ to # "approved" /\ approvals' = approvals
           \/ approvals' = Append(approvals, v)
    PROVE  RegistryInv' /\ Grows
<1> DEFINE old == rows[v]
           new == [status |-> to, auto |-> old.auto, origin |-> old.origin,
                   parent |-> old.parent, ref |-> old.ref, doc |-> old.doc]
<1>1. rows' = [rows EXCEPT ![v].status = to] /\ created' = created
  BY DEF Move
<1>2. RowTyped(old)
  BY DEF RegistryInv
<1>3. [old EXCEPT !.status = to] = new
  <2> HIDE DEF old
  <2> QED BY <1>2 DEF RowTyped, RowShape
<1>4. /\ DOMAIN rows' = DOMAIN rows /\ rows' = [w \in DOMAIN rows' |-> rows'[w]]
      /\ rows'[v] = new /\ \A w \in DOMAIN rows \ {v} : rows'[w] = rows[w]
  <2>1. rows' = [rows EXCEPT ![v] = new]
    BY <1>1, <1>3
  <2> HIDE DEF new
  <2> QED BY <2>1
<1>5. /\ new.status = to /\ new.auto = old.auto /\ new.origin = old.origin
      /\ new.parent = old.parent /\ new.doc = old.doc /\ RowShape(new)
  BY DEF RowShape
<1> HIDE DEF new
<1>6. /\ approvals' \in Seq(DOMAIN rows) /\ ToSet(approvals) \subseteq ToSet(approvals')
      /\ to = "approved" => v \in ToSet(approvals')
  <2>1. ASSUME approvals' = Append(approvals, v)
        PROVE  approvals' \in Seq(DOMAIN rows) /\ ToSet(approvals') = ToSet(approvals) \cup {v}
    BY <2>1, ToSetAppend DEF RegistryInv
  <2>2. approvals \in Seq(DOMAIN rows)
    BY DEF RegistryInv
  <2> QED BY <2>1, <2>2
<1>7. (\A w \in DOMAIN rows : RowTyped(rows[w]))'
  BY <1>2, <1>4, <1>5 DEF RegistryInv, RowTyped
<1>8. Approved' \subseteq ToSet(approvals')
  BY <1>4, <1>5, <1>6 DEF RegistryInv, Approved
<1>9. \A w \in DOMAIN rows : /\ rows'[w].auto = rows[w].auto /\ rows'[w].doc = rows[w].doc
                             /\ rows'[w].parent = rows[w].parent
  BY <1>4, <1>5
<1>10. AutoApprovedOnlyAdds'
  <2> SUFFICES ASSUME NEW w \in DOMAIN rows, rows[w].auto
               PROVE  /\ rows'[w].parent \in ToSet(approvals')
                      /\ OnlyAdds(rows'[rows'[w].parent].doc, rows'[w].doc)
    BY <1>4, <1>9 DEF AutoApprovedOnlyAdds
  <2>1. /\ rows[w].parent \in ToSet(approvals)
        /\ OnlyAdds(rows[rows[w].parent].doc, rows[w].doc)
    BY DEF RegistryInv, AutoApprovedOnlyAdds
  <2>2. rows[w].parent \in DOMAIN rows
    BY <2>1 DEF RegistryInv, ToSet
  <2> QED BY <1>6, <1>9, <2>1, <2>2
<1> QED BY <1>1, <1>4, <1>6, <1>7, <1>8, <1>10 DEF RegistryInv, Grows

-----------------------------------------------------------------------------
(* The steps.                                                               *)

\* The registry may grow under the jobs.
LEMMA JobsKeep ==
    ASSUME RegistryInv, JobsInv, RegistryInv', Grows, UNCHANGED <<source, feed, tuner>>
    PROVE  JobsInv'
  BY DEF JobsInv, FeedTyped, Grows

\* A person's draft has lists of rules, and is no automatic approval.
LEMMA AuthorKeeps ==
    ASSUME AutomationInv, NEW v \in Releases, NEW input \in Drafted, Author(v, input)
    PROVE  AutomationInv'
<1>1. v \in Versions /\ "manual" \in Origins /\ None \in DOMAIN rows \cup {None}
  BY DEF Releases, Origins
<1>2. ~AutoApproves("manual", None)
  BY DEF AutoApproves
<1>3. Listed(Compile(input[1], input[2]).doc)
  BY DraftIsListed DEF Author
<1>4. /\ Submit(v, Compile(input[1], input[2]).doc, "manual", None, None, input)
      /\ UNCHANGED <<source, feed, tuner>>
  BY DEF Author
<1>5. RegistryInv' /\ Grows
  BY <1>1, <1>2, <1>3, <1>4, SubmitKeeps DEF AutomationInv
<1> QED BY <1>4, <1>5, JobsKeep DEF AutomationInv

\* So has what the synthesizer compiles: its guards have no rules.
LEMMA SynthesizeKeeps ==
    ASSUME AutomationInv, NEW candidates \in Extractions, Synthesize(candidates)
    PROVE  AutomationInv'
<1> DEFINE doc == Synthesized(candidates)
<1>1. /\ <<0, 0>> \in Versions /\ "synthesizer" \in Origins
      /\ None \in DOMAIN rows \cup {None}
  BY DEF Synthesize, Origins
<1>2. ~AutoApproves("synthesizer", "mixed")
  BY DEF AutoApproves
<1>3. Listed(doc)
  <2>1. doc.guards = CompileGuards(candidates)
    BY DEF Synthesized
  <2>2. ASSUME NEW i \in DOMAIN doc.guards PROVE RulesOf(doc.guards[i]) = <<>>
    <3>1. "rules" \notin DOMAIN doc.guards[i]
      BY <2>1, <2>2 DEF CompileGuards
    <3> QED BY <3>1 DEF RulesOf
  <2>3. <<>> \in Seq(KnownRules)
    OBVIOUS
  <2> QED BY <2>2, <2>3 DEF Listed
<1>4. Submit(<<0, 0>>, doc, "synthesizer", "mixed", None, candidates) /\ UNCHANGED <<source, feed, tuner>>
  BY DEF Synthesize
<1> HIDE DEF doc
<1>5. RegistryInv' /\ Grows
  BY <1>1, <1>2, <1>3, <1>4, SubmitKeeps DEF AutomationInv
<1> QED BY <1>4, <1>5, JobsKeep DEF AutomationInv

\* People review versions in any order.
LEMMA ReviewKeeps ==
    ASSUME AutomationInv, NEW v \in Reviewed \cap DOMAIN rows, Review(v)
    PROVE  AutomationInv'
<1>1. PICK from, to \in Statuses :
        /\ Move(v, from, to)
        /\ \/ to # "approved" /\ approvals' = approvals
           \/ approvals' = Append(approvals, v)
  BY DEF Review, SubmitForReview, Approve, Reject, Revoke, Statuses
<1>2. RegistryInv' /\ Grows
  BY <1>1, MoveKeeps DEF AutomationInv
<1>3. UNCHANGED <<source, feed, tuner>>
  BY <1>1 DEF Move
<1> QED BY <1>2, <1>3, JobsKeep DEF AutomationInv

\* While the registry stays as it is, its part of the invariant does.
LEMMA RegistryKeeps ==
    ASSUME RegistryInv, UNCHANGED registry
    PROVE  RegistryInv' /\ Grows
  BY DEF RegistryInv, Grows, registry, RowTyped, AutoApprovedOnlyAdds, Approved

\* The version that jobs extend is an approved one.
LEMMA BaseIsApproved ==
    ASSUME RegistryInv, Base # None
    PROVE  Base \in DOMAIN rows /\ Base \in ToSet(approvals)
<1>1. Approved # {}
  BY DEF Base, LastApproved
<1>2. created \in Seq(DOMAIN rows) /\ Approved \subseteq ToSet(created)
  BY DEF RegistryInv, Approved
<1>3. Base \in Approved
  BY <1>1, <1>2, LastApprovedIsApproved DEF Base
<1> QED BY <1>3 DEF RegistryInv, Approved

\* A feed loads a list on offer and reads an approved version.
LEMMA FeedStepKeeps ==
    ASSUME AutomationInv, NEW f \in Feeds, NEW next,
           feed' = [feed EXCEPT ![f] = next], UNCHANGED <<source, tuner>>,
           RegistryInv', Grows,
           next = [pc |-> next.pc, rules |-> next.rules, base |-> next.base],
           next.pc \in {"idle", "loaded", "posting"}, next.rules \in Rulesets \cup {<<>>},
           next.base \in DOMAIN rows \cup {None},
           next.pc = "posting" => /\ next.base \in DOMAIN rows /\ next.base \in ToSet(approvals)
                                  /\ Bump(next.base) \in Versions
    PROVE  AutomationInv'
<1>1. /\ feed' = [g \in Feeds |-> feed'[g]]
      /\ feed'[f] = next /\ \A g \in Feeds \ {f} : feed'[g] = feed[g]
  BY DEF AutomationInv, JobsInv
<1>2. ASSUME NEW g \in Feeds PROVE FeedTyped(g)'
  <2>1. ASSUME g = f PROVE FeedTyped(g)'
    BY <1>1, <2>1 DEF FeedTyped, Grows
  <2>2. ASSUME g # f PROVE FeedTyped(g)'
    BY <1>1, <2>2 DEF FeedTyped, Grows, AutomationInv, JobsInv
  <2> QED BY <2>1, <2>2
<1>3. tuner' # None => tuner' \in DOMAIN rows' /\ Bump(tuner') \in Versions
  BY DEF AutomationInv, JobsInv, Grows
<1>4. source' \in Rulesets
  BY DEF AutomationInv, JobsInv
<1> QED BY <1>1, <1>2, <1>3, <1>4 DEF AutomationInv, JobsInv

LEMMA IdleKeeps ==
    ASSUME AutomationInv, NEW f \in Feeds, feed' = [feed EXCEPT ![f] = IdleFeed],
           UNCHANGED <<source, tuner>>, RegistryInv', Grows
    PROVE  AutomationInv'
<1>1. IdleFeed = [pc |-> "idle", rules |-> <<>>, base |-> None]
  BY DEF IdleFeed
<1> QED BY <1>1, FeedStepKeeps

\* It reads an approved version, or ends.
LEMMA FeedReadKeeps ==
    ASSUME AutomationInv, NEW f \in Feeds, FeedRead(f)
    PROVE  AutomationInv'
<1>1. UNCHANGED registry /\ UNCHANGED <<source, tuner>>
  BY DEF FeedRead
<1>2. RegistryInv' /\ Grows
  BY <1>1, RegistryKeeps DEF AutomationInv
<1>3. f \in DOMAIN feed /\ feed[f].rules \in Rulesets \cup {<<>>}
  BY DEF AutomationInv, JobsInv, FeedTyped
<1> DEFINE found == Base # None /\ OffersNew(rows[Base].doc, feed[f].rules)
           next == [pc |-> "posting", rules |-> feed[f].rules, base |-> Base]
<1>4. feed' = [feed EXCEPT ![f] = IF found THEN next ELSE IdleFeed]
  BY <1>3 DEF FeedRead
<1>5. ASSUME found PROVE AutomationInv'
  <2>1. Base \in DOMAIN rows /\ Base \in ToSet(approvals) /\ Bump(Base) \in Versions
    BY <1>5, BaseIsApproved DEF AutomationInv, FeedRead
  <2>2. feed' = [feed EXCEPT ![f] = next]
    BY <1>4, <1>5
  <2>3. /\ next = [pc |-> next.pc, rules |-> next.rules, base |-> next.base]
        /\ next.pc = "posting" /\ next.rules = feed[f].rules /\ next.base = Base
    OBVIOUS
  <2> HIDE DEF next
  <2> QED BY <1>1, <1>2, <1>3, <2>1, <2>2, <2>3, FeedStepKeeps
<1>6. ASSUME ~found PROVE AutomationInv'
  BY <1>1, <1>2, <1>4, <1>6, IdleKeeps
<1> QED BY <1>5, <1>6

\* A document that is extended keeps everything else, and its rules are lists.
LEMMA ExtendOnlyAdds ==
    ASSUME NEW doc, NEW rules \in Seq(KnownRules), Listed(doc)
    PROVE  /\ OnlyAdds(doc, Reissued(Extend(doc, rules)))
           /\ Listed(Reissued(Extend(doc, rules)))
<1> DEFINE new == Reissued(Extend(doc, rules))
<1>1. /\ new.spec = doc.spec
      /\ new.guards = [i \in DOMAIN doc.guards |->
           IF IsSecrets(doc.guards[i]) THEN ExtendGuard(doc.guards[i], rules) ELSE doc.guards[i]]
  BY DEF Reissued, Extend, WithMeta
<1> HIDE DEF new
<1>2. DOMAIN new.guards = DOMAIN doc.guards
  BY <1>1
<1>3. ASSUME NEW i \in DOMAIN doc.guards
      PROVE  /\ GuardOnlyAdds(doc.guards[i], new.guards[i])
             /\ RulesOf(new.guards[i]) \in Seq(KnownRules)
  <2>1. RulesOf(doc.guards[i]) \in Seq(KnownRules)
    BY DEF Listed
  <2>2. ASSUME IsSecrets(doc.guards[i])
        PROVE  /\ GuardOnlyAdds(doc.guards[i], new.guards[i])
               /\ RulesOf(new.guards[i]) \in Seq(KnownRules)
    <3>1. new.guards[i] = ExtendGuard(doc.guards[i], rules)
      BY <1>1, <2>2
    <3> QED BY <2>1, <2>2, <3>1, ExtendGuardOnlyAdds
  <2>3. ASSUME ~IsSecrets(doc.guards[i])
        PROVE  /\ GuardOnlyAdds(doc.guards[i], new.guards[i])
               /\ RulesOf(new.guards[i]) \in Seq(KnownRules)
    <3>1. new.guards[i] = doc.guards[i]
      BY <1>1, <2>3
    <3>2. GuardOnlyAdds(doc.guards[i], doc.guards[i])
      BY <2>3 DEF GuardOnlyAdds
    <3> QED BY <2>1, <3>1, <3>2
  <2> QED BY <2>2, <2>3
<1>4. OnlyAdds(doc, new)
  BY <1>1, <1>2, <1>3 DEF OnlyAdds
<1>5. Listed(new)
  BY <1>2, <1>3 DEF Listed
<1> QED BY <1>4, <1>5 DEF new

\* A feed posts what it made of the approved version it read, which nobody can have changed.
LEMMA FeedPostKeeps ==
    ASSUME AutomationInv, NEW f \in Feeds, FeedPost(f)
    PROVE  AutomationInv'
<1> DEFINE base == feed[f].base
           rules == feed[f].rules
           doc == rows[base].doc
           new == Reissued(Extend(doc, rules))
           class == ChangeClass(doc, rules)
<1>1. /\ base \in DOMAIN rows /\ base \in ToSet(approvals) /\ Bump(base) \in Versions
      /\ rules \in Seq(KnownRules) /\ "feed" \in Origins
  BY OfferIsListed DEF AutomationInv, JobsInv, FeedTyped, FeedPost, Origins
<1>2. Listed(doc)
  BY <1>1 DEF AutomationInv, RegistryInv, RowTyped
<1>3. /\ Submit(Bump(base), new, "feed", class, base, rules)
      /\ feed' = [feed EXCEPT ![f] = IdleFeed] /\ UNCHANGED <<source, tuner>>
  BY DEF FeedPost
<1>4. OnlyAdds(doc, new) /\ Listed(new)
  BY <1>1, <1>2, ExtendOnlyAdds
<1> HIDE DEF base, rules, new, class
<1>5. RegistryInv' /\ Grows
  BY <1>1, <1>3, <1>4, SubmitKeeps DEF AutomationInv
<1> QED BY <1>3, <1>5, IdleKeeps

\* The tuner changes thresholds only, and its proposals are no automatic approval.
LEMMA TunerPostKeeps ==
    ASSUME AutomationInv, NEW evidence \in Evidences, TunerPost(evidence)
    PROVE  AutomationInv'
<1> DEFINE doc == rows[tuner].doc
           tuned == Retune(doc, evidence)
<1>1. /\ tuner \in DOMAIN rows /\ Bump(tuner) \in Versions /\ "autotuner" \in Origins
  BY DEF AutomationInv, JobsInv, TunerPost, Origins
<1>2. Listed(doc)
  BY <1>1 DEF AutomationInv, RegistryInv, RowTyped
<1>3. tuner' = None /\ UNCHANGED <<source, feed>>
  BY DEF TunerPost
<1>4. RegistryInv' /\ Grows
  <2>1. ASSUME tuned = doc PROVE RegistryInv' /\ Grows
    BY <2>1, RegistryKeeps DEF AutomationInv, TunerPost
  <2>2. ASSUME tuned # doc PROVE RegistryInv' /\ Grows
    <3>1. PICK class, ref : Submit(Bump(tuner), Reissued(tuned), "autotuner", class, tuner, ref)
      BY <2>2 DEF TunerPost
    <3>2. Listed(Reissued(tuned))
      <4>1. Reissued(tuned).guards = tuned.guards
        BY DEF Reissued, WithMeta
      <4>2. ASSUME NEW i \in DOMAIN tuned.guards
            PROVE  RulesOf(tuned.guards[i]) \in Seq(KnownRules)
        <5>1. i \in DOMAIN doc.guards
          BY DEF Retune
        <5> DEFINE guard == doc.guards[i]
                   t == Tuned(doc.guards, guard.id, evidence)
                   new == [f \in DOMAIN guard \cup {"threshold"} |->
                             IF f = "threshold" THEN t ELSE guard[f]]
        <5>2. tuned.guards[i] = IF t = None THEN guard ELSE new
          BY <5>1 DEF Retune
        <5> HIDE DEF t, guard
        <5>3. RulesOf(new) = RulesOf(guard)
          BY DEF RulesOf
        <5> QED BY <1>2, <5>1, <5>2, <5>3 DEF Listed, guard
      <4> QED BY <4>1, <4>2 DEF Listed
    <3>3. ~AutoApproves("autotuner", class)
      BY DEF AutoApproves
    <3> HIDE DEF tuned
    <3> QED BY <1>1, <3>1, <3>2, <3>3, SubmitKeeps DEF AutomationInv
  <2> QED BY <2>1, <2>2
<1>5. JobsInv'
  BY <1>3, <1>4 DEF AutomationInv, JobsInv, FeedTyped, Grows
<1> QED BY <1>4, <1>5 DEF AutomationInv

-----------------------------------------------------------------------------
(* The thresholds that the tuner recommends.                                *)

\* What events and feedback say about a guard.
IsEvidence(labelled) ==
    IsFiniteSet(labelled) /\ \A s \in labelled : s.n \in Nat /\ s.score \in Int

\* More counts stand for no fewer scores.
LEMMA TotalGrows ==
    ASSUME NEW B, IsEvidence(B), NEW A \in SUBSET B
    PROVE  Total(A) \in Nat /\ Total(B) \in Nat /\ Total(A) <= Total(B)
<1> DEFINE Scores(T) == UNION {{s} \X (1 .. s.n) : s \in T}
<1>1. IsFiniteSet(Scores(B))
  <2> DEFINE T == {{s} \X (1 .. s.n) : s \in B}
             f == [s \in B |-> {s} \X (1 .. s.n)]
  <2>1. f \in Surjection(B, T)
    BY DEF Surjection
  <2>2. IsFiniteSet(T)
    <3> HIDE DEF f, T
    <3> QED BY <2>1, FS_Surjection DEF IsEvidence
  <2>3. ASSUME NEW s \in B PROVE IsFiniteSet({s} \X (1 .. s.n))
    <3>1. s.n \in Int
      BY DEF IsEvidence
    <3>2. IsFiniteSet(1 .. s.n)
      BY <3>1, FS_Interval
    <3>3. IsFiniteSet({s})
      BY FS_Singleton
    <3> QED BY <3>2, <3>3, FS_Product
  <2>4. \A t \in T : IsFiniteSet(t)
    BY <2>3
  <2> HIDE DEF T
  <2>5. IsFiniteSet(UNION T)
    BY <2>2, <2>4, FS_UNION
  <2> QED BY <2>5 DEF T
<1>2. Scores(A) \in SUBSET Scores(B)
  OBVIOUS
<1>3. Total(A) = Cardinality(Scores(A)) /\ Total(B) = Cardinality(Scores(B))
  BY DEF Total
<1> HIDE DEF Scores
<1>4. /\ IsFiniteSet(Scores(A)) /\ Cardinality(Scores(A)) <= Cardinality(Scores(B))
  BY <1>1, <1>2, FS_Subset
<1> QED BY <1>1, <1>3, <1>4, FS_CardinalityType

\* The higher the threshold, the fewer false alarms and the more misses.
LEMMA RatesAreMonotone ==
    ASSUME NEW labelled, IsEvidence(labelled), NEW t \in Int, NEW u \in Int, t <= u
    PROVE  /\ FalseAlarms(labelled, t) \in Nat /\ Misses(labelled, t) \in Nat
           /\ FalseAlarms(labelled, u) <= FalseAlarms(labelled, t)
           /\ Misses(labelled, t) <= Misses(labelled, u)
           /\ Total(Positives(labelled)) \in Nat /\ Total(Negatives(labelled)) \in Nat
<1>1. /\ Positives(labelled) \in SUBSET labelled /\ Negatives(labelled) \in SUBSET labelled
  BY DEF Positives, Negatives
<1>2. IsEvidence(Positives(labelled)) /\ IsEvidence(Negatives(labelled))
  BY <1>1, FS_Subset DEF IsEvidence
<1> DEFINE alarms(x) == {s \in Negatives(labelled) : s.score >= x}
           missed(x) == {s \in Positives(labelled) : s.score < x}
<1>3. alarms(t) \in SUBSET Negatives(labelled) /\ missed(u) \in SUBSET Positives(labelled)
  OBVIOUS
<1>4. alarms(u) \in SUBSET alarms(t) /\ missed(t) \in SUBSET missed(u)
  BY <1>2 DEF IsEvidence
<1>5. /\ FalseAlarms(labelled, t) = Total(alarms(t)) /\ FalseAlarms(labelled, u) = Total(alarms(u))
      /\ Misses(labelled, t) = Total(missed(t)) /\ Misses(labelled, u) = Total(missed(u))
  BY DEF FalseAlarms, Misses
<1> HIDE DEF alarms, missed
<1>6. IsEvidence(alarms(t)) /\ IsEvidence(missed(u))
  BY <1>2, <1>3, FS_Subset DEF IsEvidence
<1>7. /\ Total(alarms(u)) <= Total(alarms(t)) /\ Total(alarms(t)) \in Nat
      /\ Total(missed(t)) <= Total(missed(u)) /\ Total(missed(t)) \in Nat
  BY <1>4, <1>6, TotalGrows
<1>8. Total(Positives(labelled)) \in Nat /\ Total(Negatives(labelled)) \in Nat
  BY <1>1, TotalGrows
<1> QED BY <1>5, <1>7, <1>8

LEMMA MaxOfTwo ==
    ASSUME NEW a \in Int, NEW b \in Int
    PROVE  /\ Max({a, b}) \in Int /\ Max({a, b}) \in {a, b} /\ Max({a, b}) >= a /\ Max({a, b}) >= b
<1>1. \E x \in {a, b} : \A y \in {a, b} : x >= y
  <2>1. CASE a >= b
    BY <2>1
  <2>2. CASE ~(a >= b)
    BY <2>2
  <2> QED BY <2>1, <2>2
<1> QED BY <1>1 DEF Max

LEMMA MinOfTwo ==
    ASSUME NEW a \in Int, NEW b \in Int
    PROVE  /\ Min({a, b}) \in Int /\ Min({a, b}) \in {a, b} /\ Min({a, b}) <= a /\ Min({a, b}) <= b
<1>1. \E x \in {a, b} : \A y \in {a, b} : x <= y
  <2>1. CASE a <= b
    BY <2>1
  <2>2. CASE ~(a <= b)
    BY <2>2
  <2> QED BY <2>1, <2>2
<1> QED BY <1>1 DEF Min

\* Of the points of the grid that improve on the current threshold within the ceiling, the
\* search takes one.
LEMMA RecommendedIsGood ==
    ASSUME NEW labelled, IsEvidence(labelled), NEW current \in 0 .. 1000,
           Recommended(labelled, current) # None
    PROVE  \E t \in Nat :
             /\ Recommended(labelled, current) = Nearest(t)
             /\ FalseAlarms(labelled, t) < FalseAlarms(labelled, 40 * current)
             /\ 1000 * Misses(labelled, t) <= 5 * Total(Positives(labelled))
<1> DEFINE positives == Total(Positives(labelled))
           negatives == Total(Negatives(labelled))
           lo == Max({50, current - 200})
           hi == Min({990, current + 150})
           grid == {40 * lo + i * (hi - lo) : i \in 0 .. 40}
           before == FalseAlarms(labelled, 40 * current)
           good == {t \in grid : /\ WilsonBelow(FalseAlarms(labelled, t), negatives, before)
                                 /\ 1000 * Misses(labelled, t) <= 5 * positives}
           fewest == {t \in good : \A u \in good :
                         FalseAlarms(labelled, t) <= FalseAlarms(labelled, u)}
<1>1. good # {} /\ Recommended(labelled, current) = Nearest(Min(fewest))
  <2>1. Recommended(labelled, current) =
          IF positives + negatives < 20 \/ positives < 10 \/ negatives < 10 \/ good = {} THEN None
          ELSE LET t == Nearest(Min(fewest))
               IN  IF t - current \in -4 .. 4 THEN None ELSE t
    BY Zenon DEF Recommended
  <2> HIDE DEF positives, negatives, good, fewest
  <2> QED BY <2>1
<1>2. lo \in Int /\ hi \in Int /\ 0 <= lo /\ lo <= hi
  <2>3. current - 200 \in Int /\ current + 150 \in Int /\ 50 \in Int /\ 990 \in Int
    OBVIOUS
  <2>1. lo \in Int /\ lo \in {50, current - 200} /\ lo >= 50
    BY ONLY <2>3, MaxOfTwo DEF lo
  <2>2. hi \in Int /\ hi \in {990, current + 150}
    BY ONLY <2>3, MinOfTwo DEF hi
  <2> QED BY <2>1, <2>2
<1>3. grid \in SUBSET Nat
  <2> HIDE DEF lo, hi
  <2>1. ASSUME NEW i \in 0 .. 40 PROVE 40 * lo + i * (hi - lo) \in Nat
    <3>1. hi - lo \in Nat /\ i \in Nat /\ 40 * lo \in Nat
      BY <1>2
    <3> DEFINE d == hi - lo
    <3>2. d \in Nat => i * d \in Nat
      BY <3>1
    <3> HIDE DEF d
    <3>3. i * d \in Nat
      BY <3>1, <3>2 DEF d
    <3>4. 40 * lo + i * d \in Nat
      BY <3>1, <3>3
    <3> QED BY <3>4 DEF d
  <2> QED BY <2>1
<1> HIDE DEF grid
<1>4. good \in SUBSET Nat
  BY <1>3
<1>5. fewest # {} /\ fewest \in SUBSET good
  <2> DEFINE alarms == {FalseAlarms(labelled, t) : t \in good}
  <2>1. \A t \in good : FalseAlarms(labelled, t) \in Nat
    BY <1>4, RatesAreMonotone
  <2>2. alarms \in SUBSET Nat /\ alarms # {}
    BY <1>1, <2>1
  <2> HIDE DEF alarms
  <2>3. PICK a \in alarms : \A b \in alarms : a <= b
    BY <2>2, LeastNatural
  <2> USE DEF alarms
  <2>4. PICK t \in good : a = FalseAlarms(labelled, t)
    OBVIOUS
  <2>5. t \in fewest
    BY <2>3, <2>4
  <2> QED BY <2>5
<1>6. Min(fewest) \in fewest
  <2> HIDE DEF fewest
  <2>1. fewest \in SUBSET Nat
    BY <1>4, <1>5
  <2>2. \E x \in fewest : \A y \in fewest : x <= y
    BY <1>5, <2>1, LeastNatural
  <2> QED BY <2>2 DEF Min
<1> DEFINE t == Min(fewest)
<1>7. t \in good
  BY <1>5, <1>6
<1>8. /\ t \in Nat /\ WilsonBelow(FalseAlarms(labelled, t), negatives, before)
      /\ 1000 * Misses(labelled, t) <= 5 * positives
  BY <1>4, <1>7
<1>9. FalseAlarms(labelled, t) < before
  <2> HIDE DEF t, before
  <2> QED BY <1>8 DEF WilsonBelow
<1>10. Recommended(labelled, current) = Nearest(t)
  BY <1>1
<1> HIDE DEF t
<1> QED BY <1>8, <1>9, <1>10

\* A recommended threshold raises no more false alarms than the current one, since it is no
\* lower.
LEMMA RecommendedRaisesNoAlarm ==
    ASSUME NEW labelled, IsEvidence(labelled), NEW current \in 0 .. 1000,
           Recommended(labelled, current) # None
    PROVE  FalseAlarms(labelled, 40 * Recommended(labelled, current))
             <= FalseAlarms(labelled, 40 * current)
<1>1. PICK u \in Nat :
             /\ Recommended(labelled, current) = Nearest(u)
             /\ FalseAlarms(labelled, u) < FalseAlarms(labelled, 40 * current)
  BY RecommendedIsGood
<1> DEFINE t == Nearest(u)
<1>2. 40 * current \in Int /\ u \in Int
  OBVIOUS
<1>3. u > 40 * current
  <2>1. ASSUME u <= 40 * current PROVE FALSE
    <3>1. /\ FalseAlarms(labelled, u) \in Nat
          /\ FalseAlarms(labelled, 40 * current) <= FalseAlarms(labelled, u)
      BY <1>2, <2>1, RatesAreMonotone
    <3>2. FalseAlarms(labelled, 40 * current) \in Nat
      BY <1>2, RatesAreMonotone
    <3> QED BY <1>1, <3>1, <3>2
  <2> QED BY <1>2, <2>1
<1>4. t \in Nat /\ u + 20 < 40 * t + 40
  BY DEF Nearest
<1> HIDE DEF t
<1>5. 40 * current <= 40 * t /\ 40 * t \in Int
  BY <1>3, <1>4
<1>6. FalseAlarms(labelled, 40 * t) <= FalseAlarms(labelled, 40 * current)
  BY <1>2, <1>5, RatesAreMonotone
<1> QED BY <1>1, <1>6 DEF t

-----------------------------------------------------------------------------
(* Every step keeps the invariant.                                          *)

LEMMA AutomationInvInit == Init => AutomationInv
<1> SUFFICES ASSUME Init PROVE AutomationInv
  OBVIOUS
<1>1. DOMAIN rows = {} /\ rows = [v \in DOMAIN rows |-> rows[v]]
  BY DEF Init
<1>2. IsFiniteSet(DOMAIN rows) /\ Cardinality(DOMAIN rows) = 0
  BY <1>1, FS_EmptySet
<1>3. created = <<>> /\ approvals = <<>> /\ Len(created) = 0
  BY DEF Init
<1>4. created \in Seq(DOMAIN rows) /\ approvals \in Seq(DOMAIN rows)
  BY <1>3
<1>5. RegistryInv
  BY <1>1, <1>2, <1>3, <1>4 DEF RegistryInv, Approved, AutoApprovedOnlyAdds
<1>6. ASSUME NEW f \in Feeds PROVE FeedTyped(f)
  BY DEF Init, IdleFeed, FeedTyped
<1>7. JobsInv
  BY <1>6 DEF Init, JobsInv
<1> QED BY <1>5, <1>7 DEF AutomationInv

LEMMA AutomationInvNext == AutomationInv /\ [Next]_vars => AutomationInv'
<1> SUFFICES ASSUME AutomationInv, [Next]_vars PROVE AutomationInv'
  OBVIOUS
<1>1. ASSUME NEW v \in Releases, NEW input \in Drafted, Author(v, input) PROVE AutomationInv'
  BY <1>1, AuthorKeeps
<1>2. ASSUME NEW v \in Reviewed \cap DOMAIN rows, Review(v) PROVE AutomationInv'
  BY <1>2, ReviewKeeps
<1>3. ASSUME NEW rules \in Rulesets, NewRuleset(rules) PROVE AutomationInv'
  <2>1. UNCHANGED registry /\ UNCHANGED <<feed, tuner>> /\ source' \in Rulesets
    BY <1>3 DEF NewRuleset
  <2>2. RegistryInv' /\ Grows
    BY <2>1, RegistryKeeps DEF AutomationInv
  <2>3. JobsInv'
    BY <2>1, <2>2 DEF AutomationInv, JobsInv, FeedTyped, Grows
  <2> QED BY <2>2, <2>3 DEF AutomationInv
<1>4. ASSUME NEW f \in Feeds, FeedLoad(f) PROVE AutomationInv'
  <2> DEFINE next == [pc |-> "loaded", rules |-> source, base |-> None]
  <2>1. /\ UNCHANGED registry /\ UNCHANGED <<source, tuner>>
        /\ feed' = [feed EXCEPT ![f] = next]
    BY <1>4 DEF FeedLoad
  <2>2. RegistryInv' /\ Grows
    BY <2>1, RegistryKeeps DEF AutomationInv
  <2>3. /\ next = [pc |-> next.pc, rules |-> next.rules, base |-> next.base]
        /\ next.pc = "loaded" /\ next.rules \in Rulesets \cup {<<>>}
        /\ next.base \in DOMAIN rows \cup {None}
    BY DEF AutomationInv, JobsInv
  <2> HIDE DEF next
  <2> QED BY <2>1, <2>2, <2>3, FeedStepKeeps
<1>5. ASSUME NEW f \in Feeds, FeedRead(f) PROVE AutomationInv'
  BY <1>5, FeedReadKeeps
<1>6. ASSUME NEW f \in Feeds, FeedPost(f) PROVE AutomationInv'
  BY <1>6, FeedPostKeeps
<1>7. ASSUME NEW f \in Feeds, FeedFails(f) PROVE AutomationInv'
  <2>1. UNCHANGED registry /\ UNCHANGED <<source, tuner>> /\ feed' = [feed EXCEPT ![f] = IdleFeed]
    BY <1>7 DEF FeedFails
  <2> QED BY <2>1, RegistryKeeps, IdleKeeps DEF AutomationInv
<1>8. ASSUME TunerRead \/ TunerFails PROVE AutomationInv'
  <2>1. UNCHANGED registry /\ UNCHANGED <<source, feed>>
    BY <1>8 DEF TunerRead, TunerFails
  <2>2. RegistryInv' /\ Grows
    BY <2>1, RegistryKeeps DEF AutomationInv
  <2>3. tuner' # None => tuner' \in DOMAIN rows /\ Bump(tuner') \in Versions
    BY <1>8, BaseIsApproved DEF TunerRead, TunerFails, AutomationInv
  <2>4. JobsInv'
    BY <2>1, <2>2, <2>3 DEF AutomationInv, JobsInv, FeedTyped, Grows
  <2> QED BY <2>2, <2>4 DEF AutomationInv
<1>9. ASSUME NEW evidence \in Evidences, TunerPost(evidence) PROVE AutomationInv'
  BY <1>9, TunerPostKeeps
<1>10. ASSUME NEW candidates \in Extractions, Synthesize(candidates) PROVE AutomationInv'
  BY <1>10, SynthesizeKeeps
<1>11. ASSUME UNCHANGED vars PROVE AutomationInv'
  <2>1. UNCHANGED registry /\ UNCHANGED <<source, feed, tuner>>
    BY <1>11 DEF vars, registry
  <2> QED BY <2>1, RegistryKeeps, JobsKeep DEF AutomationInv
<1> QED BY <1>1, <1>2, <1>3, <1>4, <1>5, <1>6, <1>7, <1>8, <1>9, <1>10, <1>11 DEF Next

LEMMA AutomationInvAlways == Spec => []AutomationInv
  BY AutomationInvInit, AutomationInvNext, PTL DEF Spec

-----------------------------------------------------------------------------
(* What the synthesizer compiles.                                           *)

\* No two groups have one key, and each holds what of M has its key.
IsGrouping(groups, M) ==
    /\ \A j, k \in DOMAIN groups : Key(groups[j][1]) = Key(groups[k][1]) => j = k
    /\ \A k \in DOMAIN groups : ToSet(groups[k]) = {c \in M : Key(c) = Key(groups[k][1])}
    /\ \A c \in M : \E k \in DOMAIN groups : Key(groups[k][1]) = Key(c)

\* Non-empty groups of candidates of S.
GroupsOf(S) == Seq(Seq(S) \ {<<>>})

\* What a group is after another candidate.
LEMMA GroupGrows ==
    ASSUME NEW S, NEW group \in Seq(S) \ {<<>>}, NEW c \in S
    PROVE  /\ Append(group, c) \in Seq(S) \ {<<>>} /\ Append(group, c)[1] = group[1]
           /\ ToSet(Append(group, c)) = ToSet(group) \cup {c}
<1>1. Len(group) \in Nat /\ Len(group) # 0
  OBVIOUS
<1>2. /\ Append(group, c) \in Seq(S) /\ Len(Append(group, c)) = Len(group) + 1
      /\ ToSet(Append(group, c)) = ToSet(group) \cup {c}
  BY ToSetAppend
<1>3. Append(group, c)[1] = group[1]
  BY <1>1
<1> QED BY <1>1, <1>2, <1>3

\* The dictionary of groups stays one when a candidate is put in.
LEMMA IntoKeeps ==
    ASSUME NEW S, NEW groups \in GroupsOf(S), NEW M, IsGrouping(groups, M), NEW c \in S
    PROVE  Into(groups, c) \in GroupsOf(S) /\ IsGrouping(Into(groups, c), M \cup {c})
<1> DEFINE new == Into(groups, c)
           N == M \cup {c}
<1>1. /\ DOMAIN groups = 1 .. Len(groups) /\ Len(groups) \in Nat
      /\ \A k \in DOMAIN groups : groups[k] \in Seq(S) \ {<<>>}
  BY DEF GroupsOf
<1>2. ASSUME NEW h \in DOMAIN groups, Key(groups[h][1]) = Key(c)
      PROVE  new \in GroupsOf(S) /\ IsGrouping(new, N)
  <2>1. /\ DOMAIN new = DOMAIN groups
        /\ \A k \in DOMAIN groups : new[k] =
             IF Key(groups[k][1]) = Key(c) THEN Append(groups[k], c) ELSE groups[k]
    BY <1>2 DEF Into
  <2> HIDE DEF new
  <2>2. ASSUME NEW k \in DOMAIN groups
        PROVE  /\ new[k] \in Seq(S) \ {<<>>} /\ new[k][1] = groups[k][1]
               /\ ToSet(new[k]) = {d \in N : Key(d) = Key(groups[k][1])}
    <3>1. ToSet(groups[k]) = {d \in M : Key(d) = Key(groups[k][1])}
      BY DEF IsGrouping
    <3>2. CASE Key(groups[k][1]) = Key(c)
      <4>1. new[k] = Append(groups[k], c)
        BY <2>1, <3>2
      <4>2. /\ Append(groups[k], c) \in Seq(S) \ {<<>>} /\ Append(groups[k], c)[1] = groups[k][1]
            /\ ToSet(Append(groups[k], c)) = ToSet(groups[k]) \cup {c}
        BY <1>1, GroupGrows
      <4> QED BY <3>1, <3>2, <4>1, <4>2
    <3>3. CASE Key(groups[k][1]) # Key(c)
      <4>1. new[k] = groups[k]
        BY <2>1, <3>3
      <4> QED BY <1>1, <3>1, <3>3, <4>1
    <3> QED BY <3>2, <3>3
  <2>3. new \in GroupsOf(S)
    <3>1. new = [k \in 1 .. Len(groups) |-> new[k]]
      <4>1. new = [k \in DOMAIN groups |-> IF Key(groups[k][1]) = Key(c)
                                            THEN Append(groups[k], c) ELSE groups[k]]
        BY <1>2 DEF new, Into
      <4> QED BY <1>1, <4>1
    <3> QED BY <1>1, <2>2, <3>1 DEF GroupsOf
  <2>4. \A j, k \in DOMAIN new : Key(new[j][1]) = Key(new[k][1]) => j = k
    BY <2>1, <2>2 DEF IsGrouping
  <2>5. \A k \in DOMAIN new : ToSet(new[k]) = {d \in N : Key(d) = Key(new[k][1])}
    BY <2>1, <2>2
  <2>6. \A d \in N : \E k \in DOMAIN new : Key(new[k][1]) = Key(d)
    BY <1>2, <2>1, <2>2 DEF IsGrouping
  <2> QED BY <2>3, <2>4, <2>5, <2>6 DEF IsGrouping
<1>3. ASSUME \A k \in DOMAIN groups : Key(groups[k][1]) # Key(c)
      PROVE  new \in GroupsOf(S) /\ IsGrouping(new, N)
  <2> DEFINE n == Len(groups) + 1
  <2>1. new = Append(groups, <<c>>)
    BY <1>3 DEF Into
  <2>2. <<c>> \in Seq(S) \ {<<>>} /\ ToSet(<<c>>) = {c} /\ <<c>>[1] = c
    BY DEF ToSet
  <2> HIDE DEF new
  <2>3. /\ new \in GroupsOf(S) /\ DOMAIN new = DOMAIN groups \cup {n}
        /\ new[n] = <<c>> /\ n \notin DOMAIN groups
        /\ \A k \in DOMAIN groups : new[k] = groups[k]
    BY <1>1, <2>1, <2>2 DEF GroupsOf
  <2> HIDE DEF n
  <2>4. new[n][1] = c
    BY <2>2, <2>3
  <2>5. \A j, k \in DOMAIN new : Key(new[j][1]) = Key(new[k][1]) => j = k
    BY <1>3, <2>3, <2>4 DEF IsGrouping
  <2>6. ASSUME NEW d \in M PROVE Key(d) # Key(c)
    BY <1>3 DEF IsGrouping
  <2>7. ASSUME NEW k \in DOMAIN new PROVE ToSet(new[k]) = {d \in N : Key(d) = Key(new[k][1])}
    <3>1. CASE k \in DOMAIN groups
      <4>1. new[k] = groups[k] /\ ToSet(groups[k]) = {d \in M : Key(d) = Key(groups[k][1])}
        BY <2>3, <3>1 DEF IsGrouping
      <4> QED BY <1>3, <3>1, <4>1
    <3>2. CASE k = n
      BY <2>2, <2>3, <2>6, <3>2
    <3> QED BY <2>3, <3>1, <3>2
  <2>8. \A d \in N : \E k \in DOMAIN new : Key(new[k][1]) = Key(d)
    BY <2>3, <2>4 DEF IsGrouping
  <2> QED BY <2>3, <2>5, <2>7, <2>8 DEF IsGrouping
<1> QED BY <1>2, <1>3

\* One step of the loop over the candidates.
Grouped(f, n, candidates) ==
    IF n = 0 THEN <<>>
    ELSE IF candidates[n].scenario \notin Scenarios THEN f[n - 1]
    ELSE Into(f[n - 1], candidates[n])

IsGrouped(f, m, candidates) == f = [n \in 0 .. m |-> Grouped(f, n, candidates)]

\* The mapped among the first n candidates.
MappedTo(candidates, n) ==
    {candidates[i] : i \in {j \in 1 .. n : candidates[j].scenario \in Scenarios}}

\* The loop has a result for every prefix of the list.
LEMMA GroupedExists ==
    ASSUME NEW candidates, NEW len \in Nat
    PROVE  \E f : IsGrouped(f, len, candidates)
<1> DEFINE Bad == {m \in 0 .. len : ~\E f : IsGrouped(f, m, candidates)}
<1>1. Bad = {}
  <2> SUFFICES ASSUME Bad # {} PROVE FALSE
    OBVIOUS
  <2>1. Bad \in SUBSET Nat
    OBVIOUS
  <2>2. PICK m \in Bad : \A k \in Bad : m <= k
    <3> HIDE DEF Bad
    <3> QED BY <2>1, LeastNatural
  <2>3. ASSUME m = 0 PROVE FALSE
    <3> DEFINE f == [n \in 0 .. 0 |-> <<>>]
    <3>1. IsGrouped(f, 0, candidates)
      BY DEF Grouped, IsGrouped
    <3> HIDE DEF f
    <3> QED BY <2>3, <3>1
  <2>4. ASSUME m # 0 PROVE FALSE
    <3>1. m - 1 \in 0 .. len /\ ~(m <= m - 1) /\ m \in Nat
      BY <2>4
    <3>2. PICK f : IsGrouped(f, m - 1, candidates)
      BY <2>2, <3>1
    <3> DEFINE g == [n \in 0 .. m |-> IF n = m THEN Grouped(f, m, candidates) ELSE f[n]]
    <3>3. ASSUME NEW n \in 0 .. m PROVE g[n] = Grouped(g, n, candidates)
      <4>1. n # 0 => g[n - 1] = f[n - 1]
        BY <3>1
      <4>2. Grouped(g, n, candidates) = Grouped(f, n, candidates)
        BY <4>1 DEF Grouped
      <4>3. n # m => n \in 0 .. m - 1
        BY <3>1
      <4>4. n # m => f[n] = Grouped(f, n, candidates)
        BY <3>2, <4>3 DEF IsGrouped
      <4> QED BY <4>2, <4>4
    <3>4. IsGrouped(g, m, candidates)
      <4>1. g = [n \in 0 .. m |-> g[n]]
        OBVIOUS
      <4> HIDE DEF g
      <4> QED BY <3>3, <4>1 DEF IsGrouped
    <3> HIDE DEF g
    <3> QED BY <3>4
  <2> QED BY <2>3, <2>4
<1>2. len \in 0 .. len
  OBVIOUS
<1> QED BY <1>1, <1>2

\* So it groups what was mapped.
LEMMA LoopGroups ==
    ASSUME NEW S, NEW candidates \in Seq(S), NEW f, IsGrouped(f, Len(candidates), candidates)
    PROVE  /\ f[Len(candidates)] \in GroupsOf(S)
           /\ IsGrouping(f[Len(candidates)], MappedTo(candidates, Len(candidates)))
<1> DEFINE Ok(m) == f[m] \in GroupsOf(S) /\ IsGrouping(f[m], MappedTo(candidates, m))
           Bad == {m \in 0 .. Len(candidates) : ~Ok(m)}
<1>0. \A m \in 0 .. Len(candidates) : f[m] = Grouped(f, m, candidates)
  BY DEF IsGrouped
<1>1. Bad = {}
  <2> SUFFICES ASSUME Bad # {} PROVE FALSE
    OBVIOUS
  <2>1. Bad \in SUBSET Nat
    OBVIOUS
  <2>2. PICK m \in Bad : \A k \in Bad : m <= k
    <3> HIDE DEF Bad
    <3> QED BY <2>1, LeastNatural
  <2>3. m \in 0 .. Len(candidates) /\ Len(candidates) \in Nat
    OBVIOUS
  <2>4. ASSUME m = 0 PROVE FALSE
    <3>1. f[0] = <<>>
      BY <1>0, <2>3, <2>4 DEF Grouped
    <3>2. MappedTo(candidates, 0) = {}
      BY DEF MappedTo
    <3>3. <<>> \in GroupsOf(S) /\ DOMAIN <<>> = {}
      BY DEF GroupsOf
    <3>4. IsGrouping(<<>>, {})
      BY <3>3 DEF IsGrouping
    <3> QED BY <2>2, <2>4, <3>1, <3>2, <3>3, <3>4
  <2>5. ASSUME m # 0 PROVE FALSE
    <3>1. m - 1 \in 0 .. Len(candidates) /\ ~(m <= m - 1) /\ m \in 1 .. Len(candidates) /\ m \in Nat
      BY <2>3, <2>5
    <3>2. Ok(m - 1)
      BY <2>2, <3>1
    <3>3. candidates[m] \in S
      BY <3>1
    <3>4. 1 .. m = 1 .. (m - 1) \cup {m}
      BY <3>1
    <3>5. CASE candidates[m].scenario \notin Scenarios
      <4>1. f[m] = f[m - 1]
        BY <1>0, <2>3, <2>5, <3>5 DEF Grouped
      <4>2. MappedTo(candidates, m) = MappedTo(candidates, m - 1)
        BY <3>4, <3>5 DEF MappedTo
      <4> QED BY <2>2, <3>2, <4>1, <4>2
    <3>6. CASE candidates[m].scenario \in Scenarios
      <4>1. f[m] = Into(f[m - 1], candidates[m])
        BY <1>0, <2>3, <2>5, <3>6 DEF Grouped
      <4>2. MappedTo(candidates, m) = MappedTo(candidates, m - 1) \cup {candidates[m]}
        BY <3>4, <3>6 DEF MappedTo
      <4>3. /\ f[m - 1] \in GroupsOf(S)
            /\ IsGrouping(f[m - 1], MappedTo(candidates, m - 1))
        BY <3>2
      <4>4. /\ Into(f[m - 1], candidates[m]) \in GroupsOf(S)
            /\ IsGrouping(Into(f[m - 1], candidates[m]),
                          MappedTo(candidates, m - 1) \cup {candidates[m]})
        BY <3>3, <4>3, IntoKeeps
      <4>5. Ok(m)
        BY <4>1, <4>2, <4>4
      <4> QED BY <2>2, <4>5
    <3> QED BY <3>5, <3>6
  <2> QED BY <2>4, <2>5
<1>2. Len(candidates) \in 0 .. Len(candidates)
  OBVIOUS
<1>3. Ok(Len(candidates))
  BY <1>1, <1>2
<1> QED BY <1>3

\* The groups of a list of candidates.
LEMMA GroupsAreGroups ==
    ASSUME NEW S, NEW candidates \in Seq(S)
    PROVE  /\ Groups(candidates) \in GroupsOf(S)
           /\ IsGrouping(Groups(candidates), Mapped(candidates))
<1> DEFINE loop == CHOOSE f : f = [n \in 0 .. Len(candidates) |->
                      IF n = 0 THEN <<>>
                      ELSE IF candidates[n].scenario \notin Scenarios THEN f[n - 1]
                      ELSE Into(f[n - 1], candidates[n])]
<1>1. Groups(candidates) = loop[Len(candidates)]
  BY DEF Groups
<1>2. \E f : f = [n \in 0 .. Len(candidates) |->
                      IF n = 0 THEN <<>>
                      ELSE IF candidates[n].scenario \notin Scenarios THEN f[n - 1]
                      ELSE Into(f[n - 1], candidates[n])]
  <2>1. PICK f : IsGrouped(f, Len(candidates), candidates)
    BY GroupedExists
  <2>2. f = [n \in 0 .. Len(candidates) |->
                      IF n = 0 THEN <<>>
                      ELSE IF candidates[n].scenario \notin Scenarios THEN f[n - 1]
                      ELSE Into(f[n - 1], candidates[n])]
    BY <2>1 DEF IsGrouped, Grouped
  <2> QED BY <2>2
<1>3. IsGrouped(loop, Len(candidates), candidates)
  BY <1>2 DEF IsGrouped, Grouped
<1> HIDE DEF loop
<1>4. MappedTo(candidates, Len(candidates)) = Mapped(candidates)
  <2>1. DOMAIN candidates = 1 .. Len(candidates)
    OBVIOUS
  <2> QED BY <2>1 DEF MappedTo, Mapped, ToSet
<1> QED BY <1>1, <1>3, <1>4, LoopGroups

\* The first of greatest severity is there, and no severity of the group is above its own.
LEMMA HighestOfGroup ==
    ASSUME NEW S, NEW group \in Seq(S) \ {<<>>}
    PROVE  /\ Highest(group) \in ToSet(group)
           /\ \A c \in ToSet(group) : Rank(c) <= Rank(Highest(group))
<1> DEFINE Ranks == {Rank(group[i]) : i \in DOMAIN group}
           Top(r) == {i \in DOMAIN group : Rank(group[i]) = r}
<1>1. DOMAIN group = 1 .. Len(group) /\ Len(group) \in Nat /\ 1 \in DOMAIN group
  <2>1. Len(group) \in Nat /\ Len(group) # 0
    OBVIOUS
  <2> QED BY <2>1
<1>2. \A c : Rank(c) \in {0, 1, 2}
  BY DEF Rank
<1>3. PICK r \in Ranks : \A s \in Ranks : s <= r
  <2>1. Ranks \in SUBSET {0, 1, 2} /\ Ranks # {}
    BY <1>1, <1>2
  <2> HIDE DEF Ranks
  <2>2. CASE 2 \in Ranks
    BY <2>1, <2>2
  <2>3. CASE 2 \notin Ranks /\ 1 \in Ranks
    BY <2>1, <2>3
  <2>4. CASE 2 \notin Ranks /\ 1 \notin Ranks
    <3>1. Ranks = {0}
      BY <2>1, <2>4
    <3> QED BY <3>1
  <2> QED BY <2>2, <2>3, <2>4
<1>4. Top(r) \in SUBSET Nat /\ Top(r) # {}
  BY <1>1
<1>5. PICK i \in Top(r) : \A j \in Top(r) : i <= j
  <2> HIDE DEF Top
  <2> QED BY <1>4, LeastNatural
<1>6. /\ i \in DOMAIN group
      /\ \A j \in DOMAIN group :
           Rank(group[j]) < Rank(group[i]) \/ (Rank(group[j]) = Rank(group[i]) /\ i <= j)
  <2>1. i \in DOMAIN group /\ Rank(group[i]) = r
    OBVIOUS
  <2>2. ASSUME NEW j \in DOMAIN group
        PROVE  Rank(group[j]) < r \/ (Rank(group[j]) = r /\ i <= j)
    <3>1. Rank(group[j]) <= r /\ Rank(group[j]) \in Int /\ r \in Int
      BY <1>2, <1>3, <2>1
    <3>2. Rank(group[j]) = r => j \in Top(r)
      OBVIOUS
    <3> HIDE DEF Top
    <3>3. Rank(group[j]) = r => i <= j
      BY <1>5, <3>2
    <3> QED BY <3>1, <3>3
  <2> QED BY <2>1, <2>2
<1> DEFINE h == CHOOSE k \in DOMAIN group : \A j \in DOMAIN group :
                  Rank(group[j]) < Rank(group[k]) \/ (Rank(group[j]) = Rank(group[k]) /\ k <= j)
<1>7. /\ h \in DOMAIN group
      /\ \A j \in DOMAIN group :
           Rank(group[j]) < Rank(group[h]) \/ (Rank(group[j]) = Rank(group[h]) /\ h <= j)
  BY <1>6
<1>8. Highest(group) = group[h]
  BY DEF Highest
<1> HIDE DEF h
<1>9. \A j \in DOMAIN group : Rank(group[j]) <= Rank(group[h])
  <2>1. \A j \in DOMAIN group : Rank(group[j]) \in Int
    BY <1>2
  <2> QED BY <1>7, <2>1
<1> QED BY <1>7, <1>8, <1>9 DEF ToSet

\* What is counted up to a later position, itself included, is more.
LEMMA CountGrows ==
    ASSUME NEW n \in Nat, NEW T \in SUBSET (1 .. n), NEW k \in T, NEW j \in T, j < k
    PROVE  Cardinality({i \in T : i <= j}) # Cardinality({i \in T : i <= k})
<1> DEFINE J == {i \in T : i <= j}
           K == {i \in T : i <= k}
<1>1. IsFiniteSet(K)
  <2>1. IsFiniteSet(1 .. n)
    BY FS_Interval
  <2>2. K \in SUBSET (1 .. n)
    OBVIOUS
  <2> HIDE DEF K
  <2> QED BY <2>1, <2>2, FS_Subset
<1>2. J \in SUBSET K /\ J # K
  <2>1. k \in K /\ k \notin J
    OBVIOUS
  <2>2. \A i \in T : i \in Int /\ (i <= j => i <= k)
    OBVIOUS
  <2> QED BY <2>1, <2>2
<1> HIDE DEF J, K
<1>3. Cardinality(J) # Cardinality(K)
  BY <1>1, <1>2, FS_Subset
<1> QED BY <1>3 DEF J, K

\* The guards that are compiled account for every candidate.
LEMMA CompiledIsAccountable ==
    ASSUME NEW S, NEW candidates \in Seq(S), ~Unrankable(candidates)
    PROVE  Accountable(candidates, CompileGuards(candidates))
<1> DEFINE groups == Groups(candidates)
           guards == CompileGuards(candidates)
           mapped == Mapped(candidates)
           Number(k) == Cardinality({j \in 1 .. k : groups[j][1].scenario = groups[k][1].scenario})
<1>1. groups \in GroupsOf(S) /\ IsGrouping(groups, mapped)
  BY GroupsAreGroups
<1>2. /\ DOMAIN guards = DOMAIN groups
      /\ \A k \in DOMAIN groups :
           /\ guards[k].id = <<"g-synth", Highest(groups[k]).scenario, Number(k)>>
           /\ guards[k].scenario = Highest(groups[k]).scenario
           /\ guards[k].direction = Highest(groups[k]).direction
           /\ guards[k].threshold = SeverityTable[Highest(groups[k]).severity]
           /\ Highest(groups[k]).severity = "high" => guards[k].on_fail = "block"
           /\ guards[k].provenance = [i \in DOMAIN groups[k] |-> groups[k][i].anchor]
  BY DEF CompileGuards
<1>3. \A k \in DOMAIN groups : Highest(groups[k]).severity \in DOMAIN SeverityTable
  BY DEF Unrankable
<1> HIDE DEF groups, guards, mapped
<1>4. /\ DOMAIN groups = 1 .. Len(groups) /\ Len(groups) \in Nat
      /\ \A k \in DOMAIN groups : groups[k] \in Seq(S) \ {<<>>}
  BY <1>1 DEF GroupsOf
<1>5. ASSUME NEW k \in DOMAIN groups
      PROVE  /\ Highest(groups[k]) \in ToSet(groups[k]) /\ groups[k][1] \in ToSet(groups[k])
             /\ \A c \in ToSet(groups[k]) : Rank(c) <= Rank(Highest(groups[k]))
  <2>1. groups[k] \in Seq(S) \ {<<>>}
    BY <1>4
  <2>2. 1 \in DOMAIN groups[k]
    <3>1. Len(groups[k]) \in Nat /\ Len(groups[k]) # 0 /\ DOMAIN groups[k] = 1 .. Len(groups[k])
      BY <2>1
    <3> QED BY <3>1
  <2> QED BY <2>1, <2>2, HighestOfGroup DEF ToSet
<1>6. ASSUME NEW k \in DOMAIN groups
      PROVE  /\ Key(guards[k]) = Key(groups[k][1]) /\ guards[k].scenario = groups[k][1].scenario
             /\ ToSet(groups[k]) = {c \in mapped : Key(c) = Key(guards[k])}
  <2>1. ToSet(groups[k]) = {c \in mapped : Key(c) = Key(groups[k][1])}
    BY <1>1 DEF IsGrouping
  <2>2. Key(Highest(groups[k])) = Key(groups[k][1])
    BY <1>5, <2>1
  <2>3. Key(guards[k]) = Key(Highest(groups[k])) /\ guards[k].scenario = Highest(groups[k]).scenario
    BY <1>2 DEF Key
  <2> QED BY <2>1, <2>2, <2>3 DEF Key
<1>7. ASSUME NEW j \in DOMAIN guards, NEW k \in DOMAIN guards, Key(guards[j]) = Key(guards[k])
      PROVE  j = k
  BY <1>1, <1>2, <1>6, <1>7 DEF IsGrouping
<1>8. ASSUME NEW j \in DOMAIN guards, NEW k \in DOMAIN guards, guards[j].id = guards[k].id, j < k
      PROVE  FALSE
  <2> DEFINE T == {i \in 1 .. Len(groups) : groups[i][1].scenario = groups[k][1].scenario}
  <2>1. guards[j].scenario = guards[k].scenario /\ Number(j) = Number(k)
    <3>1. j \in DOMAIN groups /\ k \in DOMAIN groups
      BY <1>2
    <3> DEFINE nj == Number(j)
               nk == Number(k)
               sj == Highest(groups[j]).scenario
               sk == Highest(groups[k]).scenario
    <3>2. guards[j].id = <<"g-synth", sj, nj>> /\ guards[k].id = <<"g-synth", sk, nk>>
      BY <1>2, <3>1
    <3> HIDE DEF nj, nk, sj, sk
    <3>3. <<"g-synth", sj, nj>> = <<"g-synth", sk, nk>>
      BY <1>8, <3>2
    <3>5. sj = sk /\ nj = nk
      BY <3>3
    <3>4. /\ guards[j].scenario = Highest(groups[j]).scenario
          /\ guards[k].scenario = Highest(groups[k]).scenario
      BY <1>2, <3>1
    <3> QED BY <3>4, <3>5 DEF nj, nk, sj, sk
  <2>2. groups[j][1].scenario = groups[k][1].scenario
    BY <1>2, <1>6, <2>1
  <2>3. /\ j \in 1 .. Len(groups) /\ k \in 1 .. Len(groups) /\ j \in T /\ k \in T
        /\ T \in SUBSET (1 .. Len(groups))
    BY <1>2, <1>4, <2>2
  <2>4. /\ {i \in T : i <= j} = {i \in 1 .. j : groups[i][1].scenario = groups[j][1].scenario}
        /\ {i \in T : i <= k} = {i \in 1 .. k : groups[i][1].scenario = groups[k][1].scenario}
    BY <1>4, <2>2, <2>3
  <2>5. Cardinality({i \in T : i <= j}) # Cardinality({i \in T : i <= k})
    <3> HIDE DEF T
    <3> QED BY <1>4, <1>8, <2>3, CountGrows
  <2> QED BY <2>1, <2>4, <2>5
<1>9. \A j, k \in DOMAIN guards : guards[j].id = guards[k].id => j = k
  <2>1. \A j, k \in DOMAIN guards : j < k \/ k < j \/ j = k
    BY <1>2, <1>4
  <2> QED BY <1>8, <2>1
<1>10. ASSUME NEW k \in DOMAIN guards
       PROVE  /\ {c \in mapped : Key(c) = Key(guards[k])} # {}
              /\ ToSet(guards[k].provenance) =
                   {c.anchor : c \in {d \in mapped : Key(d) = Key(guards[k])}}
  <2>1. ToSet(groups[k]) = {c \in mapped : Key(c) = Key(guards[k])}
    BY <1>2, <1>6
  <2>2. groups[k][1] \in ToSet(groups[k])
    BY <1>2, <1>5
  <2>3. guards[k].provenance = [i \in DOMAIN groups[k] |-> groups[k][i].anchor]
    BY <1>2
  <2>4. ToSet(guards[k].provenance) = {c.anchor : c \in ToSet(groups[k])}
    BY <2>3 DEF ToSet
  <2> QED BY <2>1, <2>2, <2>4
<1>11. ASSUME NEW c \in mapped
       PROVE  \E k \in DOMAIN guards :
                /\ {j \in DOMAIN guards : Key(guards[j]) = Key(c)} = {k}
                /\ c.severity \in DOMAIN SeverityTable =>
                     guards[k].threshold <= SeverityTable[c.severity]
                /\ c.severity = "high" => guards[k].on_fail = "block"
  <2>1. PICK k \in DOMAIN guards : Key(guards[k]) = Key(c)
    BY <1>1, <1>2, <1>6 DEF IsGrouping
  <2>2. {j \in DOMAIN guards : Key(guards[j]) = Key(c)} = {k}
    BY <1>7, <2>1
  <2> DEFINE h == Highest(groups[k])
  <2>3. Rank(c) <= Rank(h) /\ h.severity \in {"low", "medium", "high"}
    <3>1. c \in ToSet(groups[k])
      BY <1>2, <1>6, <2>1
    <3>2. DOMAIN SeverityTable = {"low", "medium", "high"}
      BY DEF SeverityTable
    <3> QED BY <1>2, <1>3, <1>5, <3>1, <3>2
  <2>4. /\ guards[k].threshold = SeverityTable[h.severity]
        /\ h.severity = "high" => guards[k].on_fail = "block"
    BY <1>2
  <2> HIDE DEF h
  <2>5. c.severity = "high" => h.severity = "high"
    BY <2>3 DEF Rank
  <2>6. c.severity \in DOMAIN SeverityTable => SeverityTable[h.severity] <= SeverityTable[c.severity]
    <3>1. /\ DOMAIN SeverityTable = {"low", "medium", "high"} /\ SeverityTable["low"] = 850
          /\ SeverityTable["medium"] = 750 /\ SeverityTable["high"] = 650
      BY DEF SeverityTable
    <3>2. c.severity = "medium" => h.severity # "low"
      BY <2>3 DEF Rank
    <3> QED BY <2>3, <2>5, <3>1, <3>2
  <2> QED BY <2>2, <2>4, <2>5, <2>6
<1> QED BY <1>9, <1>10, <1>11 DEF Accountable, guards, mapped

-----------------------------------------------------------------------------
(* What the tuner and the synthesizer proposed.                             *)

\* The guards are a list, and their thresholds are probabilities.
ThresholdsInRange(doc) ==
    /\ doc.guards \in Seq(ToSet(doc.guards))
    /\ \A i \in DOMAIN doc.guards :
         "threshold" \in DOMAIN doc.guards[i] => doc.guards[i].threshold \in 0 .. 1000

\* A proposal of the tuner is what it made of its parent, which is still as it was read.
TunedFromParent(v) ==
    rows[v].origin = "autotuner" =>
        /\ rows[v].parent \in DOMAIN rows /\ rows[v].ref \in Evidences
        /\ rows[v].doc.guards = Retune(rows[rows[v].parent].doc, rows[v].ref).guards

\* A proposal of the synthesizer is what it compiled from an extraction that it could rank.
SynthesizedFromText(v) ==
    rows[v].origin = "synthesizer" =>
        /\ rows[v].ref \in Extractions /\ ~Unrankable(rows[v].ref)
        /\ rows[v].doc.guards = CompileGuards(rows[v].ref)

Proposed(v) ==
    ThresholdsInRange(rows[v].doc) /\ TunedFromParent(v) /\ SynthesizedFromText(v)

ProposalsInv == \A v \in DOMAIN rows : Proposed(v)

\* What is there stays as it is but for its status.
SameButStatus(v) ==
    /\ rows'[v].origin = rows[v].origin /\ rows'[v].parent = rows[v].parent
    /\ rows'[v].ref = rows[v].ref /\ rows'[v].doc = rows[v].doc

LEMMA SameKeepsProposed ==
    ASSUME ProposalsInv, DOMAIN rows \subseteq DOMAIN rows', \A v \in DOMAIN rows : SameButStatus(v),
           NEW v \in DOMAIN rows
    PROVE  Proposed(v)'
  BY DEF ProposalsInv, SameButStatus, Proposed, TunedFromParent, SynthesizedFromText

LEMMA SubmitKeepsProposals ==
    ASSUME ProposalsInv, NEW v, NEW doc, NEW origin, NEW class, NEW parent, NEW ref,
           Submit(v, doc, origin, class, parent, ref),
           origin = "autotuner" =>
             /\ parent \in DOMAIN rows /\ ref \in Evidences
             /\ doc.guards = Retune(rows[parent].doc, ref).guards,
           origin = "synthesizer" =>
             /\ ref \in Extractions /\ ~Unrankable(ref)
             /\ doc.guards = CompileGuards(ref)
    PROVE  ProposalsInv'
<1>1. ASSUME UNCHANGED registry PROVE ProposalsInv'
  BY <1>1 DEF ProposalsInv, registry, Proposed, TunedFromParent, SynthesizedFromText
<1>2. ASSUME ~UNCHANGED registry PROVE ProposalsInv'
  <2> DEFINE auto == AutoApproves(origin, class)
             new == WithMeta(doc, doc.meta \cup {"tenant", "status", "created_by", "origin"}
                                    \cup (IF auto THEN ApprovalKeys ELSE {}))
             row == [status |-> IF auto THEN "approved" ELSE "draft", auto |-> auto,
                     origin |-> origin, parent |-> parent, ref |-> ref, doc |-> new]
  <2>1. /\ v \notin DOMAIN rows /\ Accepted(doc)
        /\ rows' = [w \in DOMAIN rows \cup {v} |-> IF w = v THEN row ELSE rows[w]]
    BY <1>2 DEF Submit
  <2>2. new.guards = doc.guards
    BY DEF WithMeta
  <2> HIDE DEF auto, new
  <2>3. row.origin = origin /\ row.parent = parent /\ row.ref = ref /\ row.doc = new
    OBVIOUS
  <2> HIDE DEF row
  <2>4. /\ DOMAIN rows' = DOMAIN rows \cup {v} /\ rows'[v] = row
        /\ \A w \in DOMAIN rows : rows'[w] = rows[w]
    BY <2>1
  <2>5. ThresholdsInRange(row.doc)
    BY <2>1, <2>2, <2>3 DEF Accepted, ValidSchema, ValidGuard, ThresholdsInRange
  <2>6. TunedFromParent(v)' /\ SynthesizedFromText(v)'
    BY <2>2, <2>3, <2>4 DEF TunedFromParent, SynthesizedFromText
  <2>7. \A w \in DOMAIN rows : SameButStatus(w)
    BY <2>4 DEF SameButStatus
  <2>8. ASSUME NEW w \in DOMAIN rows PROVE Proposed(w)'
    BY <2>4, <2>7, SameKeepsProposed
  <2>9. ASSUME NEW w \in DOMAIN rows' PROVE Proposed(w)'
    BY <2>4, <2>5, <2>6, <2>8 DEF Proposed
  <2> QED BY <2>9 DEF ProposalsInv
<1> QED BY <1>1, <1>2

\* No step takes a version back or changes its document; what the tuner posts is what it
\* made of the version it read, and what the synthesizer posts is what it compiled.
LEMMA ProposalsInvNext == AutomationInv /\ ProposalsInv /\ [Next]_vars => ProposalsInv'
<1> SUFFICES ASSUME AutomationInv, ProposalsInv, [Next]_vars PROVE ProposalsInv'
  OBVIOUS
<1>1. ASSUME UNCHANGED registry PROVE ProposalsInv'
  BY <1>1 DEF ProposalsInv, registry, Proposed, TunedFromParent, SynthesizedFromText
<1>2. ASSUME NEW v \in Releases, NEW input \in Drafted, Author(v, input) PROVE ProposalsInv'
  <2> DEFINE doc == Compile(input[1], input[2]).doc
  <2>1. Submit(v, doc, "manual", None, None, input)
    BY <1>2 DEF Author
  <2> HIDE DEF doc
  <2> QED BY <2>1, SubmitKeepsProposals
<1>3. ASSUME NEW v \in Reviewed \cap DOMAIN rows, Review(v) PROVE ProposalsInv'
  <2>1. PICK to : rows' = [rows EXCEPT ![v].status = to]
    BY <1>3 DEF Review, SubmitForReview, Approve, Reject, Revoke, Move
  <2>2. DOMAIN rows' = DOMAIN rows
    BY <2>1
  <2>3. RowShape(rows[v])
    BY DEF AutomationInv, RegistryInv, RowTyped
  <2>4. SameButStatus(v)
    BY <2>1, <2>3 DEF RowShape, SameButStatus
  <2>5. \A w \in DOMAIN rows \ {v} : rows'[w] = rows[w]
    BY <2>1
  <2>6. \A w \in DOMAIN rows : SameButStatus(w)
    BY <2>4, <2>5 DEF SameButStatus
  <2>7. ASSUME NEW w \in DOMAIN rows' PROVE Proposed(w)'
    BY <2>2, <2>6, SameKeepsProposed
  <2> QED BY <2>7 DEF ProposalsInv
<1>4. ASSUME NEW f \in Feeds, FeedPost(f) PROVE ProposalsInv'
  <2>1. PICK v, doc, class, parent, ref : Submit(v, doc, "feed", class, parent, ref)
    BY <1>4 DEF FeedPost
  <2> QED BY <2>1, SubmitKeepsProposals
<1>5. ASSUME NEW evidence \in Evidences, TunerPost(evidence) PROVE ProposalsInv'
  <2> DEFINE tuned == Retune(rows[tuner].doc, evidence)
  <2>1. ASSUME tuned # rows[tuner].doc PROVE ProposalsInv'
    <3>1. Submit(Bump(tuner), Reissued(tuned), "autotuner", "threshold_tune", tuner, evidence)
      BY <1>5, <2>1 DEF TunerPost
    <3>2. tuner \in DOMAIN rows
      BY <1>5 DEF TunerPost, AutomationInv, JobsInv
    <3>3. Reissued(tuned).guards = tuned.guards
      BY DEF Reissued, WithMeta
    <3> QED BY <3>1, <3>2, <3>3, SubmitKeepsProposals
  <2> QED BY <1>1, <1>5, <2>1 DEF TunerPost
<1>6. ASSUME NEW candidates \in Extractions, Synthesize(candidates) PROVE ProposalsInv'
  <2> DEFINE doc == Synthesized(candidates)
  <2>1. Submit(<<0, 0>>, doc, "synthesizer", "mixed", None, candidates) /\ ~Unrankable(candidates)
    BY <1>6 DEF Synthesize
  <2>2. doc.guards = CompileGuards(candidates)
    BY DEF Synthesized
  <2> HIDE DEF doc
  <2> QED BY <2>1, <2>2, SubmitKeepsProposals
<1>7. ASSUME \/ \E rules \in Rulesets : NewRuleset(rules)
             \/ \E f \in Feeds : FeedLoad(f) \/ FeedRead(f) \/ FeedFails(f)
             \/ TunerRead \/ TunerFails \/ UNCHANGED vars
      PROVE  UNCHANGED registry
  BY <1>7 DEF NewRuleset, FeedLoad, FeedRead, FeedFails, TunerRead, TunerFails, vars, registry
<1> QED BY <1>1, <1>2, <1>3, <1>4, <1>5, <1>6, <1>7 DEF Next

LEMMA ProposalsInvAlways == Spec => []ProposalsInv
<1>1. Init => ProposalsInv
  BY DEF Init, ProposalsInv
<1> QED BY <1>1, ProposalsInvNext, AutomationInvAlways, PTL DEF Spec

\* The threshold that the tuner goes by is that of a guard.
LEMMA CurrentInRange ==
    ASSUME NEW doc, ThresholdsInRange(doc), NEW id, Thresholds(doc.guards, id) # {}
    PROVE  Current(doc.guards, id) \in 0 .. 1000
<1> DEFINE guards == doc.guards
           at == Thresholds(guards, id)
<1>1. guards \in Seq(ToSet(guards))
  BY DEF ThresholdsInRange
<1> HIDE DEF guards
<1>2. at \in SUBSET (1 .. Len(guards)) /\ Len(guards) \in Nat /\ at # {}
  <2>1. DOMAIN guards = 1 .. Len(guards) /\ Len(guards) \in Nat
    BY <1>1
  <2> QED BY <2>1 DEF Thresholds, guards
<1> DEFINE last == CHOOSE i \in at : \A j \in at : j <= i
<1>3. last \in at
  <2> HIDE DEF at
  <2>1. \E i \in at : \A j \in at : j <= i
    BY <1>2, LastPosition
  <2> QED BY <2>1
<1>4. Current(guards, id) = guards[last].threshold
  BY DEF Current, LastOf
<1>5. last \in DOMAIN guards /\ "threshold" \in DOMAIN guards[last]
  BY <1>3 DEF Thresholds
<1> HIDE DEF last
<1>6. guards[last].threshold \in 0 .. 1000
  BY <1>5 DEF ThresholdsInRange, guards
<1> QED BY <1>4, <1>6 DEF guards

\* A guard that the tuner changes differs in its threshold alone, and the new one raises no
\* more false alarms.
LEMMA RetuneRaisesNoAlarm ==
    ASSUME NEW doc, ThresholdsInRange(doc), NEW evidence \in Evidences,
           NEW i \in DOMAIN doc.guards,
           Retune(doc, evidence).guards[i] # doc.guards[i]
    PROVE  /\ ThresholdOnly(doc.guards[i], Retune(doc, evidence).guards[i])
           /\ FalseAlarms(LabelledOf(evidence, doc.guards[i].id),
                          40 * Retune(doc, evidence).guards[i].threshold)
                <= FalseAlarms(LabelledOf(evidence, doc.guards[i].id),
                               40 * Current(doc.guards, doc.guards[i].id))
<1> DEFINE guard == doc.guards[i]
           new == Retune(doc, evidence).guards[i]
           t == Tuned(doc.guards, guard.id, evidence)
           labelled == LabelledOf(evidence, guard.id)
           current == Current(doc.guards, guard.id)
<1>1. new = IF t = None THEN guard
            ELSE [f \in DOMAIN guard \cup {"threshold"} |-> IF f = "threshold" THEN t ELSE guard[f]]
  BY DEF Retune
<1>2. t # None
  BY <1>1
<1>3. Thresholds(doc.guards, guard.id) # {} /\ t = Recommended(labelled, current)
  BY <1>2 DEF Tuned
<1>4. current \in 0 .. 1000
  <2> DEFINE id == guard.id
  <2>1. Thresholds(doc.guards, id) # {}
    BY <1>3
  <2> HIDE DEF id
  <2>2. Current(doc.guards, id) \in 0 .. 1000
    BY <2>1, CurrentInRange
  <2> QED BY <2>2 DEF id
<1>5. IsEvidence(labelled)
  <2>1. labelled \in SUBSET evidence /\ IsEvidence(evidence)
    BY EvidencesAssumption DEF LabelledOf, IsEvidence
  <2> HIDE DEF labelled
  <2> QED BY <2>1, FS_Subset DEF IsEvidence
<1> HIDE DEF t, guard, new, labelled, current
<1>6. /\ DOMAIN new = DOMAIN guard \cup {"threshold"} /\ new.threshold = t
      /\ \A f \in DOMAIN guard \ {"threshold"} : new[f] = guard[f]
  BY <1>1, <1>2
<1>7. FalseAlarms(labelled, 40 * t) <= FalseAlarms(labelled, 40 * current)
  <2>1. Recommended(labelled, current) # None
    BY <1>2, <1>3
  <2> QED BY <1>3, <1>4, <1>5, <2>1, RecommendedRaisesNoAlarm
<1>8. /\ ThresholdOnly(guard, new)
      /\ FalseAlarms(labelled, 40 * new.threshold) <= FalseAlarms(labelled, 40 * current)
  BY <1>6, <1>7 DEF ThresholdOnly
<1> QED BY <1>8 DEF new, guard, labelled, current

-----------------------------------------------------------------------------
(* The theorems.                                                            *)

\* The state is always of its types; the registry lists each version once, and whatever
\* is approved is on record as approved.
THEOREM AutomationTypeCorrect == Spec => []TypeOK
<1>1. AutomationInv => TypeOK
  <2> SUFFICES ASSUME AutomationInv PROVE TypeOK
    OBVIOUS
  <2>1. tuner \in DOMAIN rows \cup {None}
    BY DEF AutomationInv, JobsInv
  <2> QED BY <2>1 DEF AutomationInv, RegistryInv, RowTyped, JobsInv, FeedTyped, TypeOK
<1> QED BY <1>1, AutomationInvAlways, PTL

\* Rule AA-1: a version that no person approved extends one that was approved, by rules
\* with new ids and nothing else, whatever was submitted, approved, rejected, revoked or
\* put on offer since the feed read it.
THEOREM AutoApprovalOnlyAdds == Spec => []AutoApprovedOnlyAdds
<1>1. AutomationInv => AutoApprovedOnlyAdds
  BY DEF AutomationInv, RegistryInv
<1> QED BY <1>1, AutomationInvAlways, PTL

\* Whatever was drafted, reviewed, fed or labelled, and whenever the tuner read it: a guard it
\* changes keeps all but its threshold, and the proposed threshold, rounded as it is, raises no
\* more false alarms than the one it replaces.
THEOREM TuningRaisesNoAlarm == Spec => []TunedRaisesNoAlarm
<1>1. ProposalsInv => TunedRaisesNoAlarm
  <2> SUFFICES ASSUME ProposalsInv, NEW v \in DOMAIN rows, rows[v].origin = "autotuner"
               PROVE  LET old == rows[rows[v].parent].doc.guards
                          new == rows[v].doc.guards
                      IN  /\ DOMAIN new = DOMAIN old
                          /\ \A i \in DOMAIN new : new[i] # old[i] =>
                               /\ ThresholdOnly(old[i], new[i])
                               /\ FalseAlarms(LabelledOf(rows[v].ref, old[i].id),
                                              40 * new[i].threshold)
                                    <= FalseAlarms(LabelledOf(rows[v].ref, old[i].id),
                                                   40 * Current(old, old[i].id))
    BY DEF TunedRaisesNoAlarm
  <2> DEFINE doc == rows[rows[v].parent].doc
             evidence == rows[v].ref
  <2>1. /\ rows[v].doc.guards = Retune(doc, evidence).guards /\ evidence \in Evidences
        /\ ThresholdsInRange(doc)
    BY DEF ProposalsInv, Proposed, TunedFromParent
  <2>2. DOMAIN Retune(doc, evidence).guards = DOMAIN doc.guards
    BY DEF Retune
  <2> HIDE DEF doc, evidence
  <2>3. \A i \in DOMAIN doc.guards : Retune(doc, evidence).guards[i] # doc.guards[i] =>
          /\ ThresholdOnly(doc.guards[i], Retune(doc, evidence).guards[i])
          /\ FalseAlarms(LabelledOf(evidence, doc.guards[i].id),
                         40 * Retune(doc, evidence).guards[i].threshold)
               <= FalseAlarms(LabelledOf(evidence, doc.guards[i].id),
                              40 * Current(doc.guards, doc.guards[i].id))
    BY <2>1, RetuneRaisesNoAlarm
  <2> QED BY <2>1, <2>2, <2>3 DEF doc, evidence
<1> QED BY <1>1, ProposalsInvAlways, PTL

\* Whatever the judge extracts from a text: what the synthesizer proposes has exactly one
\* guard for every rule that was mapped, no less sensitive than the rule asks and blocking if
\* its severity is high, and names in each guard's provenance just the rules it stands for.
THEOREM SynthesisIsAccountable == Spec => []SynthesizedAccountable
<1>1. ProposalsInv => SynthesizedAccountable
  <2> SUFFICES ASSUME ProposalsInv, NEW v \in DOMAIN rows, rows[v].origin = "synthesizer"
               PROVE  Accountable(rows[v].ref, rows[v].doc.guards)
    BY DEF SynthesizedAccountable
  <2> DEFINE candidates == rows[v].ref
  <2>1. /\ candidates \in Extractions /\ ~Unrankable(candidates)
        /\ rows[v].doc.guards = CompileGuards(candidates)
    BY DEF ProposalsInv, Proposed, SynthesizedFromText
  <2> HIDE DEF candidates
  <2>2. candidates \in Seq(ToSet(candidates))
    BY <2>1, ListsAssumption
  <2>3. Accountable(candidates, CompileGuards(candidates))
    BY <2>1, <2>2, CompiledIsAccountable
  <2> QED BY <2>1, <2>3 DEF candidates
<1> QED BY <1>1, ProposalsInvAlways, PTL

\* Whatever profile, however deep its chain, and app layer people compile: each value of the
\* document they get was set by the layer that the override trace names for it, and a guard
\* that a layer brought is gone only if the trace says so.
THEOREM TraceIsTrue == Spec => []TraceExplains
<1>1. TraceExplains
  <2> SUFFICES ASSUME NEW input \in Inputs, ~Missing(input[1]), ~Cyclic(input[1])
               PROVE  Explains(Compile(input[1], input[2]))
    BY DEF TraceExplains
  <2>1. input[2] = None \/ IsLayer(input[2])
    BY ListsAssumption
  <2> QED BY <2>1, CompiledIsExplained
<1> QED BY <1>1, PTL
=============================================================================
