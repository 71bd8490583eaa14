-------------------------- MODULE KstoneSpec_proofs --------------------------
(***************************************************************************)
(* What Equal and Update of the kstone provider promise each other, for    *)
(* all sizes, versions, disks, quantities, environments, schemes, images   *)
(* and secrets.                                                            *)
(***************************************************************************)
EXTENDS KstoneSpec, TLAPS

\* What is read back of the quantities that were written is what was wanted,
\* whether the list is there or not.
LEMMA OldOfGenerated ==
  ASSUME NEW spec \in ClusterSpecs, NEW k \in Kinds, NEW n \in Names
  PROVE  OldResource(Generate(spec), k, n) = DesiredResource(spec, k, n)
<1>1. Generate(spec).resources =
        [ l \in DOMAIN spec.resources |-> [m \in Names |-> DesiredResource(spec, l, m)] ]
  BY DEF Generate
<1>2. CASE k \in DOMAIN spec.resources
  BY <1>1, <1>2 DEF OldResource
<1>3. CASE k \notin DOMAIN spec.resources
  BY <1>1, <1>3 DEF OldResource, DesiredResource
<1> QED
  BY <1>2, <1>3

\* Equal of a specification that was written compares what the two users asked for.
LEMMA EqualOfGenerated ==
  ASSUME NEW old \in ClusterSpecs, NEW new \in ClusterSpecs
  PROVE  Equal(Generate(old), new) <=>
           /\ old.size = new.size /\ old.version.number = new.version.number
           /\ old.disk = new.disk /\ old.env = new.env
           /\ \A k \in Kinds, n \in Names :
                DesiredResource(old, k, n) = DesiredResource(new, k, n)
<1>1. /\ Generate(old).size = old.size /\ Generate(old).version = old.version
      /\ Generate(old).storage[1] = old.disk /\ Generate(old).env = old.env
  BY DEF Generate
<1>2. ResourceEqual(Generate(old), new) <=>
        \A k \in Kinds, n \in Names : DesiredResource(old, k, n) = DesiredResource(new, k, n)
  BY OldOfGenerated DEF ResourceEqual
<1> QED
  BY <1>1, <1>2 DEF Equal

\* What updateEtcdSpec writes is Equal to what it was made of, whatever was there
\* before (kstone.go:161-245): the controller does not update for ever.
THEOREM UpdatesSettle == Settles
<1> SUFFICES ASSUME NEW old \in ClusterSpecs, NEW new \in ClusterSpecs
             PROVE  Equal(UpdateSpec(Generate(old), new), new)
  BY DEF Settles
<1>1. Equal(Generate(new), new)
  BY EqualOfGenerated
<1> QED
  BY <1>1 DEF UpdateSpec

\* An edit is noticed exactly when it changes the view (kstone.go:187-245).
THEOREM EditsAreNoticed == NoticesView
<1> SUFFICES ASSUME NEW old \in ClusterSpecs, NEW new \in ClusterSpecs
             PROVE  Equal(Generate(old), new) <=> View(old) = View(new)
  BY DEF NoticesView
<1> DEFINE table(s) == [k \in Kinds |-> [n \in Names |-> Amount(s, k, n)]]
<1>1. (table(old) = table(new)) <=>
        \A k \in Kinds, n \in Names : DesiredResource(old, k, n) = DesiredResource(new, k, n)
  <2>1. ASSUME table(old) = table(new), NEW k \in Kinds, NEW n \in Names
        PROVE  DesiredResource(old, k, n) = DesiredResource(new, k, n)
    <3>1. table(old)[k][n] = table(new)[k][n]
      BY <2>1
    <3> QED
      BY <3>1 DEF Amount
  <2>2. ASSUME \A k \in Kinds, n \in Names :
                 DesiredResource(old, k, n) = DesiredResource(new, k, n)
        PROVE  table(old) = table(new)
    BY <2>2 DEF Amount
  <2> QED
    BY <2>1, <2>2
<1>2. View(old) = View(new) <=>
        /\ old.size = new.size /\ old.version.number = new.version.number
        /\ old.disk = new.disk /\ old.env = new.env
        /\ table(old) = table(new)
  BY DEF View
<1> QED
  BY <1>1, <1>2, EqualOfGenerated
=============================================================================
