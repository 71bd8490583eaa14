----------------------- MODULE EtcdClusterProperties -----------------------
(***************************************************************************)
(* What makes the etcdcluster controller correct.                          *)
(***************************************************************************)
EXTENDS EtcdClusterController

\* Every variable stays in its type: phases, conditions and gate states are the
\* declared ones, at most LastSpec edits, annotations map at most MaxSize members.
TypeOK ==
  /\ api \in Objects /\ created \in Uids
  /\ cache \in [Replicas -> Objects]
  /\ watch \in [Replicas -> Seq(Objects)]
  /\ dirty \in [Replicas -> BOOLEAN]
  /\ delayed \in BOOLEAN
  /\ leader \in Replicas
  /\ pc \in {"idle", "decide", "create", "update", "status", "persist", "labels",
             "feature"}
  /\ obj \in Objects /\ fresh \in BOOLEAN /\ failed \in BOOLEAN
  /\ todo \subseteq Features
  /\ child \in [uid : Uids, spec : Specs]
  /\ res \in [Features -> Uids]
  /\ etcd \in Members
  /\ calm \in BOOLEAN

-----------------------------------------------------------------------------
(* Safety *)

\* Whatever crashes, conflicts and stale copies do, status.conditions starts with
\* the creation, holds one condition per type, and only its last one is open:
\* getDesiredAction relies on the last condition alone.
ConditionHistory == api.conds \in Histories

\* A phase only provider.Status assigns is recorded with a completed condition:
\* a cluster whose creation or update is open is never shown as Running.
PhaseFollowsConditions == ObservedPhase(api)

CreationRecorded(o) == o.conds # << >> /\ o.conds[1] = Completed("Create")

\* Once the creation is recorded as complete the operator's resource exists:
\* it was made before the status was written, and by this cluster.
CreationHasChild ==
  (~ Imported /\ CreationRecorded(api)) => child.uid = api.uid

\* handleClusterFeature touches no feature of a cluster whose creation is not
\* recorded in the API server.
FeaturesAfterCreation ==
  \A f \in Features : res[f] # 0 /\ res[f] = api.uid => CreationRecorded(api)

\* The controller writes whole objects, specification and annotations included,
\* from copies that may be old: no such write takes a user's edit back, brings a
\* deleted cluster back, or lands on the one created in its place.
UserEditsSurvive ==
  [][/\ pc' # pc => api'.gates = api.gates /\ api'.uid = api.uid
     /\ api'.uid = api.uid => api'.spec >= api.spec]_vars

\* The operator is never handed an older specification than it already has.
ChildNeverRegresses ==
  [][child'.uid = child.uid => child'.spec >= child.spec]_vars

\* The API server comes to say Running only when every member the current
\* specification asks for was listed and found healthy.
RunningIsFullStrength ==
  [][(api'.phase = "Running" /\ api.phase # "Running") =>
       /\ api'.members.sick = {}
       /\ Imported \/ api'.members.n = SizeOf[api'.spec]]_vars

\* featureGatesStatus says enabled or disabled of a feature only if its gate is
\* so and its resource is there, or gone, when that is recorded.
FeatureStatusTruthful ==
  [][\A f \in Features : api'.fgs[f] # api.fgs[f] =>
       /\ api'.fgs[f] = "enabled"  => f \in api'.gates /\ res[f] # 0
       /\ api'.fgs[f] = "disabled" => f \notin api'.gates /\ res[f] = 0]_vars

-----------------------------------------------------------------------------
(* What a specification and its view are, for an operator-managed cluster *)

Fields ==
  INSTANCE KstoneSpec WITH
    Sizes <- {1, 3}, Numbers <- {"3.4", "3.5"}, DiskSizes <- {10, 20},
    Lists <- { [n \in {} |-> "0"], [n \in {"cpu"} |-> "1"],
               [n \in {"cpu", "memory"} |-> IF n = "cpu" THEN "0" ELSE "1"] },
    Envs <- { << >>, <<"debug">> }, Schemes <- {"https"}, Images <- {""},
    Secrets <- {""}, Rests <- {"labels"}

\* When a reconcile has come to the comparison, provider.Equal holds of what
\* provider.Update wrote, whatever was written before, so that the controller does not
\* update for ever; and it sees an edit exactly when the view of the specification
\* changes, which is what ProviderEqual takes ViewOf for.
EditsNoticedOnce == pc = "decide" => Fields!Settles /\ Fields!NoticesView

-----------------------------------------------------------------------------
(* Refinement of ClusterLifecycle *)

StageOf(o) ==
  IF o.uid = 0 THEN "absent"
  ELSE IF o.conds = << >> THEN "new"
  ELSE IF MustCreate(o.conds) THEN "creating"
  ELSE IF MustUpdate(o.conds) THEN "updating"
  ELSE IF LastOf(o.conds).type = "Create" THEN "created" ELSE "updated"

Lifecycle ==
  INSTANCE ClusterLifecycle WITH
    desired  <- IF api.uid = 0 THEN -1 ELSE api.spec,
    deployed <- IF child.uid = 0 THEN -1 ELSE child.spec,
    stage    <- StageOf(api)

\* The controller implements ClusterLifecycle: the recorded history never runs
\* ahead of what was done to the operator's resource.
RefinesLifecycle == Lifecycle!LifecycleSpec

-----------------------------------------------------------------------------
(* Liveness, once edits and faults have stopped *)

Exists == api.uid # 0

\* An imported cluster can be managed only if the user says where it is.
Located == Exists /\ (Imported => api.addr)

\* The operator ends up with a specification provider.Equal takes for the wanted
\* one.
ChildConverges ==
  [](calm => <>[](Exists =>
       child.uid = api.uid /\ ViewOf[child.spec] = ViewOf[api.spec]))

\* The cluster is reported Running in the end, with every member.
ClusterRuns ==
  [](calm => <>[](Located => api.phase = "Running" /\ api.members = etcd))

\* The desired and the actual state converge, and the status says so
\* (etcdclusters_controller.go:366-395).
ClusterSettles == ChildConverges /\ ClusterRuns

\* Every feature whose gate is open has its resource in the end.
EnabledFeaturesSynced ==
  [](calm => <>[](Located => \A f \in api.gates : res[f] = api.uid))

\* No feature whose gate is closed keeps its resource.
DisabledFeaturesCleaned ==
  [](calm => <>[](Located => \A f \in Features \ api.gates : res[f] = 0))

\* The labels say the wanted version and gates in the end, although
\* handleClusterLabels itself hardly ever writes them.
LabelsFollow ==
  [](calm => <>[](Located =>
       api.labels = [set |-> TRUE, spec |-> api.spec, gates |-> api.gates]))

\* What a reconcile does besides the operator's resource is done in the end: the
\* features (inspection.go:178-231) and the labels
\* (etcdclusters_controller.go:297-321).
FeaturesSettle == EnabledFeaturesSynced /\ LabelsFollow
=============================================================================
