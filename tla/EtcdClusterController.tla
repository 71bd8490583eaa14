----------------------- MODULE EtcdClusterController -----------------------
(***************************************************************************)
(* The etcdcluster controller                                              *)
(* (pkg/controllers/etcdcluster/etcdclusters_controller.go) reconciling    *)
(* one EtcdCluster key: the API server's copy of the resource, the         *)
(* informer cache and work queue of every controller replica, the worker   *)
(* of the leader, the etcd operator's resource the provider writes         *)
(* ("child"), the resources of the features, and the etcd cluster itself.  *)
(*                                                                         *)
(* Keys share no state and the work queue never hands one key to two       *)
(* workers, so one key with one worker stands for all of them.             *)
(*                                                                         *)
(* An Update of the API server succeeds only for a copy whose              *)
(* resourceVersion is current, and one that changes nothing does not       *)
(* advance it.  Only that equality matters, so no counter is kept: fresh   *)
(* says whether the worker's copy still carries the current                *)
(* resourceVersion; every write that changes the object clears it.         *)
(***************************************************************************)
EXTENDS EtcdCluster, FiniteSets

CONSTANTS
  Replicas,    \* processes of the controller deployment
  Faults,      \* which disturbances may happen, see FaultKinds
  MaxLag       \* events a replica's watch may lag behind (bound)

FaultKinds == {"api", "crash", "etcd", "delete"}

ASSUME ControllerAssumption ==
  /\ Replicas # {}
  /\ Faults \subseteq FaultKinds
  /\ MaxLag \in Nat \ {0}

VARIABLES
  api,      \* the EtcdCluster in the API server (NoObject: absent)
  created,  \* uid of the last EtcdCluster the user created
  cache,    \* [Replicas -> informer cache entry]
  watch,    \* [Replicas -> versions not yet delivered to the cache, oldest first]
  dirty,    \* [Replicas -> the key waits in the work queue]
  delayed,  \* the key waits in the leader's rate limiter
  leader,   \* the replica that holds the lease
  pc,       \* where the leader's worker is in reconcileEtcdCluster
  obj,      \* the worker's DeepCopy of the cached object
  fresh,    \* obj carries the API server's resourceVersion
  failed,   \* err of the handler handleClusterManagement ran
  todo,     \* features handleClusterFeature has still to visit
  child,    \* etcdclusters.etcd.tkestack.io: [uid of its owner (0: absent), spec]
  res,      \* [Features -> uid of the owner of the feature's resource, 0: absent]
  etcd,     \* the running etcd members and those that fail their health check
  calm      \* the user and the faults have stopped

userVars   == <<api, created>>
cacheVars  == <<cache, watch, dirty>>
workerVars == <<pc, obj, fresh, failed, todo>>
worldVars  == <<child, res, etcd>>
vars == <<api, created, cache, watch, dirty, delayed, leader, pc, obj, fresh,
          failed, todo, child, res, etcd, calm>>

May(fault) == fault \in Faults /\ ~ calm

NoChild == [uid |-> 0, spec |-> 0]

Init ==
  /\ api = NoObject /\ created = 0
  /\ cache = [r \in Replicas |-> NoObject]
  /\ watch = [r \in Replicas |-> << >>]
  /\ dirty = [r \in Replicas |-> FALSE]
  /\ delayed = FALSE
  /\ leader \in Replicas
  /\ pc = "idle" /\ obj = NoObject /\ fresh = FALSE /\ failed = FALSE /\ todo = {}
  /\ child = NoChild
  /\ res = [f \in Features |-> 0]
  /\ etcd \in IF Imported THEN [n : 1 .. MaxSize, sick : {{}}] ELSE {NoMembers}
  /\ calm = FALSE

-----------------------------------------------------------------------------
(* The API server *)

\* An accepted write of the EtcdCluster: every replica's watch gets the event.
Store(o) ==
  IF o = api THEN UNCHANGED <<api, watch>>
  ELSE /\ \A r \in Replicas : Len(watch[r]) < MaxLag
       /\ api' = o
       /\ watch' = [r \in Replicas |-> Append(watch[r], o)]

\* A write by somebody other than the worker.
StoreByOther(o) == Store(o) /\ fresh' = FALSE

-----------------------------------------------------------------------------
(* The user *)

CreateCluster ==
  /\ ~ calm /\ api.uid = 0 /\ created < LastUid
  /\ created' = created + 1
  /\ \E g \in SUBSET Features, l \in BOOLEAN, a \in BOOLEAN :
       /\ a => Imported
       /\ StoreByOther(NewObject(created + 1, g, l, a))
  /\ UNCHANGED <<cache, dirty, delayed, leader, pc, obj, failed, todo, worldVars, calm>>

EditSpec ==
  /\ ~ calm /\ api.uid # 0 /\ api.spec < LastSpec
  /\ StoreByOther([api EXCEPT !.spec = @ + 1])
  /\ UNCHANGED <<created, cache, dirty, delayed, leader, pc, obj, failed, todo,
                 worldVars, calm>>

ToggleGate(f) ==
  /\ ~ calm /\ api.uid # 0
  /\ StoreByOther([api EXCEPT !.gates = IF f \in @ THEN @ \ {f} ELSE @ \cup {f}])
  /\ UNCHANGED <<created, cache, dirty, delayed, leader, pc, obj, failed, todo,
                 worldVars, calm>>

DeleteCluster ==
  /\ May("delete") /\ api.uid # 0
  /\ StoreByOther(NoObject)
  /\ UNCHANGED <<created, cache, dirty, delayed, leader, pc, obj, failed, todo,
                 worldVars, calm>>

-----------------------------------------------------------------------------
(* Informers, work queue and leader election *)

\* The Add and Update handlers enqueue the key; there is no Delete handler.
Deliver(r) ==
  /\ watch[r] # << >>
  /\ cache' = [cache EXCEPT ![r] = Head(watch[r])]
  /\ watch' = [watch EXCEPT ![r] = Tail(@)]
  /\ dirty' = [dirty EXCEPT ![r] = @ \/ Head(watch[r]).uid # 0]
  /\ UNCHANGED <<userVars, delayed, leader, workerVars, worldVars, calm>>

\* The informer's periodic resync replays an Update event of the cached object.
Resync(r) ==
  /\ ~ dirty[r] /\ cache[r].uid # 0
  /\ dirty' = [dirty EXCEPT ![r] = TRUE]
  /\ UNCHANGED <<userVars, cache, watch, delayed, leader, workerVars, worldVars, calm>>

\* The delay of AddRateLimited is over.
Requeue ==
  /\ delayed
  /\ delayed' = FALSE
  /\ dirty' = [dirty EXCEPT ![leader] = TRUE]
  /\ UNCHANGED <<userVars, cache, watch, leader, workerVars, worldVars, calm>>

\* The leader's process ends (a crash, or OnStoppedLeading's os.Exit) and starts
\* again with a new list; replica r, whose informers have run all the time,
\* takes the lease over, with the cache it has.
Failover(r) ==
  /\ May("crash")
  /\ leader' = r
  /\ cache' = [cache EXCEPT ![leader] = api]
  /\ watch' = [watch EXCEPT ![leader] = << >>]
  /\ dirty' = [dirty EXCEPT ![leader] = api.uid # 0]
  /\ delayed' = FALSE
  /\ pc' = "idle" /\ obj' = NoObject /\ fresh' = FALSE /\ failed' = FALSE /\ todo' = {}
  /\ UNCHANGED <<userVars, worldVars, calm>>

-----------------------------------------------------------------------------
(* The worker.  Every action is one call to the API server, the etcd        *)
(* operator's resource or etcd, with the code around it.                    *)

\* What every action of the worker leaves alone.
WorkerFrame == UNCHANGED <<created, cache, leader, etcd, calm>>

\* reconcileEtcdCluster returns: ProcessWorkQueue requeues the key with a delay
\* on an error; Done lets the key be taken again.
Return(err) ==
  /\ delayed' = (delayed \/ err)
  /\ pc' = "idle" /\ obj' = NoObject /\ fresh' = FALSE /\ failed' = FALSE /\ todo' = {}

\* processNextWorkItem and syncEtcdCluster up to the DeepCopy; a key whose
\* object is gone needs nothing.
TakeItem ==
  /\ pc = "idle" /\ dirty[leader]
  /\ dirty' = [dirty EXCEPT ![leader] = FALSE]
  /\ IF cache[leader].uid = 0 THEN UNCHANGED <<pc, obj, fresh>>
     ELSE /\ pc' = "decide"
          /\ obj' = cache[leader]
          /\ fresh' = (watch[leader] = << >>)
  /\ UNCHANGED <<api, watch, delayed, failed, todo, child, res>> /\ WorkerFrame

\* Mutant of ProviderEqual: the fields are not compared.
ProviderEqualIfPresent == Imported \/ child.uid # 0

\* provider.Equal: the imported provider always agrees.
ProviderEqual == Imported \/ ViewOf[child.spec] = ViewOf[obj.spec]

\* provider.Equal cannot read the child.
ProviderEqualFails == ~ Imported /\ (child.uid = 0 \/ May("api"))

\* getDesiredAction; an error of provider.Equal ends the reconcile before
\* anything is written.
Decide ==
  /\ pc = "decide"
  /\ \/ /\ MustCreate(obj.conds)
        /\ pc' = "create"
        /\ UNCHANGED <<delayed, obj, fresh, failed, todo>>
     \/ /\ MustUpdate(obj.conds)
        /\ pc' = "update"
        /\ UNCHANGED <<delayed, obj, fresh, failed, todo>>
     \/ /\ ~ MustCreate(obj.conds) /\ ~ MustUpdate(obj.conds)
        /\ Imported \/ child.uid # 0
        /\ pc' = IF ProviderEqual THEN "status" ELSE "update"
        /\ UNCHANGED <<delayed, obj, fresh, failed, todo>>
     \/ /\ ~ MustCreate(obj.conds) /\ ~ MustUpdate(obj.conds)
        /\ ProviderEqualFails
        /\ Return(TRUE)
  /\ UNCHANGED <<api, watch, dirty, child, res>> /\ WorkerFrame

\* Mutants of Attempt: the condition starts as completed; the phase is not set.
AttemptCompleted(t, ph) ==
  [obj EXCEPT !.conds = CompleteLast(GenerateConditions(@, t)), !.phase = ph]
AttemptKeepingPhase(t, ph) == [obj EXCEPT !.conds = GenerateConditions(@, t)]

\* The object an attempted Create or Update leaves in memory.
Attempt(t, ph) ==
  [obj EXCEPT !.conds = GenerateConditions(@, t), !.phase = ph]

\* Create of the child; AlreadyExists is a success and changes nothing.
CreatedChild ==
  IF Imported \/ child.uid # 0 THEN child ELSE [uid |-> obj.uid, spec |-> obj.spec]

\* handleClusterCreate: success, or an error of the call, whose effect may have
\* happened all the same.
HandleClusterCreate ==
  /\ pc = "create"
  /\ \/ /\ child' = CreatedChild
        /\ obj' = [AfterCreate(Attempt("Create", "Creating"))
                     EXCEPT !.conds = CompleteLast(@)]
        /\ failed' = FALSE
     \/ /\ May("api") /\ ~ Imported
        /\ child' \in {child, CreatedChild}
        /\ obj' = Attempt("Create", "Creating")
        /\ failed' = TRUE
  /\ pc' = "persist"
  /\ UNCHANGED <<api, watch, dirty, delayed, fresh, todo, res>> /\ WorkerFrame

\* Mutant of UpdatedChild: the new specification is set on a copy.
UpdatedChildUnchanged == child

\* The Update of the child replaces its specification.
UpdatedChild == IF Imported THEN child ELSE [child EXCEPT !.spec = obj.spec]

\* handleClusterUpdate.
HandleClusterUpdate ==
  /\ pc = "update"
  /\ \/ /\ Imported \/ child.uid # 0
        /\ child' = UpdatedChild
        /\ obj' = [Attempt("Update", "Updating") EXCEPT !.conds = CompleteLast(@)]
        /\ failed' = FALSE
     \/ /\ ~ Imported /\ (child.uid = 0 \/ May("api"))
        /\ child' \in IF child.uid = 0 THEN {child} ELSE {child, UpdatedChild}
        /\ obj' = Attempt("Update", "Updating")
        /\ failed' = TRUE
  /\ pc' = "persist"
  /\ UNCHANGED <<api, watch, dirty, delayed, fresh, todo, res>> /\ WorkerFrame

\* handleClusterStatus: the client configuration (a Secret) may be missing,
\* which is an error; an error of provider.Status is only an event.
HandleClusterStatus ==
  /\ pc = "status"
  /\ \/ obj' = Status(obj, etcd) /\ failed' = FALSE
     \/ May("api") /\ obj' = StatusOnError(obj) /\ failed' = FALSE
     \/ May("api") /\ obj' = obj /\ failed' = TRUE
  /\ pc' = "persist"
  /\ UNCHANGED <<api, watch, dirty, delayed, fresh, todo, child, res>> /\ WorkerFrame

\* Mutant of Persist: the write does not depend on the resourceVersion.
PersistUnchecked ==
  /\ pc = "persist"
  /\ Store(obj)
  /\ IF failed \/ obj.phase # "Running" THEN Return(failed)
     ELSE /\ pc' = "labels"
          /\ fresh' = (fresh /\ api' = api)
          /\ UNCHANGED <<delayed, obj, failed, todo>>
  /\ UNCHANGED <<dirty, child, res>> /\ WorkerFrame

\* The end of handleClusterManagement: result and error of
\* updateEtcdClusterStatus are dropped, so after an Update that changed the
\* object the copy is out of date.
Persist ==
  /\ pc = "persist"
  /\ \/ fresh /\ Store(obj)
     \/ (~ fresh \/ May("api")) /\ UNCHANGED <<api, watch>>
  /\ IF failed \/ obj.phase # "Running" THEN Return(failed)
     ELSE /\ pc' = "labels"
          /\ fresh' = (fresh /\ api' = api)
          /\ UNCHANGED <<delayed, obj, failed, todo>>
  /\ UNCHANGED <<dirty, child, res>> /\ WorkerFrame

\* handleClusterFeature starts, or returns at once when no member is known.
EnterFeatures(o) ==
  IF o.members.n = 0 THEN Return(FALSE)
  ELSE /\ pc' = "feature" /\ obj' = o /\ todo' = Features
       /\ UNCHANGED <<delayed, fresh, failed>>

\* handleClusterLabels: the map the labels are computed in IS the map of the
\* object unless that was nil, so only a nil map is seen to differ and written.
HandleClusterLabels ==
  LET labelled == [obj EXCEPT !.labels = DesiredLabels(obj)]
  IN  /\ pc = "labels"
      /\ \/ /\ obj.labels.set
            /\ EnterFeatures(labelled)
            /\ UNCHANGED <<api, watch>>
         \/ /\ ~ obj.labels.set /\ fresh
            /\ Store(labelled)
            /\ EnterFeatures(labelled) \/ (May("api") /\ Return(TRUE))
         \/ /\ ~ obj.labels.set /\ (~ fresh \/ May("api"))
            /\ Return(TRUE)
            /\ UNCHANGED <<api, watch>>
      /\ UNCHANGED <<dirty, child, res>> /\ WorkerFrame

\* Mutant of FeatureEqual: the recorded status is believed.
FeatureEqualByStatus(f) ==
  IF f \in obj.gates THEN obj.fgs[f] = "enabled" \/ (f \notin Resynced /\ res[f] # 0)
  ELSE obj.fgs[f] = "disabled" \/ res[f] = 0

\* Equal of a feature, when its resource can be read.
FeatureEqual(f) ==
  IF f \in obj.gates THEN f \notin Resynced /\ res[f] # 0
  ELSE obj.fgs[f] = "disabled" \/ res[f] = 0

\* Equal when the resource cannot be read.
FeatureEqualOnError(f) == f \notin obj.gates /\ obj.fgs[f] = "disabled"

\* Mutant of SyncedResource: a closed gate removes nothing.
SyncedResourceKept(f) ==
  IF f \in obj.gates /\ (f \in Resynced \/ res[f] = 0) THEN obj.uid ELSE res[f]

\* Sync of a feature: create it (AlreadyExists is a success; a resynced feature
\* replaces the resource, owner included) or delete it (NotFound is a success).
SyncedResource(f) ==
  IF f \notin obj.gates THEN 0
  ELSE IF f \in Resynced \/ res[f] = 0 THEN obj.uid ELSE res[f]

\* One round of the loop of handleClusterFeature.
SyncFeature(f) ==
  /\ pc = "feature" /\ f \in todo
  /\ \/ FeatureEqual(f) /\ UNCHANGED <<obj, res>>
     \/ /\ ~ FeatureEqual(f) \/ (May("api") /\ ~ FeatureEqualOnError(f))
        /\ \/ /\ res' = [res EXCEPT ![f] = SyncedResource(f)]
              /\ obj' = [obj EXCEPT !.fgs[f] =
                           IF f \in obj.gates THEN "enabled" ELSE "disabled"]
           \/ /\ May("api")
              /\ res' \in {res, [res EXCEPT ![f] = SyncedResource(f)]}
              /\ obj' = [obj EXCEPT !.fgs[f] = "failed"]
  /\ todo' = todo \ {f}
  /\ UNCHANGED <<api, watch, dirty, delayed, pc, fresh, failed, child>> /\ WorkerFrame

\* The Update at the end of handleClusterFeature.
FinalUpdate ==
  /\ pc = "feature" /\ todo = {}
  /\ \/ fresh /\ Store(obj) /\ (Return(FALSE) \/ (May("api") /\ Return(TRUE)))
     \/ (~ fresh \/ May("api")) /\ Return(TRUE) /\ UNCHANGED <<api, watch>>
  /\ UNCHANGED <<dirty, child, res>> /\ WorkerFrame

Worker ==
  \/ TakeItem \/ Decide
  \/ HandleClusterCreate \/ HandleClusterUpdate \/ HandleClusterStatus
  \/ Persist \/ HandleClusterLabels
  \/ \E f \in Features : SyncFeature(f)
  \/ FinalUpdate

-----------------------------------------------------------------------------
(* The etcd operator, etcd, the garbage collector and the faults *)

\* The operator brings the members to the child's size, one at a time.
ScaleMembers ==
  /\ child.uid # 0 /\ etcd.n # SizeOf[child.spec]
  /\ etcd' = IF etcd.n < SizeOf[child.spec]
             THEN [etcd EXCEPT !.n = @ + 1]
             ELSE [n |-> etcd.n - 1, sick |-> etcd.sick \ {etcd.n - 1}]
  /\ UNCHANGED <<userVars, cacheVars, delayed, leader, workerVars, child, res, calm>>

\* The members of an imported cluster change behind kstone's back.
ResizeImported ==
  /\ Imported /\ May("etcd")
  /\ \E n \in 1 .. MaxSize : etcd' = [n |-> n, sick |-> etcd.sick \cap (0 .. n - 1)]
  /\ UNCHANGED <<userVars, cacheVars, delayed, leader, workerVars, child, res, calm>>

Sicken(m) ==
  /\ May("etcd") /\ m < etcd.n
  /\ etcd' = [etcd EXCEPT !.sick = @ \cup {m}]
  /\ UNCHANGED <<userVars, cacheVars, delayed, leader, workerVars, child, res, calm>>

Heal(m) ==
  /\ m \in etcd.sick
  /\ etcd' = [etcd EXCEPT !.sick = @ \ {m}]
  /\ UNCHANGED <<userVars, cacheVars, delayed, leader, workerVars, child, res, calm>>

\* Owner references: what belongs to an absent owner is collected.
CollectChild ==
  /\ child.uid # 0 /\ child.uid # api.uid
  /\ child' = NoChild /\ etcd' = NoMembers
  /\ UNCHANGED <<userVars, cacheVars, delayed, leader, workerVars, res, calm>>

CollectResource(f) ==
  /\ res[f] # 0 /\ res[f] # api.uid
  /\ res' = [res EXCEPT ![f] = 0]
  /\ UNCHANGED <<userVars, cacheVars, delayed, leader, workerVars, child, etcd, calm>>

\* From now on no user edit and no fault: what the liveness properties ask for.
CalmDown ==
  /\ ~ calm
  /\ calm' = TRUE
  /\ UNCHANGED <<userVars, cacheVars, delayed, leader, workerVars, worldVars>>

User   == CreateCluster \/ EditSpec \/ (\E f \in Features : ToggleGate(f)) \/ DeleteCluster
Queue  == Requeue \/ \E r \in Replicas : Deliver(r) \/ Resync(r)
World  == \/ ScaleMembers \/ ResizeImported \/ CollectChild
          \/ \E m \in 0 .. MaxSize - 1 : Sicken(m) \/ Heal(m)
          \/ \E f \in Features : CollectResource(f)

Next == User \/ Queue \/ Worker \/ World \/ CalmDown \/ \E r \in Replicas : Failover(r)

\* The controller's goroutines run, watches deliver, delays end, the resync timer
\* fires, and the operator, the garbage collector and etcd's recovery work.
Fairness ==
  /\ WF_vars(Worker)
  /\ WF_vars(Requeue)
  /\ \A r \in Replicas : WF_vars(Deliver(r)) /\ WF_vars(Resync(r))
  /\ WF_vars(ScaleMembers) /\ WF_vars(CollectChild)
  /\ \A f \in Features : WF_vars(CollectResource(f))
  /\ \A m \in 0 .. MaxSize - 1 : WF_vars(Heal(m))

Spec     == Init /\ [][Next]_vars
FairSpec == Spec /\ Fairness
=============================================================================
