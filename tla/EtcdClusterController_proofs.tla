-------------------- MODULE EtcdClusterController_proofs --------------------
(***************************************************************************)
(* Theorems about the etcdcluster controller, for every number of          *)
(* replicas, features, edits and members, every set of faults, and every   *)
(* lag of the watches.  First the operators of EtcdCluster: each of them   *)
(* turns an EtcdCluster resource into one, and what it does to the         *)
(* condition history and to the phase.  Then what every copy of the        *)
(* resource records, what a current copy may differ in from the API        *)
(* server's, and last a cluster that is not deleted, whose controller      *)
(* implements ClusterLifecycle.                                            *)
(***************************************************************************)
EXTENDS EtcdClusterProperties, SequenceTheorems, TLAPS

-----------------------------------------------------------------------------
(* Fields *)

\* Every field of a resource has its type.
LEMMA ObjectFields ==
  ASSUME NEW o \in Objects
  PROVE  /\ o.uid \in Uids /\ o.spec \in Specs /\ o.gates \subseteq Features
         /\ o.addr \in BOOLEAN /\ o.ext \in 0 .. MaxSize /\ o.labels \in Labels
         /\ o.conds \in Seq(Conditions) /\ o.phase \in Phases
         /\ o.members \in Members /\ o.svc \in BOOLEAN
         /\ o.fgs \in [Features -> GateStates]
BY DEF Objects

\* SizeOf gives a member count.
LEMMA SizeType ==
  ASSUME NEW s \in Specs
  PROVE  SizeOf[s] \in 1 .. MaxSize
BY ClusterAssumption DEF ClusterAssumption

\* The resource a user submits is a resource, without history and phase.
LEMMA NewObjectType ==
  ASSUME NEW u \in Uids, NEW g \in SUBSET Features, NEW l \in BOOLEAN,
         NEW a \in BOOLEAN
  PROVE  /\ NewObject(u, g, l, a) \in Objects
         /\ NewObject(u, g, l, a).uid = u
         /\ NewObject(u, g, l, a).conds = << >>
         /\ NewObject(u, g, l, a).phase = ""
<1>1. 0 \in Specs /\ 0 \in 0 .. MaxSize /\ MaxSize \in 0 .. MaxSize
  BY BoundsAssumption DEF BoundsAssumption, Specs
<1>2. [NoLabels EXCEPT !.set = l] \in Labels
  BY <1>1 DEF NoLabels, Labels
<1>3. NoMembers \in Members
  BY <1>1 DEF NoMembers, Members
<1>4. << >> \in Seq(Conditions) /\ "" \in Phases
  BY DEF Phases
<1>5. [f \in Features |-> ""] \in [Features -> GateStates]
  BY DEF GateStates
<1> QED
  BY <1>1, <1>2, <1>3, <1>4, <1>5 DEF NewObject, Objects

\* The absent resource is a resource, without history and phase.
LEMMA NoObjectType ==
  NoObject \in Objects /\ NoObject.uid = 0 /\ NoObject.conds = << >> /\ NoObject.phase = ""
<1>1. 0 \in Uids
  BY BoundsAssumption DEF BoundsAssumption, Uids
<1> QED
  BY <1>1, NewObjectType DEF NoObject

-----------------------------------------------------------------------------
(* Changing one field of a resource leaves a resource. *)

\* One more edit of the specification.
LEMMA SpecEdited ==
  ASSUME NEW o \in Objects, o.spec < LastSpec
  PROVE  [o EXCEPT !.spec = @ + 1] \in Objects
<1>1. o.spec + 1 \in Specs
  BY BoundsAssumption DEF Objects, Specs, BoundsAssumption
<1> QED
  BY <1>1 DEF Objects

\* A feature gate opened or closed.
LEMMA GatesEdited ==
  ASSUME NEW o \in Objects, NEW f \in Features
  PROVE  [o EXCEPT !.gates = IF f \in @ THEN @ \ {f} ELSE @ \cup {f}] \in Objects
BY DEF Objects

\* The labels handleClusterLabels wants.
LEMMA Relabelled ==
  ASSUME NEW o \in Objects
  PROVE  [o EXCEPT !.labels = DesiredLabels(o)] \in Objects
<1>1. DesiredLabels(o) \in Labels
  BY ObjectFields DEF DesiredLabels, Labels
<1> QED
  BY <1>1 DEF Objects

\* The status of one feature recorded.
LEMMA GateRecorded ==
  ASSUME NEW o \in Objects, NEW f \in Features, NEW g \in GateStates
  PROVE  [o EXCEPT !.fgs[f] = g] \in Objects
BY DEF Objects

\* AfterCreate changes the annotations only, and maps at most MaxSize members.
LEMMA AfterCreateType ==
  ASSUME NEW o \in Objects
  PROVE  /\ AfterCreate(o).uid = o.uid /\ AfterCreate(o).spec = o.spec
         /\ AfterCreate(o).gates = o.gates /\ AfterCreate(o).conds = o.conds
         /\ AfterCreate(o).phase = o.phase /\ AfterCreate(o).fgs = o.fgs
         /\ AfterCreate(o) \in Objects
<1>1. CASE Imported
  BY <1>1 DEF AfterCreate
<1>2. CASE ~ Imported
  <2>1. SizeOf[o.spec] \in 0 .. MaxSize
    BY ObjectFields, SizeType
  <2> QED
    BY <1>2, <2>1 DEF AfterCreate, Objects
<1> QED
  BY <1>1, <1>2

-----------------------------------------------------------------------------
(* The condition history *)

\* A second element goes behind the first.
LEMMA AppendToOne ==
  ASSUME NEW S, NEW a \in S, NEW b \in S
  PROVE  Append(<< a >>, b) = << a, b >>
<1>1. << a >> \in Seq(S) /\ << a, b >> \in Seq(S) /\ Append(<< a >>, b) \in Seq(S)
  OBVIOUS
<1>2. Len(<< a >>) = 1 /\ Len(<< a, b >>) = 2 /\ Len(Append(<< a >>, b)) = 2
  OBVIOUS
<1>3. Append(<< a >>, b)[1] = a /\ Append(<< a >>, b)[2] = b
  BY <1>1, <1>2, AppendProperties
<1>4. << a, b >>[1] = a /\ << a, b >>[2] = b
  OBVIOUS
<1>5. \A i \in 1 .. 2 : i = 1 \/ i = 2
  OBVIOUS
<1> QED
  BY <1>1, <1>2, <1>3, <1>4, <1>5, SeqEqual

\* An open and a completed condition are conditions.
LEMMA ConditionTypes ==
  ASSUME NEW t \in {"Create", "Update"}
  PROVE  Pending(t) \in Conditions /\ Completed(t) \in Conditions
BY DEF Pending, Completed, Conditions

\* Every history is a sequence of conditions.
LEMMA HistoriesType == Histories \subseteq Seq(Conditions)
BY ConditionTypes DEF Histories

\* Taken up from a history that calls for a creation, handleClusterCreate records
\* the creation alone.
LEMMA CreateHistory ==
  ASSUME NEW h \in Histories, MustCreate(h)
  PROVE  /\ GenerateConditions(h, "Create") = << Pending("Create") >>
         /\ CompleteLast(<< Pending("Create") >>) = << Completed("Create") >>
<1>1. CompleteLast(<< Pending("Create") >>) = << Completed("Create") >>
  BY DEF CompleteLast, Pending, Completed
<1>2. h = << >> \/ h = << Pending("Create") >>
  BY DEF Histories, MustCreate, Unfinished, LastOf, Pending, Completed
<1>3. CASE h = << >>
  <2>1. Append(h, Pending("Create")) = << Pending("Create") >>
    BY <1>3
  <2> QED
    BY <1>1, <1>3, <2>1 DEF GenerateConditions
<1>4. CASE h = << Pending("Create") >>
  <2>1. h # << >> /\ LastOf(h).status # "True"
    BY <1>4 DEF LastOf, Pending
  <2> QED
    BY <1>1, <1>4, <2>1 DEF GenerateConditions
<1> QED
  BY <1>2, <1>3, <1>4

\* Taken up from any other history, handleClusterUpdate records an update behind
\* the finished creation, in the place of an earlier one.
LEMMA UpdateHistory ==
  ASSUME NEW h \in Histories, ~ MustCreate(h)
  PROVE  /\ GenerateConditions(h, "Update")
              = << Completed("Create"), Pending("Update") >>
         /\ CompleteLast(<< Completed("Create"), Pending("Update") >>)
              = << Completed("Create"), Completed("Update") >>
<1>1. \/ h = << Completed("Create") >>
      \/ h = << Completed("Create"), Pending("Update") >>
      \/ h = << Completed("Create"), Completed("Update") >>
  BY DEF Histories, MustCreate, Unfinished, LastOf, Pending
<1>2. GenerateConditions(h, "Update") = << Completed("Create"), Pending("Update") >>
  <2>1. CASE h = << Completed("Create") >>
    <3>1. h # << >> /\ LastOf(h).status = "True" /\ LastOf(h).type = "Create"
      BY <2>1 DEF LastOf, Completed
    <3>2. Append(h, Pending("Update")) = << Completed("Create"), Pending("Update") >>
      BY <2>1, AppendToOne, ConditionTypes
    <3> QED
      BY <3>1, <3>2 DEF GenerateConditions
  <2>2. CASE h = << Completed("Create"), Pending("Update") >>
    <3>1. h # << >> /\ LastOf(h).status # "True"
      BY <2>2 DEF LastOf, Pending
    <3> QED
      BY <2>2, <3>1 DEF GenerateConditions
  <2>3. CASE h = << Completed("Create"), Completed("Update") >>
    <3>1. /\ h # << >> /\ LastOf(h).status = "True" /\ LastOf(h).type = "Update"
          /\ [h EXCEPT ![Len(h)] = Pending("Update")]
               = << Completed("Create"), Pending("Update") >>
      BY <2>3 DEF LastOf, Completed
    <3> QED
      BY <3>1 DEF GenerateConditions
  <2> QED
    BY <1>1, <2>1, <2>2, <2>3
<1>3. CompleteLast(<< Completed("Create"), Pending("Update") >>)
        = << Completed("Create"), Completed("Update") >>
  BY DEF CompleteLast, Pending, Completed
<1> QED
  BY <1>2, <1>3

\* With no unfinished condition at its end, a history ends with a finished one.
LEMMA FinishedHistory ==
  ASSUME NEW h \in Histories, ~ MustCreate(h), ~ MustUpdate(h)
  PROVE  h # << >> /\ LastOf(h).status = "True"
BY DEF Histories, MustCreate, MustUpdate, Unfinished, LastOf, Pending, Completed

-----------------------------------------------------------------------------
(* The resources the controller produces *)

\* Resources with a history of that kind and a phase that agrees with it.
Sound == {o \in Objects : o.conds \in Histories /\ ObservedPhase(o)}

\* What leaves uid, history and phase alone keeps a resource sound.
LEMMA SameHistorySound ==
  ASSUME NEW o \in Sound, NEW p \in Objects, p.conds = o.conds, p.phase = o.phase
  PROVE  p \in Sound
BY DEF Sound, ObservedPhase

\* A resource whose history is finished is sound whatever its phase.
LEMMA FinishedSound ==
  ASSUME NEW o \in Objects, o.conds \in Histories,
         ~ MustCreate(o.conds), ~ MustUpdate(o.conds)
  PROVE  o \in Sound
BY FinishedHistory DEF Sound, ObservedPhase

\* So is one the controller has not touched.
LEMMA UntouchedSound ==
  ASSUME NEW o \in Objects, o.conds = << >>, o.phase = ""
  PROVE  o \in Sound
<1>1. o.conds \in Histories
  BY DEF Histories
<1>2. o.phase \notin {"Running", "UnHealthy", "Unknown"}
  OBVIOUS
<1> QED
  BY <1>1, <1>2 DEF Sound, ObservedPhase

\* The resource a user submits is sound.
LEMMA NewObjectSound ==
  ASSUME NEW u \in Uids, NEW g \in SUBSET Features, NEW l \in BOOLEAN,
         NEW a \in BOOLEAN
  PROVE  NewObject(u, g, l, a) \in Sound
<1>1. NewObject(u, g, l, a) \in Objects
  BY NewObjectType, Zenon
<1>2. NewObject(u, g, l, a).conds = << >> /\ NewObject(u, g, l, a).phase = ""
  BY DEF NewObject
<1> QED
  BY <1>1, <1>2, UntouchedSound

\* The absent resource is sound.
LEMMA NoObjectSound == NoObject \in Sound
<1> DEFINE o == NoObject
<1>1. o \in Objects /\ o.conds = << >> /\ o.phase = ""
  BY NoObjectType
<1> HIDE DEF o
<1>2. o \in Sound
  BY <1>1, UntouchedSound
<1> QED
  BY <1>2 DEF o

-----------------------------------------------------------------------------
(* The status *)

\* The members a status call lists are members.
LEMMA ObservedType ==
  ASSUME NEW o \in Objects, NEW e \in Members
  PROVE  Observed(o, e) \in Members
<1> DEFINE sick == {m \in 0 .. e.n - 1 : m \in e.sick \/ ~ Reachable(o, m)}
<1>1. e.n \in 0 .. MaxSize
  BY DEF Members
<1>2. sick \subseteq 0 .. MaxSize - 1
  BY <1>1, BoundsAssumption DEF BoundsAssumption
<1> HIDE DEF sick
<1>3. [n |-> e.n, sick |-> sick] \in Members
  BY <1>1, <1>2 DEF Members
<1> QED
  BY <1>3 DEF Observed, sick

\* status.serviceName is no user field, no history and no phase.
LEMMA WithServiceType ==
  ASSUME NEW o \in Objects
  PROVE  LET w == WithService(o)
         IN  /\ w \in Objects /\ w.uid = o.uid /\ w.spec = o.spec /\ w.gates = o.gates
             /\ w.conds = o.conds /\ w.fgs = o.fgs /\ w.phase = o.phase
BY DEF WithService, Objects

\* A changed phase leaves the rest alone.
LEMMA PhaseSet ==
  ASSUME NEW o \in Objects, NEW p \in Phases
  PROVE  LET w == [o EXCEPT !.phase = p]
         IN  /\ w \in Objects /\ w.uid = o.uid /\ w.spec = o.spec /\ w.gates = o.gates
             /\ w.conds = o.conds /\ w.fgs = o.fgs /\ w.phase = p
BY DEF Objects

\* Members and phase changed together leave the rest alone.
LEMMA MembersAndPhaseSet ==
  ASSUME NEW o \in Objects, NEW m \in Members, NEW p \in Phases
  PROVE  /\ [o EXCEPT !.members = m, !.phase = p] \in Objects
         /\ [o EXCEPT !.members = m, !.phase = p].uid = o.uid
         /\ [o EXCEPT !.members = m, !.phase = p].conds = o.conds
BY DEF Objects

\* Whatever the provider's Status sees, it returns the resource with another
\* status and the same history.
LEMMA StatusOnErrorType ==
  ASSUME NEW o \in Objects
  PROVE  /\ StatusOnError(o) \in Objects
         /\ StatusOnError(o).uid = o.uid /\ StatusOnError(o).conds = o.conds
<1>1. "Creating" \in Phases /\ "Unknown" \in Phases
  BY DEF Phases
<1> QED
  BY <1>1, WithServiceType, PhaseSet
  DEF StatusOnError, KstoneStatusIncomplete, ImportedStatusIncomplete

\* The same when the calls to etcd succeed.
LEMMA StatusType ==
  ASSUME NEW o \in Objects, NEW e \in Members
  PROVE  /\ Status(o, e) \in Objects
         /\ Status(o, e).uid = o.uid /\ Status(o, e).conds = o.conds
<1>1. /\ StatusComplete(o, e) \in Objects
      /\ StatusComplete(o, e).uid = o.uid /\ StatusComplete(o, e).conds = o.conds
  <2>1. HealthPhase(Observed(o, e)) \in Phases
    BY DEF HealthPhase, Phases
  <2> DEFINE w == WithService(o)
             m == Observed(o, e)
             p == HealthPhase(m)
  <2>2. /\ w \in Objects /\ w.uid = o.uid /\ w.conds = o.conds
        /\ m \in Members /\ p \in Phases
    BY <2>1, ObservedType, WithServiceType
  <2>3. StatusComplete(o, e) = [w EXCEPT !.members = m, !.phase = p]
    BY DEF StatusComplete
  <2> HIDE DEF w, m, p
  <2>4. /\ [w EXCEPT !.members = m, !.phase = p] \in Objects
        /\ [w EXCEPT !.members = m, !.phase = p].uid = w.uid
        /\ [w EXCEPT !.members = m, !.phase = p].conds = w.conds
    BY <2>2, MembersAndPhaseSet
  <2> QED
    BY <2>2, <2>3, <2>4
<1>2. Status(o, e) = StatusComplete(o, e) \/ Status(o, e) = StatusOnError(o)
  BY DEF Status, StatusOnError
<1> QED
  BY <1>1, <1>2, StatusOnErrorType

-----------------------------------------------------------------------------
(* The copies of the resource, and the types of the variables *)

\* Every copy of the resource, wherever it is, belongs to S.
Copies(S) ==
  /\ api \in S
  /\ cache \in [Replicas -> S]
  /\ watch \in [Replicas -> Seq(S)]
  /\ obj \in S

\* The types of the other variables.
Shape ==
  /\ created \in Uids
  /\ dirty \in [Replicas -> BOOLEAN]
  /\ delayed \in BOOLEAN
  /\ leader \in Replicas
  /\ pc \in {"idle", "decide", "create", "update", "status", "persist", "labels",
             "feature"}
  /\ fresh \in BOOLEAN /\ failed \in BOOLEAN
  /\ todo \subseteq Features
  /\ child \in [uid : Uids, spec : Specs]
  /\ res \in [Features -> Uids]
  /\ etcd \in Members
  /\ calm \in BOOLEAN

\* A handler runs only on a history that calls for it.
HandlerReady ==
  /\ pc = "create" => MustCreate(obj.conds)
  /\ pc = "update" => ~ MustCreate(obj.conds)
  /\ pc = "status" => ~ MustCreate(obj.conds) /\ ~ MustUpdate(obj.conds)

\* The inductive invariant: ConditionHistory speaks of the API server's copy, but
\* the next write comes from a copy that went through a watch, a cache and a
\* handler, so all of them have to be sound.
IInv == Shape /\ Copies(Sound) /\ HandlerReady

-----------------------------------------------------------------------------
(* How copies travel *)

\* A resource of S stored in the API server, and sent to the watches, stays in S.
LEMMA StoreKeeps ==
  ASSUME NEW S, NEW o \in S, api \in S, watch \in [Replicas -> Seq(S)], Store(o)
  PROVE  api' \in S /\ watch' \in [Replicas -> Seq(S)]
<1>1. CASE o = api
  BY <1>1 DEF Store
<1>2. CASE o # api
  <2>1. \A r \in Replicas : Append(watch[r], o) \in Seq(S)
    OBVIOUS
  <2> QED
    BY <1>2, <2>1 DEF Store
<1> QED
  BY <1>1, <1>2

\* Delivering the head of a watch keeps caches and watches in S.
LEMMA DeliverKeeps ==
  ASSUME NEW S, Copies(S), NEW r \in Replicas, Deliver(r)
  PROVE  cache' \in [Replicas -> S] /\ watch' \in [Replicas -> Seq(S)]
<1>1. watch[r] \in Seq(S) /\ watch[r] # << >>
  BY DEF Copies, Deliver
<1>2. Head(watch[r]) \in S /\ Tail(watch[r]) \in Seq(S)
  BY <1>1, HeadTailProperties
<1> QED
  BY <1>2 DEF Copies, Deliver

\* The types of TypeOK are the types of the invariant's parts.
LEMMA InvariantType == IInv => TypeOK
<1>1. Sound \subseteq Objects
  BY DEF Sound
<1>2. \A s \in Seq(Sound) : s \in Seq(Objects)
  BY <1>1, SeqMonotonic
<1> QED
  BY <1>1, <1>2 DEF IInv, Shape, Copies, TypeOK

-----------------------------------------------------------------------------
(* The initial states *)

\* The invariant holds initially: every copy is the absent resource.
LEMMA InitInvariant == Init => IInv
<1> SUFFICES ASSUME Init PROVE IInv
  OBVIOUS
<1>1. 0 \in Uids /\ 0 \in Specs /\ NoMembers \in Members
  BY BoundsAssumption DEF BoundsAssumption, Uids, Specs, NoMembers, Members
<1>2. etcd \in Members
  <2>1. [n : 1 .. MaxSize, sick : {{}}] \subseteq Members
    BY BoundsAssumption DEF BoundsAssumption, Members
  <2> QED
    BY <1>1, <2>1 DEF Init
<1>3. Shape
  BY <1>1, <1>2 DEF Init, Shape, NoChild
<1>4. Copies(Sound)
  <2>1. << >> \in Seq(Sound)
    OBVIOUS
  <2> QED
    BY <2>1, NoObjectSound DEF Init, Copies
<1> QED
  BY <1>3, <1>4 DEF Init, IInv, HandlerReady

-----------------------------------------------------------------------------
(* The user *)

\* A write by somebody other than the worker, of a sound resource, and nothing
\* else but the number of creations.
LEMMA UserStep ==
  ASSUME IInv, NEW o \in Sound, StoreByOther(o), created' \in Uids,
         UNCHANGED <<cache, dirty, delayed, leader, pc, obj, failed, todo, worldVars,
                     calm>>
  PROVE  IInv'
<1>1. api' \in Sound /\ watch' \in [Replicas -> Seq(Sound)]
  BY StoreKeeps DEF IInv, Copies, StoreByOther
<1>2. Shape'
  BY DEF IInv, Shape, StoreByOther, worldVars
<1>3. Copies(Sound)'
  BY <1>1 DEF IInv, Copies
<1>4. HandlerReady'
  BY DEF IInv, HandlerReady
<1> QED
  BY <1>2, <1>3, <1>4 DEF IInv

\* The user submits a resource without history and phase.
LEMMA CreateClusterInvariant == IInv /\ CreateCluster => IInv'
<1> SUFFICES ASSUME IInv, CreateCluster PROVE IInv'
  OBVIOUS
<1>1. created + 1 \in Uids
  BY BoundsAssumption DEF BoundsAssumption, IInv, Shape, CreateCluster, Uids
<1>2. PICK g \in SUBSET Features, l \in BOOLEAN, a \in BOOLEAN :
        StoreByOther(NewObject(created + 1, g, l, a))
  BY DEF CreateCluster
<1>3. NewObject(created + 1, g, l, a) \in Sound
  BY <1>1, NewObjectSound
<1> QED
  BY <1>1, <1>2, <1>3, UserStep DEF CreateCluster

\* An edit of the specification leaves history and phase alone.
LEMMA EditSpecInvariant == IInv /\ EditSpec => IInv'
<1> SUFFICES ASSUME IInv, EditSpec PROVE IInv'
  OBVIOUS
<1> DEFINE o == [api EXCEPT !.spec = @ + 1]
<1>1. api \in Sound /\ api \in Objects
  BY DEF IInv, Copies, Sound
<1>2. o \in Objects /\ o.conds = api.conds /\ o.phase = api.phase
  <2>1. o \in Objects
    BY <1>1, SpecEdited DEF EditSpec
  <2> QED
    BY <1>1, <2>1 DEF Objects
<1>3. o \in Sound
  BY <1>1, <1>2, SameHistorySound
<1>4. created' \in Uids
  BY DEF EditSpec, IInv, Shape
<1> QED
  BY <1>3, <1>4, UserStep DEF EditSpec

\* So does an edit of the feature gates.
LEMMA ToggleGateInvariant ==
  ASSUME NEW f \in Features
  PROVE  IInv /\ ToggleGate(f) => IInv'
<1> SUFFICES ASSUME IInv, ToggleGate(f) PROVE IInv'
  OBVIOUS
<1> DEFINE o == [api EXCEPT !.gates = IF f \in @ THEN @ \ {f} ELSE @ \cup {f}]
<1>1. api \in Sound /\ api \in Objects
  BY DEF IInv, Copies, Sound
<1>2. o \in Objects /\ o.conds = api.conds /\ o.phase = api.phase
  <2>1. o \in Objects
    BY <1>1, GatesEdited
  <2> QED
    BY <1>1, <2>1 DEF Objects
<1>3. o \in Sound
  BY <1>1, <1>2, SameHistorySound
<1>4. created' \in Uids
  BY DEF ToggleGate, IInv, Shape
<1> QED
  BY <1>3, <1>4, UserStep DEF ToggleGate

\* A deletion leaves the absent resource, which is sound.
LEMMA DeleteClusterInvariant == IInv /\ DeleteCluster => IInv'
<1> SUFFICES ASSUME IInv, DeleteCluster PROVE IInv'
  OBVIOUS
<1>1. created' \in Uids
  BY DEF DeleteCluster, IInv, Shape
<1> QED
  BY <1>1, NoObjectSound, UserStep DEF DeleteCluster

-----------------------------------------------------------------------------
(* Informers, work queue and leader election *)

\* An informer moves a sound resource from its watch to its cache.
LEMMA DeliverInvariant ==
  ASSUME NEW r \in Replicas
  PROVE  IInv /\ Deliver(r) => IInv'
<1> SUFFICES ASSUME IInv, Deliver(r) PROVE IInv'
  OBVIOUS
<1>1. cache' \in [Replicas -> Sound] /\ watch' \in [Replicas -> Seq(Sound)]
  BY DeliverKeeps DEF IInv
<1>2. dirty' \in [Replicas -> BOOLEAN]
  BY DEF IInv, Shape, Deliver
<1> QED
  BY <1>1, <1>2
  DEF IInv, Shape, Copies, HandlerReady, Deliver, userVars, workerVars, worldVars

\* A resync only marks the key.
LEMMA ResyncInvariant ==
  ASSUME NEW r \in Replicas
  PROVE  IInv /\ Resync(r) => IInv'
BY DEF IInv, Shape, Copies, HandlerReady, Resync, userVars, workerVars, worldVars

\* So does the end of a delay.
LEMMA RequeueInvariant == IInv /\ Requeue => IInv'
BY DEF IInv, Shape, Copies, HandlerReady, Requeue, userVars, workerVars, worldVars

\* A new leader starts idle; the old one lists the API server's sound resource.
LEMMA FailoverInvariant ==
  ASSUME NEW r \in Replicas
  PROVE  IInv /\ Failover(r) => IInv'
<1> SUFFICES ASSUME IInv, Failover(r) PROVE IInv'
  OBVIOUS
<1>1. << >> \in Seq(Sound)
  OBVIOUS
<1>2. Copies(Sound)'
  BY <1>1, NoObjectSound DEF IInv, Copies, Failover, userVars
<1>3. Shape'
  BY DEF IInv, Shape, Failover, userVars, worldVars
<1> QED
  BY <1>2, <1>3 DEF IInv, HandlerReady, Failover

-----------------------------------------------------------------------------
(* The worker *)

\* When the worker returns, its copy and its place are those of an idle worker.
LEMMA ReturnShape ==
  ASSUME IInv, NEW err \in BOOLEAN, Return(err)
  PROVE  /\ obj' = NoObject /\ obj' \in Sound /\ pc' = "idle"
         /\ delayed' \in BOOLEAN /\ fresh' \in BOOLEAN /\ failed' \in BOOLEAN
         /\ todo' \subseteq Features
BY NoObjectSound DEF IInv, Shape, Return

\* The worker takes a copy of the sound resource in the cache.
LEMMA TakeItemInvariant == IInv /\ TakeItem => IInv'
<1> SUFFICES ASSUME IInv, TakeItem PROVE IInv'
  OBVIOUS
<1>1. leader \in Replicas /\ cache[leader] \in Sound
  BY DEF IInv, Shape, Copies
<1>2. Copies(Sound)'
  BY <1>1 DEF IInv, Copies, TakeItem, WorkerFrame
<1>3. Shape'
  BY <1>1 DEF IInv, Shape, TakeItem, WorkerFrame
<1>4. HandlerReady'
  BY DEF IInv, HandlerReady, TakeItem
<1> QED
  BY <1>2, <1>3, <1>4 DEF IInv

\* getDesiredAction picks a handler the history calls for, and writes nothing.
LEMMA DecideInvariant == IInv /\ Decide => IInv'
<1> SUFFICES ASSUME IInv, Decide PROVE IInv'
  OBVIOUS
<1>1. obj \in Sound
  BY DEF IInv, Copies
<1>2. CASE Return(TRUE)
  BY <1>2, ReturnShape
  DEF IInv, Shape, Copies, HandlerReady, Decide, WorkerFrame
<1>3. CASE /\ UNCHANGED <<delayed, obj, fresh, failed, todo>>
           /\ \/ pc' = "create" /\ MustCreate(obj.conds)
              \/ pc' = "update" /\ MustUpdate(obj.conds)
              \/ /\ ~ MustCreate(obj.conds) /\ ~ MustUpdate(obj.conds)
                 /\ pc' \in {"status", "update"}
  <2>1. MustUpdate(obj.conds) => ~ MustCreate(obj.conds)
    BY DEF MustCreate, MustUpdate, Unfinished
  <2>2. HandlerReady'
    BY <1>3, <2>1 DEF HandlerReady
  <2> QED
    BY <1>3, <2>2 DEF IInv, Shape, Copies, Decide, WorkerFrame
<1> QED
  BY <1>2, <1>3 DEF Decide

\* A handler that leaves a sound resource to be persisted.
LEMMA HandlerStep ==
  ASSUME IInv, obj' \in Sound, failed' \in BOOLEAN,
         child' \in [uid : Uids, spec : Specs], pc' = "persist",
         UNCHANGED <<api, watch, dirty, delayed, fresh, todo, res>>, WorkerFrame
  PROVE  IInv'
BY DEF IInv, Shape, Copies, HandlerReady, WorkerFrame

\* The operator's resource keeps its type.
LEMMA ChildType ==
  ASSUME IInv
  PROVE  /\ CreatedChild \in [uid : Uids, spec : Specs]
         /\ UpdatedChild \in [uid : Uids, spec : Specs]
         /\ child \in [uid : Uids, spec : Specs]
<1>1. obj.uid \in Uids /\ obj.spec \in Specs
  BY ObjectFields DEF IInv, Copies, Sound
<1> QED
  BY <1>1 DEF IInv, Shape, CreatedChild, UpdatedChild

\* What an attempted creation leaves in memory, unfinished or finished.
LEMMA AttemptedCreate ==
  ASSUME NEW o \in Sound, MustCreate(o.conds)
  PROVE  LET a == [o EXCEPT !.conds = GenerateConditions(@, "Create"),
                            !.phase = "Creating"]
         IN  a \in Sound /\ [AfterCreate(a) EXCEPT !.conds = CompleteLast(@)] \in Sound
<1> DEFINE a == [o EXCEPT !.conds = GenerateConditions(@, "Create"),
                          !.phase = "Creating"]
           b == AfterCreate(a)
           c == [b EXCEPT !.conds = CompleteLast(@)]
<1>1. o \in Objects /\ o.conds \in Histories
  BY DEF Sound
<1>2. /\ GenerateConditions(o.conds, "Create") = << Pending("Create") >>
      /\ CompleteLast(<< Pending("Create") >>) = << Completed("Create") >>
  BY <1>1, CreateHistory
<1>3. /\ << Pending("Create") >> \in Histories /\ << Completed("Create") >> \in Histories
      /\ << Pending("Create") >> \in Seq(Conditions)
      /\ << Completed("Create") >> \in Seq(Conditions)
  BY HistoriesType DEF Histories
<1>4. /\ a \in Objects /\ a.conds = << Pending("Create") >> /\ a.phase = "Creating"
  BY <1>1, <1>2, <1>3 DEF Objects, Phases
<1>5. a \in Sound
  BY <1>3, <1>4 DEF Sound, ObservedPhase
<1> HIDE DEF a
<1>6. b \in Objects /\ b.conds = << Pending("Create") >> /\ b.phase = "Creating"
  BY <1>4, AfterCreateType
<1> HIDE DEF b
<1>7. c \in Objects /\ c.conds = << Completed("Create") >> /\ c.phase = "Creating"
  BY <1>2, <1>3, <1>6 DEF Objects
<1>8. c \in Sound
  BY <1>3, <1>7 DEF Sound, ObservedPhase
<1> QED
  BY <1>5, <1>8 DEF a, b

\* handleClusterCreate leaves an open or a completed creation in memory.
LEMMA HandleClusterCreateInvariant == IInv /\ HandleClusterCreate => IInv'
<1> SUFFICES ASSUME IInv, HandleClusterCreate PROVE IInv'
  OBVIOUS
<1>1. obj \in Sound /\ MustCreate(obj.conds)
  BY DEF IInv, Copies, HandlerReady, HandleClusterCreate
<1>2. obj' \in Sound
  BY <1>1, AttemptedCreate DEF HandleClusterCreate, Attempt
<1>3. child' \in [uid : Uids, spec : Specs] /\ failed' \in BOOLEAN
  BY ChildType DEF HandleClusterCreate
<1> QED
  BY <1>2, <1>3, HandlerStep DEF HandleClusterCreate

\* What an attempted update leaves in memory, unfinished or finished.
LEMMA AttemptedUpdate ==
  ASSUME NEW o \in Sound, ~ MustCreate(o.conds)
  PROVE  LET a == [o EXCEPT !.conds = GenerateConditions(@, "Update"),
                            !.phase = "Updating"]
         IN  a \in Sound /\ [a EXCEPT !.conds = CompleteLast(@)] \in Sound
<1> DEFINE open == << Completed("Create"), Pending("Update") >>
           done == << Completed("Create"), Completed("Update") >>
           a == [o EXCEPT !.conds = GenerateConditions(@, "Update"),
                          !.phase = "Updating"]
           c == [a EXCEPT !.conds = CompleteLast(@)]
<1>1. o \in Objects /\ o.conds \in Histories
  BY DEF Sound
<1>2. GenerateConditions(o.conds, "Update") = open /\ CompleteLast(open) = done
  BY <1>1, UpdateHistory
<1>3. /\ open \in Histories /\ done \in Histories
      /\ open \in Seq(Conditions) /\ done \in Seq(Conditions)
  BY HistoriesType DEF Histories
<1> HIDE DEF open, done
<1>4. a \in Objects /\ a.conds = open /\ a.phase = "Updating"
  BY <1>1, <1>2, <1>3 DEF Objects, Phases
<1>5. a \in Sound
  BY <1>3, <1>4 DEF Sound, ObservedPhase
<1> HIDE DEF a
<1>6. c \in Objects /\ c.conds = done /\ c.phase = "Updating"
  BY <1>2, <1>3, <1>4 DEF Objects
<1>7. c \in Sound
  BY <1>3, <1>6 DEF Sound, ObservedPhase
<1> QED
  BY <1>5, <1>7 DEF a

\* handleClusterUpdate leaves an open or a completed update in memory.
LEMMA HandleClusterUpdateInvariant == IInv /\ HandleClusterUpdate => IInv'
<1> SUFFICES ASSUME IInv, HandleClusterUpdate PROVE IInv'
  OBVIOUS
<1>1. obj \in Sound /\ ~ MustCreate(obj.conds)
  BY DEF IInv, Copies, HandlerReady, HandleClusterUpdate
<1>2. obj' \in Sound
  BY <1>1, AttemptedUpdate DEF HandleClusterUpdate, Attempt
<1>3. child' \in [uid : Uids, spec : Specs] /\ failed' \in BOOLEAN
  BY ChildType DEF HandleClusterUpdate
<1> QED
  BY <1>2, <1>3, HandlerStep DEF HandleClusterUpdate

\* handleClusterStatus sets phases on a finished history only.
LEMMA HandleClusterStatusInvariant == IInv /\ HandleClusterStatus => IInv'
<1> SUFFICES ASSUME IInv, HandleClusterStatus PROVE IInv'
  OBVIOUS
<1>1. /\ obj \in Objects /\ obj.conds \in Histories /\ etcd \in Members
      /\ ~ MustCreate(obj.conds) /\ ~ MustUpdate(obj.conds)
  BY DEF IInv, Shape, Copies, HandlerReady, HandleClusterStatus, Sound
<1>2. obj' \in Objects /\ obj'.conds = obj.conds
  BY <1>1, StatusType, StatusOnErrorType DEF HandleClusterStatus
<1>3. obj' \in Sound
  BY <1>1, <1>2, FinishedSound
<1>4. child' \in [uid : Uids, spec : Specs] /\ failed' \in BOOLEAN
  BY ChildType DEF HandleClusterStatus
<1> QED
  BY <1>3, <1>4, HandlerStep DEF HandleClusterStatus

\* What updateEtcdClusterStatus stores is the worker's sound copy.
LEMMA PersistInvariant == IInv /\ Persist => IInv'
<1> SUFFICES ASSUME IInv, Persist PROVE IInv'
  OBVIOUS
<1>1. api' \in Sound /\ watch' \in [Replicas -> Seq(Sound)]
  BY StoreKeeps DEF IInv, Copies, Persist
<1>2. failed \in BOOLEAN /\ fresh \in BOOLEAN
  BY DEF IInv, Shape
<1>3. CASE Return(failed)
  BY <1>1, <1>2, <1>3, ReturnShape
  DEF IInv, Shape, Copies, HandlerReady, Persist, WorkerFrame
<1>4. CASE /\ pc' = "labels"
           /\ fresh' = (fresh /\ api' = api)
           /\ UNCHANGED <<delayed, obj, failed, todo>>
  BY <1>1, <1>2, <1>4
  DEF IInv, Shape, Copies, HandlerReady, Persist, WorkerFrame
<1> QED
  BY <1>3, <1>4 DEF Persist

\* handleClusterFeature is entered with a sound resource.
LEMMA EnterFeaturesStep ==
  ASSUME IInv, NEW o \in Sound, EnterFeatures(o)
  PROVE  /\ obj' \in Sound /\ pc' \in {"idle", "feature"}
         /\ delayed' \in BOOLEAN /\ fresh' \in BOOLEAN /\ failed' \in BOOLEAN
         /\ todo' \subseteq Features
<1>1. CASE Return(FALSE)
  BY <1>1, ReturnShape
<1>2. CASE /\ pc' = "feature" /\ obj' = o /\ todo' = Features
           /\ UNCHANGED <<delayed, fresh, failed>>
  BY <1>2 DEF IInv, Shape
<1> QED
  BY <1>1, <1>2 DEF EnterFeatures

\* Labels have no part in the history.
LEMMA HandleClusterLabelsInvariant == IInv /\ HandleClusterLabels => IInv'
<1> SUFFICES ASSUME IInv, HandleClusterLabels PROVE IInv'
  OBVIOUS
<1> DEFINE labelled == [obj EXCEPT !.labels = DesiredLabels(obj)]
<1>1. obj \in Sound /\ obj \in Objects
  BY DEF IInv, Copies, Sound
<1>2. labelled \in Objects /\ labelled.conds = obj.conds /\ labelled.phase = obj.phase
  <2>1. labelled \in Objects
    BY <1>1, Relabelled
  <2> QED
    BY <1>1, <2>1 DEF Objects
<1>3. labelled \in Sound
  BY <1>1, <1>2, SameHistorySound
<1> HIDE DEF labelled
<1>4. api' \in Sound /\ watch' \in [Replicas -> Seq(Sound)]
  BY <1>3, StoreKeeps DEF IInv, Copies, HandleClusterLabels, labelled
<1>5. /\ obj' \in Sound /\ pc' \in {"idle", "feature"}
      /\ delayed' \in BOOLEAN /\ fresh' \in BOOLEAN /\ failed' \in BOOLEAN
      /\ todo' \subseteq Features
  <2>1. EnterFeatures(labelled) \/ Return(TRUE)
    BY DEF HandleClusterLabels, labelled
  <2> QED
    BY <1>3, <2>1, EnterFeaturesStep, ReturnShape
<1> QED
  BY <1>4, <1>5
  DEF IInv, Shape, Copies, HandlerReady, HandleClusterLabels, WorkerFrame

\* Nor has the recorded status of a feature.
LEMMA SyncFeatureInvariant ==
  ASSUME NEW f \in Features
  PROVE  IInv /\ SyncFeature(f) => IInv'
<1> SUFFICES ASSUME IInv, SyncFeature(f) PROVE IInv'
  OBVIOUS
<1>1. obj \in Sound /\ obj \in Objects /\ obj.uid \in Uids
  BY ObjectFields DEF IInv, Copies, Sound
<1>2. obj' \in Sound
  <2>1. CASE obj' = obj
    BY <1>1, <2>1
  <2>2. CASE \E g \in GateStates : obj' = [obj EXCEPT !.fgs[f] = g]
    <3>1. PICK g \in GateStates : obj' = [obj EXCEPT !.fgs[f] = g]
      BY <2>2
    <3>2. obj' \in Objects
      BY <1>1, <3>1, GateRecorded
    <3>3. obj'.conds = obj.conds /\ obj'.phase = obj.phase
      BY <1>1, <3>1 DEF Objects
    <3> QED
      BY <1>1, <3>2, <3>3, SameHistorySound
  <2>3. "enabled" \in GateStates /\ "disabled" \in GateStates /\ "failed" \in GateStates
    BY DEF GateStates
  <2> QED
    BY <2>1, <2>2, <2>3 DEF SyncFeature
<1>3. res' \in [Features -> Uids]
  <2>1. SyncedResource(f) \in Uids
    BY <1>1, BoundsAssumption DEF BoundsAssumption, Uids, SyncedResource, IInv, Shape
  <2> QED
    BY <2>1 DEF SyncFeature, IInv, Shape
<1> QED
  BY <1>2, <1>3 DEF IInv, Shape, Copies, HandlerReady, SyncFeature, WorkerFrame

\* The last Update of a reconcile stores the worker's sound copy.
LEMMA FinalUpdateInvariant == IInv /\ FinalUpdate => IInv'
<1> SUFFICES ASSUME IInv, FinalUpdate PROVE IInv'
  OBVIOUS
<1>1. api' \in Sound /\ watch' \in [Replicas -> Seq(Sound)]
  BY StoreKeeps DEF IInv, Copies, FinalUpdate
<1>2. Return(FALSE) \/ Return(TRUE)
  BY DEF FinalUpdate
<1> QED
  BY <1>1, <1>2, ReturnShape
  DEF IInv, Shape, Copies, HandlerReady, FinalUpdate, WorkerFrame

\* Every step of reconcileEtcdCluster preserves the invariant.
LEMMA WorkerInvariant == IInv /\ Worker => IInv'
BY TakeItemInvariant, DecideInvariant, HandleClusterCreateInvariant,
   HandleClusterUpdateInvariant, HandleClusterStatusInvariant, PersistInvariant,
   HandleClusterLabelsInvariant, SyncFeatureInvariant, FinalUpdateInvariant
DEF Worker

-----------------------------------------------------------------------------
(* The etcd operator, etcd, the garbage collector and the faults *)

\* Only the world around the controller changes, within its types.
LEMMA WorldStep ==
  ASSUME IInv, UNCHANGED <<userVars, cacheVars, delayed, leader, workerVars, calm>>,
         child' \in [uid : Uids, spec : Specs], res' \in [Features -> Uids],
         etcd' \in Members
  PROVE  IInv'
BY DEF IInv, Shape, Copies, HandlerReady, userVars, cacheVars, workerVars

\* The members stay in their type: growing towards a size, shrinking above one.
LEMMA ScaleMembersType ==
  ASSUME IInv, ScaleMembers
  PROVE  etcd' \in Members
<1>1. SizeOf[child.spec] \in 1 .. MaxSize
  BY SizeType DEF IInv, Shape
<1>2. etcd.n \in 0 .. MaxSize /\ etcd.sick \subseteq 0 .. MaxSize - 1
  BY DEF IInv, Shape, Members
<1>3. CASE etcd.n < SizeOf[child.spec]
  BY <1>1, <1>2, <1>3, BoundsAssumption
  DEF BoundsAssumption, IInv, Shape, ScaleMembers, Members
<1>4. CASE ~ (etcd.n < SizeOf[child.spec])
  <2>1. etcd.n - 1 \in 0 .. MaxSize
    BY <1>1, <1>2, <1>4, BoundsAssumption DEF BoundsAssumption
  <2>2. etcd' = [n |-> etcd.n - 1, sick |-> etcd.sick \ {etcd.n - 1}]
    BY <1>4 DEF ScaleMembers
  <2> QED
    BY <1>2, <2>1, <2>2 DEF Members
<1> QED
  BY <1>3, <1>4

\* The operator, etcd and the garbage collector touch no copy of the resource.
LEMMA WorldInvariant == IInv /\ World => IInv'
<1> SUFFICES ASSUME IInv, World PROVE IInv'
  OBVIOUS
<1>1. /\ child \in [uid : Uids, spec : Specs] /\ res \in [Features -> Uids]
      /\ etcd \in Members /\ NoMembers \in Members /\ 0 \in Uids
      /\ NoChild \in [uid : Uids, spec : Specs]
  BY BoundsAssumption
  DEF BoundsAssumption, IInv, Shape, NoMembers, Members, NoChild, Uids, Specs
<1>2. CASE ScaleMembers
  BY <1>1, <1>2, ScaleMembersType, WorldStep DEF ScaleMembers
<1>3. CASE ResizeImported
  <2>1. etcd' \in Members
    BY <1>1, <1>3, BoundsAssumption DEF BoundsAssumption, ResizeImported, Members
  <2> QED
    BY <1>1, <1>3, <2>1, WorldStep DEF ResizeImported
<1>4. CASE CollectChild
  BY <1>1, <1>4, WorldStep DEF CollectChild
<1>5. ASSUME NEW m \in 0 .. MaxSize - 1, Sicken(m) \/ Heal(m)
      PROVE  IInv'
  <2>1. etcd' \in Members
    BY <1>1, <1>5 DEF Sicken, Heal, Members
  <2> QED
    BY <1>1, <1>5, <2>1, WorldStep DEF Sicken, Heal
<1>6. ASSUME NEW f \in Features, CollectResource(f)
      PROVE  IInv'
  <2>1. res' \in [Features -> Uids]
    BY <1>1, <1>6 DEF CollectResource
  <2> QED
    BY <1>1, <1>6, <2>1, WorldStep DEF CollectResource
<1> QED
  BY <1>2, <1>3, <1>4, <1>5, <1>6 DEF World

\* Nor does the end of edits and faults.
LEMMA CalmDownInvariant == IInv /\ CalmDown => IInv'
BY DEF IInv, Shape, Copies, HandlerReady, CalmDown, userVars, cacheVars, workerVars,
       worldVars

-----------------------------------------------------------------------------
(* The invariant and what follows *)

\* The invariant is inductive.
LEMMA NextInvariant == IInv /\ [Next]_vars => IInv'
<1> SUFFICES ASSUME IInv, [Next]_vars PROVE IInv'
  OBVIOUS
<1>1. CASE User
  BY <1>1, CreateClusterInvariant, EditSpecInvariant, ToggleGateInvariant,
     DeleteClusterInvariant DEF User
<1>2. CASE Queue
  BY <1>2, RequeueInvariant, DeliverInvariant, ResyncInvariant DEF Queue
<1>3. CASE \E r \in Replicas : Failover(r)
  BY <1>3, FailoverInvariant
<1>4. CASE UNCHANGED vars
  BY <1>4 DEF IInv, Shape, Copies, HandlerReady, vars
<1> QED
  BY <1>1, <1>2, <1>3, <1>4, WorkerInvariant, WorldInvariant, CalmDownInvariant DEF Next

\* In every reachable state every copy of the resource has a history and a phase
\* the controller can have left behind, and handlers run only where called for.
THEOREM Soundness == Spec => []IInv
BY InitInvariant, NextInvariant, PTL DEF Spec

\* Every variable keeps its type, with any number of replicas and any faults.
THEOREM TypeCorrect == Spec => []TypeOK
BY Soundness, InvariantType, PTL

\* However many controllers crash, conflict and work from old copies, the recorded
\* history starts with the creation, has one condition per type, and only its
\* last one is open.
THEOREM HistoryCorrect == Spec => []ConditionHistory
<1>1. IInv => ConditionHistory
  BY DEF IInv, Copies, Sound, ConditionHistory
<1> QED
  BY <1>1, Soundness, PTL

\* A cluster is shown Running, UnHealthy or Unknown only when no creation or
\* update of it is recorded as open.
THEOREM PhaseCorrect == Spec => []PhaseFollowsConditions
<1>1. IInv => PhaseFollowsConditions
  BY DEF IInv, Copies, Sound, PhaseFollowsConditions
<1> QED
  BY <1>1, Soundness, PTL

-----------------------------------------------------------------------------
(* What the worker's copy is worth                                         *)
(*                                                                         *)
(* The properties that relate the API server's copy to an earlier one, or  *)
(* to the features' resources, rest on three facts: the last version a     *)
(* replica has been sent is the API server's; while the worker's copy has  *)
(* the current resourceVersion it agrees with the API server's on all the  *)
(* user writes; and no copy, however old, records a creation the API       *)
(* server has not recorded of the same cluster.                            *)

\* Every member the specification of o asks for was listed and is healthy.
Strong(o) ==
  /\ o.members.sick = {}
  /\ Imported \/ o.members.n = SizeOf[o.spec]

\* A cache without pending events, or else the last pending event, is current.
LatestInv ==
  \A r \in Replicas :
    IF watch[r] = << >> THEN cache[r] = api ELSE LastOf(watch[r]) = api

\* What a copy with the current resourceVersion may differ in.
FreshInv ==
  fresh =>
    /\ pc # "idle"
    /\ obj.uid = api.uid /\ obj.spec = api.spec /\ obj.gates = api.gates
    /\ CreationRecorded(api) => CreationRecorded(obj)
    /\ obj.phase = "Running" => api.phase = "Running" \/ Strong(obj)

\* The resources that record nothing the API server has not recorded.
Known ==
  {o \in Sound :
     /\ o.uid <= created
     /\ o.uid # 0 /\ o.uid = api.uid /\ CreationRecorded(o) => CreationRecorded(api)}

\* The worker's copy is known too, but for the moment between the creation of the
\* child and the write that records it, when the worker cannot come to a feature.
WorkerKnown ==
  /\ obj.uid <= created
  /\ pc # "idle" => obj.uid # 0
  /\ pc # "persist" \/ obj.phase = "Running" => obj \in Known
  /\ pc \in {"labels", "feature"} => obj.phase = "Running"

TravelKnown ==
  api \in Known /\ cache \in [Replicas -> Known] /\ watch \in [Replicas -> Seq(Known)]

\* No feature has a resource of a cluster still to be created.
FeaturesKnown ==
  \A f \in Features :
    res[f] <= created /\ (res[f] # 0 /\ res[f] = api.uid => CreationRecorded(api))

KInv == LatestInv /\ FreshInv /\ WorkerKnown /\ TravelKnown /\ FeaturesKnown

-----------------------------------------------------------------------------
(* How copies travel: events are appended, delivered or listed anew *)

Travel ==
  \/ /\ UNCHANGED cache
     /\ \/ UNCHANGED <<api, watch>>
        \/ watch' = [r \in Replicas |-> Append(watch[r], api')]
  \/ \E r \in Replicas : Deliver(r) \/ Failover(r)

\* A write sends what it has written.
LEMMA StoreTravels ==
  ASSUME NEW o, Store(o)
  PROVE  /\ api' = o
         /\ UNCHANGED <<api, watch>> \/ watch' = [r \in Replicas |-> Append(watch[r], api')]
BY DEF Store

\* Every step moves copies in one of these ways.
LEMMA NextTravels == Next => Travel
<1> USE DEF Travel
<1>1. User => Travel
  BY StoreTravels
  DEF User, CreateCluster, EditSpec, ToggleGate, DeleteCluster, StoreByOther
<1>2. Queue => Travel
  BY DEF Queue, Requeue, Resync, userVars
<1>3. Worker => Travel
  <2>1. TakeItem \/ Decide \/ HandleClusterCreate \/ HandleClusterUpdate
          \/ HandleClusterStatus \/ (\E f \in Features : SyncFeature(f)) => Travel
    BY DEF TakeItem, Decide, HandleClusterCreate, HandleClusterUpdate,
           HandleClusterStatus, SyncFeature, WorkerFrame
  <2>2. Persist \/ HandleClusterLabels \/ FinalUpdate => Travel
    BY StoreTravels DEF Persist, HandleClusterLabels, FinalUpdate, WorkerFrame
  <2> QED
    BY <2>1, <2>2 DEF Worker
<1>4. World => Travel
  BY DEF World, ScaleMembers, ResizeImported, CollectChild, Sicken, Heal,
         CollectResource, userVars, cacheVars
<1>5. CalmDown => Travel
  BY DEF CalmDown, userVars, cacheVars
<1> QED
  BY <1>1, <1>2, <1>3, <1>4, <1>5 DEF Next

\* Where every copy was in S, and the API server's is, every copy is.
LEMMA TravelKeeps ==
  ASSUME NEW S, cache \in [Replicas -> S], watch \in [Replicas -> Seq(S)],
         api \in S, api' \in S, leader \in Replicas, Travel
  PROVE  cache' \in [Replicas -> S] /\ watch' \in [Replicas -> Seq(S)]
<1>1. CASE UNCHANGED cache /\ UNCHANGED <<api, watch>>
  BY <1>1
<1>2. CASE UNCHANGED cache /\ watch' = [r \in Replicas |-> Append(watch[r], api')]
  <2>1. \A r \in Replicas : Append(watch[r], api') \in Seq(S)
    OBVIOUS
  <2> QED
    BY <1>2, <2>1
<1>3. ASSUME NEW r \in Replicas, Deliver(r)
      PROVE  cache' \in [Replicas -> S] /\ watch' \in [Replicas -> Seq(S)]
  <2>1. watch[r] \in Seq(S) /\ watch[r] # << >>
    BY <1>3 DEF Deliver
  <2>2. Head(watch[r]) \in S /\ Tail(watch[r]) \in Seq(S)
    BY <2>1, HeadTailProperties
  <2> QED
    BY <1>3, <2>2 DEF Deliver
<1>4. ASSUME NEW r \in Replicas, Failover(r)
      PROVE  cache' \in [Replicas -> S] /\ watch' \in [Replicas -> Seq(S)]
  <2>1. << >> \in Seq(S)
    OBVIOUS
  <2> QED
    BY <1>4, <2>1 DEF Failover
<1> QED
  BY <1>1, <1>2, <1>3, <1>4 DEF Travel

\* The last element of a sequence after an element is added or the first taken off.
LEMMA LastAppended ==
  ASSUME NEW S, NEW s \in Seq(S), NEW e \in S
  PROVE  Append(s, e) # << >> /\ LastOf(Append(s, e)) = e
BY AppendProperties DEF LastOf

\* What a watch has last in line stays last when its first copy is taken off.
LEMMA LastOfTail ==
  ASSUME NEW S, NEW s \in Seq(S), s # << >>
  PROVE  IF Tail(s) = << >> THEN Head(s) = LastOf(s) ELSE LastOf(Tail(s)) = LastOf(s)
<1>1. /\ Len(s) \in Nat /\ Len(s) # 0 /\ Head(s) = s[1]
      /\ Tail(s) \in Seq(S) /\ Len(Tail(s)) = Len(s) - 1
      /\ \A i \in 1 .. Len(Tail(s)) : Tail(s)[i] = s[i + 1]
  BY EmptySeq, HeadTailProperties
<1>2. CASE Tail(s) = << >>
  <2>1. Len(Tail(s)) = 0
    BY <1>1, <1>2, EmptySeq
  <2>2. ~ (0 >= 1) /\ \A n \in Nat : n = 0 \/ n = 1 \/ n - 1 >= 1
    OBVIOUS
  <2>3. Len(s) = 1
    BY <1>1, <2>1, <2>2, Zenon
  <2> QED
    BY <1>1, <1>2, <2>3 DEF LastOf
<1>3. CASE Tail(s) # << >>
  <2>1. Len(Tail(s)) \in 1 .. Len(Tail(s))
    BY <1>1, <1>3, EmptySeq
  <2> QED
    BY <1>1, <1>3, <2>1 DEF LastOf
<1> QED
  BY <1>2, <1>3

\* The last version sent stays the current one.
LEMMA LatestStep ==
  ASSUME IInv, IInv', LatestInv, Travel
  PROVE  LatestInv'
<1>1. /\ cache \in [Replicas -> Sound] /\ watch \in [Replicas -> Seq(Sound)]
      /\ leader \in Replicas /\ api' \in Sound
  BY DEF IInv, Copies, Shape
<1>2. CASE UNCHANGED cache /\ UNCHANGED <<api, watch>>
  BY <1>2 DEF LatestInv
<1>3. CASE UNCHANGED cache /\ watch' = [r \in Replicas |-> Append(watch[r], api')]
  <2>1. ASSUME NEW r \in Replicas PROVE watch'[r] # << >> /\ LastOf(watch'[r]) = api'
    <3>1. watch[r] \in Seq(Sound) /\ watch'[r] = Append(watch[r], api')
      BY <1>1, <1>3
    <3> QED
      BY <1>1, <3>1, LastAppended
  <2> QED
    BY <2>1 DEF LatestInv
<1>4. ASSUME NEW r \in Replicas, Deliver(r) PROVE LatestInv'
  <2>1. watch[r] \in Seq(Sound) /\ watch[r] # << >> /\ LastOf(watch[r]) = api
    BY <1>1, <1>4 DEF LatestInv, Deliver
  <2>2. IF Tail(watch[r]) = << >> THEN Head(watch[r]) = api
                                  ELSE LastOf(Tail(watch[r])) = api
    BY <2>1, LastOfTail
  <2>3. /\ api' = api
        /\ cache' = [cache EXCEPT ![r] = Head(watch[r])]
        /\ watch' = [watch EXCEPT ![r] = Tail(@)]
    BY <1>4 DEF Deliver, userVars
  <2> SUFFICES ASSUME NEW s \in Replicas
               PROVE  IF watch'[s] = << >> THEN cache'[s] = api' ELSE LastOf(watch'[s]) = api'
    BY DEF LatestInv
  <2>4. CASE s = r
    BY <1>1, <2>2, <2>3, <2>4
  <2>5. CASE s # r
    BY <1>1, <2>3, <2>5 DEF LatestInv
  <2> QED
    BY <2>4, <2>5
<1>5. ASSUME NEW r \in Replicas, Failover(r) PROVE LatestInv'
  BY <1>1, <1>5 DEF LatestInv, Failover, userVars
<1> QED
  BY <1>2, <1>3, <1>4, <1>5 DEF Travel

-----------------------------------------------------------------------------
(* What is known stays known *)

\* A history the controller can leave behind records the creation unless it calls
\* for one.
LEMMA CreationInHistory ==
  ASSUME NEW o \in Sound
  PROVE  /\ ~ MustCreate(o.conds) <=> CreationRecorded(o)
         /\ o.phase = "Running" => CreationRecorded(o)
<1>1. o.conds \in Histories /\ ObservedPhase(o)
  BY DEF Sound
<1>2. ~ MustCreate(o.conds) <=> CreationRecorded(o)
  BY <1>1 DEF Histories, MustCreate, Unfinished, LastOf, Pending, Completed,
              CreationRecorded
<1>3. o.phase = "Running" => ~ MustCreate(o.conds)
  BY <1>1 DEF ObservedPhase, MustCreate, Unfinished
<1> QED
  BY <1>2, <1>3

\* The same identity and history: nothing more is recorded.
LEMMA KnownSame ==
  ASSUME NEW o \in Known, NEW p \in Sound, p.uid = o.uid, p.conds = o.conds
  PROVE  p \in Known
BY DEF Known, CreationRecorded

\* A step that deletes the resource, makes one with a new uid, or keeps the one
\* there is with its creation recorded.
Grows ==
  /\ created' >= created /\ api'.uid <= created'
  /\ \/ api'.uid = 0
     \/ api'.uid > created
     \/ api'.uid = api.uid /\ (CreationRecorded(api) => CreationRecorded(api'))

\* Then what recorded nothing new still records nothing new.
LEMMA KnownGrows ==
  ASSUME IInv, IInv', Grows
  PROVE  Known \subseteq Known'
<1> SUFFICES ASSUME NEW o \in Known PROVE o \in Known'
  OBVIOUS
<1>1. o \in Sound /\ o.uid \in Nat /\ created \in Nat /\ created' \in Nat
  BY BoundsAssumption, ObjectFields
  DEF BoundsAssumption, Known, Sound, Uids, IInv, Shape
<1>2. o.uid <= created /\ o.uid <= created'
  BY <1>1 DEF Known, Grows
<1>3. ASSUME o.uid # 0, o.uid = api'.uid, CreationRecorded(o)
      PROVE  CreationRecorded(api')
  BY <1>1, <1>2, <1>3 DEF Known, Grows
<1>4. CreationRecorded(o)' <=> CreationRecorded(o)
  BY DEF CreationRecorded
<1> QED
  BY <1>1, <1>2, <1>3, <1>4 DEF Known

\* With the API server's copy known, what travels is.
LEMMA TravelKnownStep ==
  ASSUME IInv, IInv', TravelKnown, Grows, Travel, api' \in Known'
  PROVE  TravelKnown'
<1> DEFINE S == Known'
<1>1. Known \subseteq S
  BY KnownGrows
<1>2. \A s \in Seq(Known) : s \in Seq(S)
  BY <1>1, SeqMonotonic
<1>3. cache \in [Replicas -> S] /\ watch \in [Replicas -> Seq(S)] /\ api \in S /\ api' \in S
  BY <1>1, <1>2 DEF TravelKnown
<1>4. leader \in Replicas
  BY DEF IInv, Shape
<1> HIDE DEF S
<1>5. cache' \in [Replicas -> S] /\ watch' \in [Replicas -> Seq(S)]
  BY <1>3, <1>4, TravelKeeps
<1> QED
  BY <1>3, <1>5 DEF S, TravelKnown

\* The features' resources do not get ahead of the recorded creation.
LEMMA FeaturesGrow ==
  ASSUME IInv, IInv', FeaturesKnown, Grows, UNCHANGED res
  PROVE  FeaturesKnown'
<1> SUFFICES ASSUME NEW f \in Features
             PROVE  /\ res[f] <= created'
                    /\ res[f] # 0 /\ res[f] = api'.uid => CreationRecorded(api')
  BY DEF FeaturesKnown, CreationRecorded
<1>1. res[f] \in Nat /\ created \in Nat /\ created' \in Nat
  BY BoundsAssumption DEF BoundsAssumption, Uids, IInv, Shape
<1>2. res[f] <= created /\ (res[f] # 0 /\ res[f] = api.uid => CreationRecorded(api))
  BY DEF FeaturesKnown
<1> QED
  BY <1>1, <1>2 DEF Grows

-----------------------------------------------------------------------------
(* What is written to the API server *)

\* The worker changes no user field, forgets no creation, and comes to write
\* Running of a cluster in full strength only.
ControllerWrite ==
  /\ created' = created
  /\ api'.uid = api.uid /\ api'.spec = api.spec /\ api'.gates = api.gates
  /\ CreationRecorded(api) => CreationRecorded(api')
  /\ api'.phase = "Running" => api.phase = "Running" \/ Strong(api')
  /\ api'.conds \in {api.conds, obj.conds}

\* The user makes a resource with a new uid, deletes it, or edits it and leaves
\* its status alone.
UserWrite ==
  \/ /\ api'.uid = created' /\ created' = created + 1 /\ api.uid = 0 /\ api'.spec = 0
     /\ api'.conds = << >> /\ api'.phase = ""
  \/ /\ api'.uid = 0 /\ created' = created /\ api.uid # 0
     /\ api'.conds = << >> /\ api'.phase = ""
     /\ "delete" \in Faults
  \/ /\ api'.uid = api.uid /\ created' = created
     /\ api'.spec \in {api.spec, api.spec + 1}
     /\ api'.conds = api.conds /\ api'.phase = api.phase

\* What is stored from a copy with the current resourceVersion is such a write.
LEMMA FreshWrite ==
  ASSUME FreshInv, fresh, NEW o, Store(o), created' = created,
         o.uid = obj.uid, o.spec = obj.spec, o.gates = obj.gates, o.conds = obj.conds,
         o.phase = obj.phase, o.members = obj.members
  PROVE  ControllerWrite
<1>1. api' = o
  BY StoreTravels
<1> QED
  BY <1>1 DEF FreshInv, ControllerWrite, CreationRecorded, Strong

\* Labels touch none of those fields.
LEMMA RelabelledFields ==
  ASSUME NEW o \in Objects
  PROVE  LET p == [o EXCEPT !.labels = DesiredLabels(o)]
         IN  /\ p.uid = o.uid /\ p.spec = o.spec /\ p.gates = o.gates
             /\ p.conds = o.conds /\ p.phase = o.phase /\ p.members = o.members
             /\ p.fgs = o.fgs
BY DEF Objects

\* Every write of the worker is such a write.
LEMMA WorkerWrites ==
  ASSUME IInv, FreshInv, Worker
  PROVE  ControllerWrite
<1>1. CASE UNCHANGED <<api, created>>
  BY <1>1 DEF ControllerWrite
<1>2. CASE fresh /\ created' = created /\ Store(obj)
  BY <1>2, FreshWrite
<1>3. CASE /\ fresh /\ created' = created
           /\ Store([obj EXCEPT !.labels = DesiredLabels(obj)])
  <2>1. obj \in Objects
    BY DEF IInv, Copies, Sound
  <2> DEFINE o == [obj EXCEPT !.labels = DesiredLabels(obj)]
  <2>2. /\ o.uid = obj.uid /\ o.spec = obj.spec /\ o.gates = obj.gates
        /\ o.conds = obj.conds /\ o.phase = obj.phase /\ o.members = obj.members
    BY <2>1, RelabelledFields
  <2>3. Store(o)
    BY <1>3
  <2> HIDE DEF o
  <2> QED
    BY <1>3, <2>2, <2>3, FreshWrite
<1>4. TakeItem \/ Decide \/ HandleClusterCreate \/ HandleClusterUpdate
        \/ HandleClusterStatus \/ (\E f \in Features : SyncFeature(f))
        => UNCHANGED <<api, created>>
  BY DEF TakeItem, Decide, HandleClusterCreate, HandleClusterUpdate,
         HandleClusterStatus, SyncFeature, WorkerFrame
<1>5. Persist \/ HandleClusterLabels \/ FinalUpdate
        => \/ UNCHANGED <<api, created>>
           \/ fresh /\ created' = created /\ Store(obj)
           \/ /\ fresh /\ created' = created
              /\ Store([obj EXCEPT !.labels = DesiredLabels(obj)])
  BY DEF Persist, HandleClusterLabels, FinalUpdate, WorkerFrame
<1> QED
  BY <1>1, <1>2, <1>3, <1>4, <1>5 DEF Worker

\* Every write of the user is one of the user's.
LEMMA UserWrites ==
  ASSUME IInv, User
  PROVE  UserWrite
<1>1. api \in Objects /\ api.spec \in Nat
  BY ObjectFields, BoundsAssumption DEF BoundsAssumption, Specs, IInv, Copies, Sound
<1>2. CASE CreateCluster
  <2>1. PICK g \in SUBSET Features, l \in BOOLEAN, a \in BOOLEAN :
          api' = NewObject(created + 1, g, l, a)
    BY <1>2, StoreTravels DEF CreateCluster, StoreByOther
  <2>2. created + 1 \in Uids
    BY <1>2, BoundsAssumption DEF BoundsAssumption, IInv, Shape, CreateCluster, Uids
  <2>3. /\ api'.uid = created + 1 /\ api'.spec = 0
        /\ api'.phase = "" /\ api'.conds = << >>
    BY <2>1 DEF NewObject
  <2> QED
    BY <1>2, <2>3 DEF CreateCluster, UserWrite
<1>3. CASE EditSpec
  <2> DEFINE o == [api EXCEPT !.spec = @ + 1]
  <2>1. /\ o.uid = api.uid /\ o.spec \in {api.spec, api.spec + 1} /\ o.conds = api.conds
        /\ o.phase = api.phase
    BY <1>1 DEF Objects
  <2>2. Store(o)
    BY <1>3 DEF EditSpec, StoreByOther
  <2> HIDE DEF o
  <2>3. api' = o
    BY <2>2, StoreTravels
  <2> QED
    BY <1>3, <2>1, <2>3 DEF EditSpec, UserWrite
<1>4. ASSUME NEW f \in Features, ToggleGate(f) PROVE UserWrite
  <2> DEFINE o == [api EXCEPT !.gates = IF f \in @ THEN @ \ {f} ELSE @ \cup {f}]
  <2>1. /\ o.uid = api.uid /\ o.spec \in {api.spec, api.spec + 1} /\ o.conds = api.conds
        /\ o.phase = api.phase
    BY <1>1 DEF Objects
  <2>2. Store(o)
    BY <1>4 DEF ToggleGate, StoreByOther
  <2> HIDE DEF o
  <2>3. api' = o
    BY <2>2, StoreTravels
  <2> QED
    BY <1>4, <2>1, <2>3 DEF ToggleGate, UserWrite
<1>5. CASE DeleteCluster
  BY <1>5, StoreTravels, NoObjectType DEF DeleteCluster, May, StoreByOther, UserWrite
<1> QED
  BY <1>2, <1>3, <1>4, <1>5 DEF User

\* Nobody else writes to the API server.
LEMMA OtherWrites ==
  ASSUME Next, ~ User, ~ Worker
  PROVE  UNCHANGED <<api, created>>
BY DEF Next, Queue, Requeue, Deliver, Resync, World, ScaleMembers, ResizeImported,
       CollectChild, Sicken, Heal, CollectResource, CalmDown, Failover, userVars

\* Every step grows what is recorded.
LEMMA NextGrows ==
  ASSUME IInv, FreshInv, TravelKnown, Next
  PROVE  Grows
<1>1. created \in Nat /\ api.uid \in Nat /\ api.uid <= created /\ api.spec \in Nat
  BY BoundsAssumption, ObjectFields
  DEF BoundsAssumption, Uids, Specs, IInv, Shape, Copies, Sound, TravelKnown, Known
<1>2. CASE ControllerWrite
  BY <1>1, <1>2 DEF ControllerWrite, Grows
<1>3. CASE UserWrite
  <2>1. api'.conds = api.conds => (CreationRecorded(api) => CreationRecorded(api'))
    BY DEF CreationRecorded
  <2>2. CASE api'.uid = created' /\ created' = created + 1
    BY <1>1, <2>2 DEF Grows
  <2>3. CASE api'.uid = 0 /\ created' = created
    BY <1>1, <2>3 DEF Grows
  <2>4. CASE api'.uid = api.uid /\ created' = created /\ api'.conds = api.conds
    BY <1>1, <2>1, <2>4 DEF Grows
  <2> QED
    BY <1>3, <2>2, <2>3, <2>4, Zenon DEF UserWrite
<1>4. CASE UNCHANGED <<api, created>>
  BY <1>1, <1>4 DEF Grows
<1> QED
  BY <1>2, <1>3, <1>4, WorkerWrites, UserWrites, OtherWrites

-----------------------------------------------------------------------------
(* What is kept of the worker's copy *)

\* The worker has returned, or another has taken the lease over.
LEMMA WorkerGone ==
  ASSUME IInv', pc' = "idle", obj' = NoObject, ~ fresh'
  PROVE  FreshInv' /\ WorkerKnown'
<1>1. obj'.uid = 0 /\ obj'.phase = "" /\ obj' \in Sound
  BY NoObjectType DEF IInv, Copies
<1>2. created' \in Nat
  BY BoundsAssumption DEF BoundsAssumption, Uids, IInv, Shape
<1>3. obj'.uid <= created'
  <2>1. \A n \in Nat : 0 <= n
    OBVIOUS
  <2> QED
    BY <1>1, <1>2, <2>1, Zenon
<1>4. obj' \in Known'
  BY <1>1, <1>3, Zenon DEF Known
<1>5. FreshInv'
  BY DEF FreshInv
<1> QED
  BY <1>3, <1>4, <1>5 DEF WorkerKnown

\* A worker that returns holds no copy, and leaves the copies known as they were.
LEMMA ReturnGone ==
  ASSUME IInv', NEW err, Return(err)
  PROVE  FreshInv' /\ WorkerKnown'
BY WorkerGone DEF Return

\* Somebody else takes a step: the worker's copy stays, and is out of date after
\* a write.
LEMMA WorkerStays ==
  ASSUME IInv, IInv', FreshInv, WorkerKnown, Grows, UNCHANGED <<pc, obj>>,
         ~ fresh' \/ UNCHANGED <<api, fresh>>
  PROVE  FreshInv' /\ WorkerKnown'
<1>1. FreshInv'
  BY DEF FreshInv, CreationRecorded, Strong
<1>2. obj.uid \in Nat /\ created \in Nat /\ created' \in Nat
  BY BoundsAssumption, ObjectFields
  DEF BoundsAssumption, Uids, IInv, Shape, Copies, Sound
<1>3. Known \subseteq Known'
  BY KnownGrows
<1>4. obj.uid <= created'
  BY <1>2 DEF WorkerKnown, Grows
<1>5. WorkerKnown'
  BY <1>3, <1>4 DEF WorkerKnown
<1> QED
  BY <1>1, <1>5

\* The cached object the worker takes is known; without pending events it is the
\* API server's.
LEMMA TakeItemKnown ==
  ASSUME IInv, IInv', LatestInv, FreshInv, WorkerKnown, TravelKnown, Grows, TakeItem
  PROVE  FreshInv' /\ WorkerKnown'
<1>1. Known \subseteq Known' /\ leader \in Replicas
  BY KnownGrows DEF IInv, Shape
<1>2. CASE cache[leader].uid = 0
  BY <1>2, WorkerStays DEF TakeItem
<1>3. CASE cache[leader].uid # 0
  <2>1. /\ pc' = "decide" /\ obj' = cache[leader] /\ fresh' = (watch[leader] = << >>)
        /\ api' = api /\ created' = created
    BY <1>3 DEF TakeItem, WorkerFrame
  <2>2. obj' \in Known /\ obj' \in Known'
    BY <1>1, <2>1 DEF TravelKnown
  <2>3. fresh' => obj' = api'
    BY <1>1, <2>1 DEF LatestInv
  <2>4. FreshInv'
    BY <2>1, <2>3 DEF FreshInv, CreationRecorded
  <2>5. WorkerKnown'
    BY <1>3, <2>1, <2>2 DEF WorkerKnown, Known
  <2> QED
    BY <2>4, <2>5
<1> QED
  BY <1>2, <1>3

\* getDesiredAction only moves on.
LEMMA DecideKnown ==
  ASSUME IInv, IInv', FreshInv, WorkerKnown, Grows, Decide
  PROVE  FreshInv' /\ WorkerKnown'
<1>1. CASE Return(TRUE)
  BY <1>1, ReturnGone
<1>2. CASE UNCHANGED <<obj, fresh>> /\ pc' \in {"create", "update", "status"}
  <2>1. api' = api /\ created' = created /\ pc = "decide"
    BY DEF Decide, WorkerFrame
  <2>2. FreshInv'
    BY <1>2, <2>1 DEF FreshInv, CreationRecorded, Strong
  <2>3. Known \subseteq Known'
    BY KnownGrows
  <2>4. WorkerKnown'
    BY <1>2, <2>1, <2>3 DEF WorkerKnown
  <2> QED
    BY <2>2, <2>4
<1> QED
  BY <1>1, <1>2 DEF Decide

\* A handler that changes only its copy: history and phase, and Running only of
\* a cluster in full strength, with the history it had.
LEMMA HandlerKnown ==
  ASSUME IInv, IInv', FreshInv, WorkerKnown, Grows,
         pc \in {"create", "update", "status"}, pc' = "persist",
         UNCHANGED <<api, created, fresh>>,
         obj'.uid = obj.uid, obj'.spec = obj.spec, obj'.gates = obj.gates,
         CreationRecorded(obj) => CreationRecorded(obj'),
         obj'.phase = "Running" => obj'.conds = obj.conds /\ (obj' = obj \/ Strong(obj'))
  PROVE  FreshInv' /\ WorkerKnown'
<1>1. FreshInv'
  BY DEF FreshInv, CreationRecorded, Strong
<1>2. obj \in Known /\ Known \subseteq Known' /\ obj' \in Sound
  BY KnownGrows DEF WorkerKnown, IInv, Copies
<1>3. obj'.phase = "Running" => obj' \in Known
  BY <1>2, KnownSame
<1>4. WorkerKnown'
  BY <1>2, <1>3 DEF WorkerKnown
<1> QED
  BY <1>1, <1>4

-----------------------------------------------------------------------------
(* The handlers *)

\* Nor are history and phase user fields.
LEMMA AttemptFields ==
  ASSUME NEW o \in Objects, NEW h, NEW p
  PROVE  LET a == [o EXCEPT !.conds = h, !.phase = p]
         IN  /\ a.uid = o.uid /\ a.spec = o.spec /\ a.gates = o.gates
             /\ a.conds = h /\ a.phase = p /\ a.fgs = o.fgs
BY DEF Objects

\* A history that is replaced leaves the other fields of the object alone.
LEMMA CondsFields ==
  ASSUME NEW o \in Objects, NEW h
  PROVE  LET a == [o EXCEPT !.conds = h]
         IN  /\ a.uid = o.uid /\ a.spec = o.spec /\ a.gates = o.gates
             /\ a.conds = h /\ a.phase = o.phase /\ a.fgs = o.fgs
BY DEF Objects

\* What handleClusterCreate leaves in memory differs in history, phase and
\* annotations.
LEMMA CreatedFields ==
  ASSUME IInv, HandleClusterCreate
  PROVE  /\ obj'.uid = obj.uid /\ obj'.spec = obj.spec /\ obj'.gates = obj.gates
         /\ obj'.phase = "Creating" /\ obj'.fgs = obj.fgs
<1>1. obj \in Sound /\ obj \in Objects /\ MustCreate(obj.conds)
  BY DEF IInv, Copies, HandlerReady, HandleClusterCreate, Sound
<1> DEFINE a == Attempt("Create", "Creating")
           b == AfterCreate(a)
           c == [b EXCEPT !.conds = CompleteLast(@)]
<1>2. /\ a.uid = obj.uid /\ a.spec = obj.spec /\ a.gates = obj.gates
      /\ a.phase = "Creating" /\ a.fgs = obj.fgs
  BY <1>1 DEF Attempt, Objects
<1>3. a \in Objects
  BY <1>1, AttemptedCreate DEF Attempt, Sound
<1>4. obj' = a \/ obj' = c
  BY DEF HandleClusterCreate
<1> HIDE DEF a
<1>5. /\ b \in Objects /\ b.uid = a.uid /\ b.spec = a.spec /\ b.gates = a.gates
      /\ b.phase = a.phase /\ b.fgs = a.fgs
  BY <1>3, AfterCreateType
<1> HIDE DEF b
<1>6. /\ c.uid = b.uid /\ c.spec = b.spec /\ c.gates = b.gates
      /\ c.phase = b.phase /\ c.fgs = b.fgs
  BY <1>5 DEF Objects
<1> HIDE DEF c
<1> QED
  BY <1>2, <1>4, <1>5, <1>6, Zenon

\* What handleClusterUpdate leaves in memory differs in history and phase, and
\* still records the creation.
LEMMA UpdatedFields ==
  ASSUME IInv, IInv', HandleClusterUpdate
  PROVE  /\ obj'.uid = obj.uid /\ obj'.spec = obj.spec /\ obj'.gates = obj.gates
         /\ obj'.phase = "Updating" /\ obj'.fgs = obj.fgs
         /\ CreationRecorded(obj')
<1>1. obj \in Sound /\ obj \in Objects /\ ~ MustCreate(obj.conds)
  BY DEF IInv, Copies, HandlerReady, HandleClusterUpdate, Sound
<1> DEFINE open == << Completed("Create"), Pending("Update") >>
           done == << Completed("Create"), Completed("Update") >>
           a == Attempt("Update", "Updating")
           c == [a EXCEPT !.conds = CompleteLast(@)]
<1>2. GenerateConditions(obj.conds, "Update") = open /\ CompleteLast(open) = done
  BY <1>1, UpdateHistory DEF Sound
<1>3. open # << >> /\ open[1] = Completed("Create") /\ done # << >> /\ done[1] = Completed("Create")
  OBVIOUS
<1> HIDE DEF open, done
<1>4. /\ a.uid = obj.uid /\ a.spec = obj.spec /\ a.gates = obj.gates
      /\ a.phase = "Updating" /\ a.fgs = obj.fgs /\ a.conds = open
  BY <1>1, <1>2 DEF Attempt, Objects
<1>5. a \in Objects
  BY <1>1, AttemptedUpdate DEF Attempt, Sound
<1>6. obj' = a \/ obj' = c
  BY DEF HandleClusterUpdate
<1> HIDE DEF a
<1>7. /\ c.uid = a.uid /\ c.spec = a.spec /\ c.gates = a.gates
      /\ c.phase = a.phase /\ c.fgs = a.fgs /\ c.conds = done
  BY <1>2, <1>4, <1>5 DEF Objects
<1> HIDE DEF c
<1>8. CreationRecorded(a) /\ CreationRecorded(c)
  BY <1>3, <1>4, <1>7, Zenon DEF CreationRecorded
<1> QED
  BY <1>4, <1>6, <1>7, <1>8, Zenon

\* The user's fields, the history and the features' statuses of o and p agree.
SameUserFields(o, p) ==
  /\ p.uid = o.uid /\ p.spec = o.spec /\ p.gates = o.gates
  /\ p.conds = o.conds /\ p.fgs = o.fgs

\* A status call that fails does not say Running.
LEMMA StatusOnErrorFields ==
  ASSUME NEW o \in Objects
  PROVE  SameUserFields(o, StatusOnError(o)) /\ StatusOnError(o).phase # "Running"
<1> DEFINE w == WithService(o)
<1>1. w \in Objects /\ SameUserFields(o, w) /\ w.phase = o.phase
  BY WithServiceType DEF SameUserFields
<1> HIDE DEF w
<1>2. "Creating" \in Phases /\ "Unknown" \in Phases
  BY DEF Phases
<1>3. ASSUME NEW p \in {"Creating", "Unknown"}
      PROVE  /\ SameUserFields(o, [o EXCEPT !.phase = p])
             /\ SameUserFields(o, [w EXCEPT !.phase = p])
             /\ [o EXCEPT !.phase = p].phase = p /\ [w EXCEPT !.phase = p].phase = p
             /\ p # "Running"
  BY <1>1, <1>2, PhaseSet DEF SameUserFields
<1>4. \/ StatusOnError(o) \in {[o EXCEPT !.phase = "Creating"], [o EXCEPT !.phase = "Unknown"],
                               [w EXCEPT !.phase = "Unknown"]}
      \/ StatusOnError(o) = w /\ o.phase # "Running"
  BY DEF StatusOnError, KstoneStatusIncomplete, ImportedStatusIncomplete, w
<1> QED
  BY <1>1, <1>3, <1>4

\* provider.Status says Running of a cluster in full strength only.
LEMMA StatusFields ==
  ASSUME NEW o \in Objects, NEW e \in Members
  PROVE  /\ SameUserFields(o, Status(o, e))
         /\ Status(o, e).phase = "Running" => Strong(Status(o, e))
<1>1. CASE Status(o, e) = StatusOnError(o)
  BY <1>1, StatusOnErrorFields
<1>2. CASE Status(o, e) = StatusComplete(o, e) /\ (Imported \/ e.n = SizeOf[o.spec])
  <2> DEFINE w == WithService(o)
             m == Observed(o, e)
             p == HealthPhase(m)
             s == [w EXCEPT !.members = m, !.phase = p]
  <2>1. w \in Objects /\ SameUserFields(o, w)
    BY WithServiceType DEF SameUserFields
  <2>2. m \in Members /\ m.n = e.n
    BY ObservedType DEF Observed
  <2>3. p \in Phases /\ (p = "Running" => m.sick = {})
    BY DEF HealthPhase, Phases
  <2>4. Status(o, e) = s
    BY <1>2 DEF StatusComplete
  <2> HIDE DEF w, m, p
  <2>5. SameUserFields(w, s) /\ s.members = m /\ s.phase = p
    BY <2>1, <2>2, <2>3 DEF Objects, SameUserFields
  <2> HIDE DEF s
  <2> QED
    BY <1>2, <2>1, <2>2, <2>3, <2>4, <2>5 DEF SameUserFields, Strong
<1> QED
  BY <1>1, <1>2 DEF Status, StatusOnError

\* handleClusterCreate: what it leaves in memory is known, and recorded by nobody yet.
LEMMA CreateKnown ==
  ASSUME IInv, IInv', FreshInv, WorkerKnown, Grows, HandleClusterCreate
  PROVE  FreshInv' /\ WorkerKnown'
<1>1. obj \in Sound /\ MustCreate(obj.conds)
  BY DEF IInv, Copies, HandlerReady, HandleClusterCreate
<1>2. ~ CreationRecorded(obj)
  BY <1>1, CreationInHistory
<1>3. /\ pc = "create" /\ pc' = "persist" /\ UNCHANGED <<api, created, fresh>>
  BY DEF HandleClusterCreate, WorkerFrame
<1>4. "Creating" # "Running"
  OBVIOUS
<1> QED
  BY <1>2, <1>3, <1>4, CreatedFields, HandlerKnown

\* handleClusterUpdate: what it leaves in memory is known.
LEMMA UpdateKnown ==
  ASSUME IInv, IInv', FreshInv, WorkerKnown, Grows, HandleClusterUpdate
  PROVE  FreshInv' /\ WorkerKnown'
<1>1. /\ pc = "update" /\ pc' = "persist" /\ UNCHANGED <<api, created, fresh>>
  BY DEF HandleClusterUpdate, WorkerFrame
<1>2. "Updating" # "Running"
  OBVIOUS
<1> QED
  BY <1>1, <1>2, UpdatedFields, HandlerKnown

\* handleClusterStatus: what it leaves in memory is known.
LEMMA StatusKnown ==
  ASSUME IInv, IInv', FreshInv, WorkerKnown, Grows, HandleClusterStatus
  PROVE  FreshInv' /\ WorkerKnown'
<1>1. /\ pc = "status" /\ pc' = "persist" /\ UNCHANGED <<api, created, fresh>>
  BY DEF HandleClusterStatus, WorkerFrame
<1>2. obj \in Objects /\ etcd \in Members
  BY DEF IInv, Copies, Shape, Sound
<1>3. /\ SameUserFields(obj, obj')
      /\ obj'.phase = "Running" => obj' = obj \/ Strong(obj')
  BY <1>2, StatusFields, StatusOnErrorFields DEF HandleClusterStatus, SameUserFields
<1>4. /\ obj'.uid = obj.uid /\ obj'.spec = obj.spec /\ obj'.gates = obj.gates
      /\ obj'.conds = obj.conds
      /\ CreationRecorded(obj) => CreationRecorded(obj')
  BY <1>3 DEF SameUserFields, CreationRecorded
<1> QED
  BY <1>1, <1>3, <1>4, HandlerKnown

\* The write of the status leaves the copy current only when it changed nothing.
LEMMA PersistKnown ==
  ASSUME IInv, IInv', FreshInv, WorkerKnown, Grows, Persist
  PROVE  FreshInv' /\ WorkerKnown'
<1>1. CASE Return(failed)
  BY <1>1, ReturnGone
<1>2. CASE /\ obj.phase = "Running" /\ pc' = "labels"
           /\ fresh' = (fresh /\ api' = api) /\ obj' = obj
  <2>1. pc = "persist" /\ created' = created
    BY DEF Persist, WorkerFrame
  <2>2. FreshInv'
    BY <1>2, <2>1 DEF FreshInv, CreationRecorded, Strong
  <2>3. Known \subseteq Known'
    BY KnownGrows
  <2>4. WorkerKnown'
    BY <1>2, <2>1, <2>3 DEF WorkerKnown
  <2> QED
    BY <2>2, <2>4
<1> QED
  BY <1>1, <1>2 DEF Persist

\* handleClusterLabels goes on with a labelled copy, which it stored or did not.
LEMMA LabelsKnown ==
  ASSUME IInv, IInv', FreshInv, WorkerKnown, Grows, HandleClusterLabels
  PROVE  FreshInv' /\ WorkerKnown'
<1> DEFINE o == [obj EXCEPT !.labels = DesiredLabels(obj)]
<1>1. obj \in Objects /\ pc = "labels" /\ created' = created
  BY DEF IInv, Copies, Sound, HandleClusterLabels, WorkerFrame
<1>2. /\ o.uid = obj.uid /\ o.spec = obj.spec /\ o.gates = obj.gates
      /\ o.conds = obj.conds /\ o.phase = obj.phase /\ o.members = obj.members
  BY <1>1, RelabelledFields
<1>3. \/ \E err \in BOOLEAN : Return(err)
      \/ /\ pc' = "feature" /\ obj' = o /\ UNCHANGED fresh
         /\ api' = api \/ Store(o)
  BY DEF HandleClusterLabels, EnterFeatures
<1>4. CASE \E err \in BOOLEAN : Return(err)
  BY <1>4, ReturnGone
<1> HIDE DEF o
<1>5. CASE /\ pc' = "feature" /\ obj' = o /\ UNCHANGED fresh
           /\ api' = api \/ Store(o)
  <2>1. api' = api \/ api' = o
    BY <1>5, StoreTravels
  <2>2. FreshInv'
    BY <1>2, <1>5, <2>1 DEF FreshInv, CreationRecorded, Strong
  <2>3. obj \in Known /\ Known \subseteq Known' /\ obj' \in Sound
    BY <1>1, KnownGrows DEF WorkerKnown, IInv, Copies
  <2>4. obj' \in Known'
    BY <1>2, <1>5, <2>3, KnownSame
  <2>5. WorkerKnown'
    BY <1>1, <1>2, <1>5, <2>4 DEF WorkerKnown
  <2> QED
    BY <2>2, <2>5
<1> QED
  BY <1>3, <1>4, <1>5

\* A round of handleClusterFeature changes one feature's status in its copy.
LEMMA SyncFeatureFields ==
  ASSUME IInv, NEW f \in Features, SyncFeature(f)
  PROVE  /\ obj'.uid = obj.uid /\ obj'.spec = obj.spec /\ obj'.gates = obj.gates
         /\ obj'.conds = obj.conds /\ obj'.phase = obj.phase
         /\ obj'.members = obj.members
BY DEF SyncFeature, IInv, Copies, Sound, Objects

\* Feature Sync changes a status in memory, and nothing that is recorded.
LEMMA SyncFeatureKnown ==
  ASSUME IInv, IInv', FreshInv, WorkerKnown, Grows, NEW f \in Features, SyncFeature(f)
  PROVE  FreshInv' /\ WorkerKnown'
<1>1. UNCHANGED <<api, created, pc, fresh>> /\ pc = "feature"
  BY DEF SyncFeature, WorkerFrame
<1>2. FreshInv'
  BY <1>1, SyncFeatureFields DEF FreshInv, CreationRecorded, Strong
<1>3. obj \in Known /\ Known \subseteq Known' /\ obj' \in Sound
  BY <1>1, KnownGrows DEF WorkerKnown, IInv, Copies
<1>4. obj' \in Known'
  BY <1>3, SyncFeatureFields, KnownSame
<1>5. WorkerKnown'
  BY <1>1, <1>4, SyncFeatureFields DEF WorkerKnown
<1> QED
  BY <1>2, <1>5

\* It makes resources of the copy's cluster only, whose creation is recorded: the
\* copy is Running.
LEMMA SyncFeatureRes ==
  ASSUME IInv, WorkerKnown, FeaturesKnown, NEW f \in Features, SyncFeature(f)
  PROVE  FeaturesKnown'
<1>1. /\ obj \in Known /\ CreationRecorded(obj)
  BY CreationInHistory DEF SyncFeature, WorkerKnown, IInv, Copies
<1>2. obj.uid # 0 /\ obj.uid = api.uid => CreationRecorded(api)
  BY <1>1 DEF Known
<1>3. obj.uid <= created /\ 0 <= created
  BY BoundsAssumption DEF BoundsAssumption, Uids, IInv, Shape, WorkerKnown
<1>4. UNCHANGED <<api, created>>
  BY DEF SyncFeature, WorkerFrame
<1>5. \A g \in Features : res'[g] \in {res[g], 0, obj.uid}
  BY DEF SyncFeature, SyncedResource, IInv, Shape
<1> SUFFICES ASSUME NEW g \in Features
             PROVE  /\ res'[g] <= created
                    /\ res'[g] # 0 /\ res'[g] = api.uid => CreationRecorded(api)
  BY <1>4 DEF FeaturesKnown, CreationRecorded
<1>6. /\ res[g] <= created
      /\ res[g] # 0 /\ res[g] = api.uid => CreationRecorded(api)
  BY DEF FeaturesKnown
<1> QED
  BY <1>2, <1>3, <1>5, <1>6, Zenon

\* The Update after the features ends the reconcile.
LEMMA FinalUpdateKnown ==
  ASSUME IInv', FinalUpdate
  PROVE  FreshInv' /\ WorkerKnown'
BY ReturnGone DEF FinalUpdate

-----------------------------------------------------------------------------
(* The invariant *)

\* Every step keeps what the worker's copy is worth.
LEMMA NextWorkerKnown ==
  ASSUME IInv, IInv', KInv, Grows, Next
  PROVE  FreshInv' /\ WorkerKnown'
<1> USE DEF KInv
<1>1. CASE Worker
  BY <1>1, TakeItemKnown, DecideKnown, CreateKnown, UpdateKnown, StatusKnown,
     PersistKnown, LabelsKnown, SyncFeatureKnown, FinalUpdateKnown DEF Worker
<1>2. CASE User
  <2>1. UNCHANGED <<pc, obj>> /\ ~ fresh'
    BY <1>2 DEF User, CreateCluster, EditSpec, ToggleGate, DeleteCluster, StoreByOther
  <2> QED
    BY <2>1, WorkerStays
<1>3. ASSUME NEW r \in Replicas, Failover(r)
      PROVE  FreshInv' /\ WorkerKnown'
  BY <1>3, WorkerGone DEF Failover
<1>4. CASE Queue \/ World \/ CalmDown
  <2>1. UNCHANGED <<pc, obj, api, fresh>>
    BY <1>4 DEF Queue, Requeue, Deliver, Resync, World, ScaleMembers, ResizeImported,
                CollectChild, Sicken, Heal, CollectResource, CalmDown, userVars, workerVars
  <2> QED
    BY <2>1, WorkerStays
<1> QED
  BY <1>1, <1>2, <1>3, <1>4 DEF Next

\* And what is known of the features' resources.
LEMMA NextFeaturesKnown ==
  ASSUME IInv, IInv', KInv, Grows, Next
  PROVE  FeaturesKnown'
<1> USE DEF KInv
<1>1. CASE UNCHANGED res
  BY <1>1, FeaturesGrow
<1>2. ASSUME NEW f \in Features, SyncFeature(f) PROVE FeaturesKnown'
  BY <1>2, SyncFeatureRes
<1>3. ASSUME NEW f \in Features, CollectResource(f) PROVE FeaturesKnown'
  <2>1. UNCHANGED <<api, created>> /\ res' = [res EXCEPT ![f] = 0]
    BY <1>3 DEF CollectResource, userVars
  <2>2. res \in [Features -> Uids] /\ created \in Nat
    BY BoundsAssumption DEF BoundsAssumption, Uids, IInv, Shape
  <2>3. \A n \in Nat : 0 <= n
    OBVIOUS
  <2> SUFFICES ASSUME NEW g \in Features
               PROVE  /\ res'[g] <= created
                      /\ res'[g] # 0 /\ res'[g] = api.uid => CreationRecorded(api)
    BY <2>1 DEF FeaturesKnown, CreationRecorded
  <2>4. res'[g] = 0 \/ res'[g] = res[g]
    BY <2>1, <2>2
  <2> QED
    BY <2>2, <2>3, <2>4, Zenon DEF FeaturesKnown
<1>4. CASE Worker /\ ~ \E f \in Features : SyncFeature(f)
  BY <1>1, <1>4
  DEF Worker, TakeItem, Decide, HandleClusterCreate, HandleClusterUpdate,
      HandleClusterStatus, Persist, HandleClusterLabels, FinalUpdate
<1>5. CASE User \/ Queue \/ CalmDown \/ \E r \in Replicas : Failover(r)
  BY <1>1, <1>5
  DEF User, CreateCluster, EditSpec, ToggleGate, DeleteCluster, Queue, Requeue, Deliver,
      Resync, CalmDown, Failover, worldVars
<1>6. CASE ScaleMembers \/ ResizeImported \/ CollectChild
             \/ \E m \in 0 .. MaxSize - 1 : Sicken(m) \/ Heal(m)
  BY <1>1, <1>6 DEF ScaleMembers, ResizeImported, CollectChild, Sicken, Heal
<1> QED
  BY <1>2, <1>3, <1>4, <1>5, <1>6 DEF Next, World

\* Together with the sound histories the invariant is inductive.
LEMMA KnownNext == IInv /\ KInv /\ [Next]_vars => KInv'
<1> SUFFICES ASSUME IInv, KInv, [Next]_vars PROVE KInv'
  OBVIOUS
<1>1. IInv'
  BY NextInvariant
<1>2. CASE Next
  <2>1. Grows /\ Travel
    BY <1>2, NextGrows, NextTravels DEF KInv
  <2>2. api' \in Known'
    BY <1>1, <2>1 DEF Grows, Known, IInv, Copies
  <2>3. LatestInv' /\ TravelKnown'
    BY <1>1, <2>1, <2>2, LatestStep, TravelKnownStep DEF KInv
  <2> QED
    BY <1>1, <1>2, <2>1, <2>3, NextWorkerKnown, NextFeaturesKnown DEF KInv
<1>3. CASE UNCHANGED vars
  BY <1>3 DEF vars, KInv, LatestInv, FreshInv, WorkerKnown, TravelKnown, FeaturesKnown,
              Known, CreationRecorded, Strong
<1> QED
  BY <1>2, <1>3

\* It holds while there is no cluster.
LEMMA KnownInit == Init => KInv
<1> SUFFICES ASSUME Init PROVE KInv
  OBVIOUS
<1>0. 0 <= 0
  OBVIOUS
<1>1. NoObject \in Sound /\ NoObject.uid = 0 /\ NoObject.phase = "" /\ 0 <= 0
  BY <1>0, NoObjectSound, NoObjectType, Zenon
<1>2. NoObject \in Known
  BY <1>1, Zenon DEF Init, Known
<1>3. << >> \in Seq(Known)
  OBVIOUS
<1>4. TravelKnown
  BY <1>2, <1>3 DEF Init, TravelKnown
<1>5. WorkerKnown
  BY <1>1, <1>2, Zenon DEF Init, WorkerKnown
<1>6. FeaturesKnown
  BY <1>1 DEF Init, FeaturesKnown
<1>7. LatestInv /\ FreshInv
  BY DEF Init, LatestInv, FreshInv
<1> QED
  BY <1>4, <1>5, <1>6, <1>7 DEF KInv

\* Whatever crashes, conflicts and lags: what a copy is worth.
THEOREM CopiesKnown == Spec => [](IInv /\ KInv)
<1>1. Init => IInv /\ KInv
  BY InitInvariant, KnownInit
<1>2. IInv /\ KInv /\ [Next]_vars => IInv' /\ KInv'
  BY NextInvariant, KnownNext
<1> QED
  BY <1>1, <1>2, PTL DEF Spec

\* No write of the controller from an old copy takes an edit back, revives a
\* deleted cluster or lands on its successor.
THEOREM EditsSurvive == Spec => UserEditsSurvive
<1>1. IInv /\ KInv /\ [Next]_vars
        => [/\ pc' # pc => api'.gates = api.gates /\ api'.uid = api.uid
            /\ api'.uid = api.uid => api'.spec >= api.spec]_vars
  <2> SUFFICES ASSUME IInv, KInv, Next
               PROVE  /\ pc' # pc => api'.gates = api.gates /\ api'.uid = api.uid
                      /\ api'.uid = api.uid => api'.spec >= api.spec
    OBVIOUS
  <2>1. api.spec \in Nat /\ api.uid \in Nat /\ created \in Nat /\ api.uid <= created
    BY ObjectFields, BoundsAssumption
    DEF BoundsAssumption, Uids, Specs, IInv, Shape, Copies, Sound, KInv, TravelKnown, Known
  <2>2. CASE ControllerWrite
    BY <2>1, <2>2 DEF ControllerWrite
  <2>3. CASE UNCHANGED <<api, created>>
    BY <2>1, <2>3
  <2>4. CASE User
    <3>1. UNCHANGED pc /\ UserWrite
      BY <2>4, UserWrites DEF User, CreateCluster, EditSpec, ToggleGate, DeleteCluster
    <3>2. created + 1 # 0 /\ api.spec >= api.spec /\ api.spec + 1 >= api.spec
      BY <2>1
    <3> QED
      BY <2>4, <3>1, <3>2, Zenon DEF UserWrite
  <2> QED
    BY <2>2, <2>3, <2>4, WorkerWrites, OtherWrites DEF KInv
<1> QED
  BY <1>1, CopiesKnown, PTL DEF Spec, UserEditsSurvive

\* The API server comes to say Running only of a cluster listed with every member
\* of its current specification, all healthy.
THEOREM RunningTruthful == Spec => RunningIsFullStrength
<1>1. IInv /\ KInv /\ [Next]_vars
        => [(api'.phase = "Running" /\ api.phase # "Running") =>
              /\ api'.members.sick = {}
              /\ Imported \/ api'.members.n = SizeOf[api'.spec]]_vars
  <2> SUFFICES ASSUME IInv, KInv, Next, api'.phase = "Running", api.phase # "Running"
               PROVE  Strong(api')
    BY DEF Strong
  <2>1. CASE ControllerWrite
    BY <2>1 DEF ControllerWrite
  <2>2. CASE UserWrite
    BY <2>2 DEF UserWrite
  <2> QED
    BY <2>1, <2>2, WorkerWrites, UserWrites, OtherWrites DEF KInv
<1> QED
  BY <1>1, CopiesKnown, PTL DEF Spec, RunningIsFullStrength

\* No feature's resource belongs to a cluster whose creation is not recorded.
THEOREM FeaturesFollowCreation == Spec => []FeaturesAfterCreation
<1>1. KInv => FeaturesAfterCreation
  BY DEF KInv, FeaturesKnown, FeaturesAfterCreation
<1> QED
  BY <1>1, CopiesKnown, PTL

-----------------------------------------------------------------------------
(* The fields of an edit *)

\* The theorems about generateEtcdSpec, at the values the properties take for its fields.
Proved ==
  INSTANCE KstoneSpec_proofs WITH
    Sizes <- {1, 3}, Numbers <- {"3.4", "3.5"}, DiskSizes <- {10, 20},
    Lists <- { [n \in {} |-> "0"], [n \in {"cpu"} |-> "1"],
               [n \in {"cpu", "memory"} |-> IF n = "cpu" THEN "0" ELSE "1"] },
    Envs <- { << >>, <<"debug">> }, Schemes <- {"https"}, Images <- {""},
    Secrets <- {""}, Rests <- {"labels"}

\* provider.Equal holds of what provider.Update wrote, and sees an edit exactly when the
\* view of the specification changes (providers/kstone/cluster.go:109-197).
THEOREM EditsNoticed == Spec => []EditsNoticedOnce
<1>1. Proved!Settles
  BY Proved!UpdatesSettle
<1>2. Proved!NoticesView
  BY Proved!EditsAreNoticed
<1>3. Fields!Settles
  BY <1>1
  DEF Proved!Kinds, Fields!Kinds, Proved!Names, Fields!Names, Proved!ClusterSpecs,
      Fields!ClusterSpecs, Proved!DesiredResource, Fields!DesiredResource,
      Proved!Generate, Fields!Generate, Proved!UpdateSpec, Fields!UpdateSpec,
      Proved!OldResource, Fields!OldResource, Proved!ResourceEqual,
      Fields!ResourceEqual, Proved!Equal, Fields!Equal, Proved!Settles, Fields!Settles,
      Proved!Amount, Fields!Amount, Proved!View, Fields!View, Proved!NoticesView,
      Fields!NoticesView
<1>4. Fields!NoticesView
  BY <1>2
  DEF Proved!Kinds, Fields!Kinds, Proved!Names, Fields!Names, Proved!ClusterSpecs,
      Fields!ClusterSpecs, Proved!DesiredResource, Fields!DesiredResource,
      Proved!Generate, Fields!Generate, Proved!UpdateSpec, Fields!UpdateSpec,
      Proved!OldResource, Fields!OldResource, Proved!ResourceEqual,
      Fields!ResourceEqual, Proved!Equal, Fields!Equal, Proved!Settles, Fields!Settles,
      Proved!Amount, Fields!Amount, Proved!View, Fields!View, Proved!NoticesView,
      Fields!NoticesView
<1>5. EditsNoticedOnce
  BY <1>3, <1>4 DEF EditsNoticedOnce
<1> QED
  BY <1>5, PTL

-----------------------------------------------------------------------------
(* A cluster that is not deleted                                           *)
(*                                                                         *)
(* After a deletion the operator's resource and the features' resources    *)
(* are collected in the background, and may meet the next cluster of that  *)
(* name.  Without deletions there is one life, and what was made stays.    *)

\* One cluster at most, and everything there is belongs to it.
OneLife ==
  /\ created \in {0, 1} /\ api.uid = created
  /\ child.uid \in {0, api.uid}
  /\ \A f \in Features : res[f] \in {0, api.uid}

\* The resources whose recorded creation has left a resource of the operator.
Grounded == {o \in Sound : ~ Imported /\ CreationRecorded(o) => child.uid # 0}

\* A feature's recorded status agrees with its gate and its resource.
Truthful(o, f) ==
  /\ o.fgs[f] = "enabled"  => f \in o.gates /\ res[f] # 0
  /\ o.fgs[f] = "disabled" => f \notin o.gates /\ res[f] = 0

\* What a current copy says otherwise than the API server is true.
FgsInv == fresh => \A f \in Features : obj.fgs[f] # api.fgs[f] => Truthful(obj, f)

LifeInv == OneLife /\ Copies(Grounded) /\ FgsInv

\* Who changes the operator's resource.
LEMMA NextChild ==
  ASSUME Next
  PROVE  \/ UNCHANGED child
         \/ HandleClusterCreate /\ child' = CreatedChild
         \/ HandleClusterUpdate /\ child' = UpdatedChild
         \/ CollectChild
<1>1. CASE Worker
  BY <1>1
  DEF Worker, TakeItem, Decide, HandleClusterCreate, HandleClusterUpdate,
      HandleClusterStatus, Persist, HandleClusterLabels, SyncFeature, FinalUpdate
<1>2. CASE User \/ Queue \/ CalmDown \/ \E r \in Replicas : Failover(r)
  BY <1>2
  DEF User, CreateCluster, EditSpec, ToggleGate, DeleteCluster, Queue, Requeue, Deliver,
      Resync, CalmDown, Failover, worldVars
<1>3. CASE World
  BY <1>3 DEF World, ScaleMembers, ResizeImported, Sicken, Heal, CollectResource
<1> QED
  BY <1>1, <1>2, <1>3 DEF Next

\* Who changes the features' resources.
LEMMA NextRes ==
  ASSUME Next
  PROVE  \/ UNCHANGED res
         \/ \E f \in Features : SyncFeature(f) \/ CollectResource(f)
<1>1. CASE Worker
  BY <1>1
  DEF Worker, TakeItem, Decide, HandleClusterCreate, HandleClusterUpdate,
      HandleClusterStatus, Persist, HandleClusterLabels, FinalUpdate
<1>2. CASE User \/ Queue \/ CalmDown \/ \E r \in Replicas : Failover(r)
  BY <1>2
  DEF User, CreateCluster, EditSpec, ToggleGate, DeleteCluster, Queue, Requeue, Deliver,
      Resync, CalmDown, Failover, worldVars
<1>3. CASE World
  BY <1>3 DEF World, ScaleMembers, ResizeImported, CollectChild, Sicken, Heal
<1> QED
  BY <1>1, <1>2, <1>3 DEF Next

\* The worker's copy is of the one cluster.
LEMMA WorkerOfThisLife ==
  ASSUME IInv, WorkerKnown, OneLife
  PROVE  obj.uid \in {0, api.uid}
<1>1. obj.uid \in Nat
  BY BoundsAssumption, ObjectFields DEF BoundsAssumption, Uids, IInv, Copies, Sound
<1> QED
  BY <1>1 DEF WorkerKnown, OneLife

\* No second life begins, and nothing of another one is made.
LEMMA LifeStep ==
  ASSUME "delete" \notin Faults, IInv, KInv, OneLife, Next
  PROVE  OneLife'
<1>1. obj.uid \in {0, api.uid}
  BY WorkerOfThisLife DEF KInv
<1>2. child'.uid \in {0, api.uid}
  <2>1. child \in [uid : Uids, spec : Specs]
    BY DEF IInv, Shape
  <2> QED
    BY <1>1, <2>1, NextChild
    DEF OneLife, CreatedChild, UpdatedChild, CollectChild, NoChild
<1>3. \A g \in Features : res'[g] \in {0, api.uid}
  <2>1. res \in [Features -> Uids]
    BY DEF IInv, Shape
  <2>2. ASSUME NEW f \in Features, SyncFeature(f), NEW g \in Features
        PROVE  res'[g] \in {res[g], 0, obj.uid}
    BY <2>1, <2>2 DEF SyncFeature, SyncedResource
  <2>3. ASSUME NEW f \in Features, CollectResource(f), NEW g \in Features
        PROVE  res'[g] \in {res[g], 0}
    BY <2>1, <2>3 DEF CollectResource
  <2> QED
    BY <1>1, <2>2, <2>3, NextRes DEF OneLife
<1>4. CASE api'.uid = api.uid /\ created' = created
  BY <1>2, <1>3, <1>4 DEF OneLife
<1>5. CASE api'.uid = created' /\ created' = created + 1 /\ api.uid = 0
  <2>1. created' = 1 /\ api.uid = 0
    BY <1>5 DEF OneLife
  <2> QED
    BY <1>2, <1>3, <1>5, <2>1 DEF OneLife
<1> QED
  BY <1>4, <1>5, UserWrites, WorkerWrites, OtherWrites
  DEF KInv, UserWrite, ControllerWrite

\* The operator's resource stays.
LEMMA ChildStays ==
  ASSUME IInv, KInv, OneLife, Next, child.uid # 0
  PROVE  child'.uid # 0
<1>1. child \in [uid : Uids, spec : Specs]
  BY DEF IInv, Shape
<1> QED
  BY <1>1, NextChild DEF OneLife, CreatedChild, UpdatedChild, CollectChild

\* The conditions the worker's copy can come to have.
LEMMA NextConds ==
  ASSUME IInv, Next
  PROVE  \/ obj'.conds \in {<< >>, obj.conds}
         \/ obj' = cache[leader]
         \/ HandleClusterCreate \/ HandleClusterUpdate
<1>1. obj \in Objects /\ etcd \in Members /\ NoObject.conds = << >>
  BY NoObjectType DEF IInv, Copies, Shape, Sound
<1>2. CASE User \/ Queue \/ World \/ CalmDown
  BY <1>2
  DEF User, CreateCluster, EditSpec, ToggleGate, DeleteCluster, Queue, Requeue, Deliver,
      Resync, World, ScaleMembers, ResizeImported, CollectChild, Sicken, Heal,
      CollectResource, CalmDown, workerVars
<1>3. CASE obj' = NoObject
  BY <1>1, <1>3
<1>4. CASE HandleClusterStatus
  <2>1. obj' = obj \/ SameUserFields(obj, obj')
    BY <1>1, <1>4, StatusFields, StatusOnErrorFields DEF HandleClusterStatus
  <2> QED
    BY <2>1 DEF SameUserFields
<1>5. CASE HandleClusterLabels
  BY <1>1, <1>3, <1>5, RelabelledFields DEF HandleClusterLabels, EnterFeatures, Return
<1>6. ASSUME NEW f \in Features, SyncFeature(f)
      PROVE  obj'.conds = obj.conds
  BY <1>6, SyncFeatureFields
<1>7. TakeItem \/ Decide \/ Persist \/ FinalUpdate \/ (\E r \in Replicas : Failover(r))
        => obj' = NoObject \/ obj' = obj \/ obj' = cache[leader]
  BY DEF TakeItem, Decide, Persist, FinalUpdate, Failover, Return
<1> QED
  BY <1>2, <1>3, <1>4, <1>5, <1>6, <1>7 DEF Next, Worker

\* Every copy that records the creation keeps having a resource of the operator.
LEMMA GroundedStep ==
  ASSUME IInv, IInv', KInv, OneLife, Copies(Grounded), Next
  PROVE  Copies(Grounded)'
<1> DEFINE S == Grounded'
<1>1. ASSUME NEW o, CreationRecorded(o)' PROVE CreationRecorded(o)
  BY <1>1 DEF CreationRecorded
<1>2. Grounded \subseteq S
  BY ChildStays DEF Grounded, CreationRecorded
<1>3. ASSUME NEW o \in Sound, NEW p \in Grounded, o.conds = << >> \/ o.conds = p.conds
      PROVE  o \in Grounded
  BY <1>3 DEF Grounded, CreationRecorded
<1>4. /\ api \in Grounded /\ obj \in Grounded /\ cache \in [Replicas -> Grounded]
      /\ watch \in [Replicas -> Seq(Grounded)] /\ leader \in Replicas
      /\ api' \in Sound /\ obj' \in Sound
  BY DEF Copies, IInv, Shape
<1>5. api'.conds \in {<< >>, api.conds, obj.conds}
  BY WorkerWrites, UserWrites, OtherWrites DEF KInv, ControllerWrite, UserWrite
<1>6. api' \in S /\ api \in S
  BY <1>2, <1>3, <1>4, <1>5
<1>7. cache' \in [Replicas -> S] /\ watch' \in [Replicas -> Seq(S)]
  <2>1. \A s \in Seq(Grounded) : s \in Seq(S)
    BY <1>2, SeqMonotonic
  <2>2. cache \in [Replicas -> S] /\ watch \in [Replicas -> Seq(S)]
    BY <1>2, <1>4, <2>1
  <2> HIDE DEF S
  <2> QED
    BY <1>4, <1>6, <2>2, NextTravels, TravelKeeps
<1>8. obj' \in S
  <2>1. CASE HandleClusterCreate
    <3>1. obj.uid # 0
      BY <2>1 DEF HandleClusterCreate, KInv, WorkerKnown
    <3>2. CASE child' = CreatedChild
      <4>1. ~ Imported => child'.uid # 0
        BY <3>1, <3>2 DEF CreatedChild
      <4> QED
        BY <1>4, <4>1 DEF Grounded
    <3>3. CASE obj' = Attempt("Create", "Creating")
      <4>1. obj \in Sound /\ obj \in Objects /\ MustCreate(obj.conds)
        BY <2>1 DEF IInv, Copies, HandlerReady, HandleClusterCreate, Sound
      <4>2. GenerateConditions(obj.conds, "Create") = << Pending("Create") >>
        BY <4>1, CreateHistory DEF Sound
      <4>3. obj'.conds = << Pending("Create") >>
        BY <3>3, <4>1, <4>2, AttemptFields DEF Attempt
      <4>4. << Pending("Create") >>[1] # Completed("Create")
        BY DEF Pending, Completed
      <4>5. ~ CreationRecorded(obj')
        BY <4>3, <4>4, Zenon DEF CreationRecorded
      <4> QED
        BY <1>1, <1>4, <4>5 DEF Grounded
    <3> QED
      BY <2>1, <3>2, <3>3 DEF HandleClusterCreate
  <2>2. CASE HandleClusterUpdate
    <3>1. CreationRecorded(obj)
      BY <2>2, CreationInHistory DEF IInv, Copies, HandlerReady, HandleClusterUpdate
    <3>2. ~ Imported => child.uid # 0
      BY <1>4, <3>1 DEF Grounded
    <3>3. ~ Imported => child'.uid # 0
      BY <3>2, ChildStays
    <3> QED
      BY <1>4, <3>3 DEF Grounded
  <2>3. CASE obj'.conds \in {<< >>, obj.conds}
    BY <1>2, <1>3, <1>4, <2>3
  <2>4. CASE obj' = cache[leader]
    BY <1>2, <1>4, <2>4
  <2> QED
    BY <2>1, <2>2, <2>3, <2>4, NextConds
<1> QED
  BY <1>6, <1>7, <1>8 DEF Copies

\* Statuses and gates of the worker's copy stay, as do the resources.
LEMMA StatusesStay ==
  ASSUME FgsInv, UNCHANGED res,
         \/ ~ fresh'
         \/ /\ fresh /\ api' = api
            /\ obj'.fgs = obj.fgs /\ obj'.gates = obj.gates
         \/ obj'.fgs = api'.fgs
  PROVE  FgsInv'
BY DEF FgsInv, Truthful

\* What a round of handleClusterFeature records is so.
LEMMA SyncFeatureTruthful ==
  ASSUME IInv, KInv, FgsInv, NEW f \in Features, SyncFeature(f)
  PROVE  FgsInv'
<1>1. /\ obj \in Objects /\ res \in [Features -> Uids] /\ obj.fgs \in [Features -> GateStates]
      /\ obj.uid # 0
  BY ObjectFields DEF IInv, Shape, Copies, Sound, KInv, WorkerKnown, SyncFeature
<1>2. /\ api' = api /\ fresh' = fresh /\ obj'.gates = obj.gates
      /\ \A g \in Features : g # f => obj'.fgs[g] = obj.fgs[g] /\ res'[g] = res[g]
  BY <1>1 DEF SyncFeature, WorkerFrame, Objects
<1>3. \/ obj' = obj /\ res' = res
      \/ obj'.fgs[f] = "failed"
      \/ Truthful(obj, f)'
  <2>1. CASE FeatureEqual(f) /\ UNCHANGED <<obj, res>>
    BY <2>1
  <2>2. CASE /\ res' = [res EXCEPT ![f] = SyncedResource(f)]
             /\ obj' = [obj EXCEPT !.fgs[f] =
                          IF f \in obj.gates THEN "enabled" ELSE "disabled"]
    <3>1. /\ obj'.fgs[f] = IF f \in obj.gates THEN "enabled" ELSE "disabled"
          /\ res'[f] = SyncedResource(f)
      BY <1>1, <2>2 DEF Objects
    <3>2. SyncedResource(f) = 0 <=> f \notin obj.gates
      BY <1>1 DEF SyncedResource
    <3> QED
      BY <1>2, <3>1, <3>2 DEF Truthful
  <2>3. CASE obj' = [obj EXCEPT !.fgs[f] = "failed"]
    BY <1>1, <2>3 DEF Objects
  <2> QED
    BY <2>1, <2>2, <2>3 DEF SyncFeature
<1> SUFFICES ASSUME fresh', NEW g \in Features, obj'.fgs[g] # api'.fgs[g]
             PROVE  Truthful(obj, g)'
  BY DEF FgsInv
<1>4. CASE g # f
  BY <1>2, <1>4 DEF FgsInv, Truthful
<1>5. CASE g = f
  BY <1>2, <1>3, <1>5 DEF FgsInv, Truthful
<1> QED
  BY <1>4, <1>5

\* No other step of the worker makes a current copy say more.
LEMMA WorkerTruthful ==
  ASSUME IInv, KInv, FgsInv, Worker
  PROVE  FgsInv'
<1>1. obj \in Objects /\ etcd \in Members /\ leader \in Replicas
  BY DEF IInv, Copies, Shape, Sound
<1>2. ASSUME NEW err, Return(err), UNCHANGED res PROVE FgsInv'
  BY <1>2, StatusesStay DEF Return
<1>3. CASE TakeItem
  <2>1. fresh' => obj' = api' \/ (fresh /\ obj' = obj /\ api' = api)
    BY <1>1, <1>3 DEF TakeItem, KInv, LatestInv
  <2>2. res' = res
    BY <1>3 DEF TakeItem
  <2> QED
    BY <2>1, <2>2, StatusesStay
<1>4. CASE Decide
  <2>1. UNCHANGED <<api, res>> /\ (Return(TRUE) \/ UNCHANGED <<obj, fresh>>)
    BY <1>4 DEF Decide
  <2>2. CASE UNCHANGED <<obj, fresh>>
    BY <2>1, <2>2, StatusesStay
  <2>3. CASE Return(TRUE)
    BY <1>2, <2>1, <2>3
  <2> QED
    BY <2>1, <2>2, <2>3
<1>5. CASE HandleClusterCreate
  BY <1>5, CreatedFields, StatusesStay DEF HandleClusterCreate
<1>6. CASE HandleClusterStatus
  <2>1. SameUserFields(obj, obj') /\ UNCHANGED <<api, fresh, res>>
    BY <1>1, <1>6, StatusFields, StatusOnErrorFields DEF HandleClusterStatus, SameUserFields
  <2> QED
    BY <2>1, StatusesStay DEF SameUserFields
<1>7. CASE Persist
  <2>1. UNCHANGED res
    BY <1>7 DEF Persist
  <2>2. Return(failed) \/ (fresh' = (fresh /\ api' = api) /\ obj' = obj)
    BY <1>7 DEF Persist
  <2> QED
    BY <1>2, <2>1, <2>2, StatusesStay
<1>8. CASE HandleClusterLabels
  <2> DEFINE o == [obj EXCEPT !.labels = DesiredLabels(obj)]
  <2>1. o.fgs = obj.fgs /\ o.gates = obj.gates
    BY <1>1, RelabelledFields
  <2>2. /\ UNCHANGED res
        /\ \/ \E err \in BOOLEAN : Return(err)
           \/ obj' = o /\ UNCHANGED fresh /\ (api' = api \/ Store(o))
    BY <1>8 DEF HandleClusterLabels, EnterFeatures
  <2> HIDE DEF o
  <2>3. CASE obj' = o /\ UNCHANGED fresh /\ (api' = api \/ Store(o))
    <3>1. api' = api \/ api' = o
      BY <2>3, StoreTravels
    <3> QED
      BY <2>1, <2>2, <2>3, <3>1, StatusesStay
  <2> QED
    BY <1>2, <2>2, <2>3
<1>9. CASE FinalUpdate
  BY <1>2, <1>9 DEF FinalUpdate
<1>10. CASE HandleClusterUpdate
  <2>1. obj'.fgs = obj.fgs /\ obj'.gates = obj.gates
    <3> DEFINE h == GenerateConditions(obj.conds, "Update")
               a == [obj EXCEPT !.conds = h, !.phase = "Updating"]
               k == CompleteLast(a.conds)
               c == [a EXCEPT !.conds = k]
    <3>1. obj' = a \/ obj' = c
      BY <1>10 DEF HandleClusterUpdate, Attempt
    <3>2. a.fgs = obj.fgs /\ a.gates = obj.gates /\ c.fgs = obj.fgs /\ c.gates = obj.gates
      BY <1>1 DEF Objects
    <3> QED
      BY <3>1, <3>2
  <2> QED
    BY <1>10, <2>1, StatusesStay DEF HandleClusterUpdate
<1> QED
  BY <1>3, <1>4, <1>5, <1>6, <1>7, <1>8, <1>9, <1>10, SyncFeatureTruthful DEF Worker

\* Nor does anybody else: without another life nothing is collected.
LEMMA TruthfulStep ==
  ASSUME IInv, KInv, LifeInv, Next
  PROVE  FgsInv'
<1>1. CASE Worker
  BY <1>1, WorkerTruthful DEF LifeInv
<1>2. CASE User
  <2>1. ~ fresh' /\ UNCHANGED res
    BY <1>2 DEF User, CreateCluster, EditSpec, ToggleGate, DeleteCluster, StoreByOther,
                worldVars
  <2> QED
    BY <2>1, StatusesStay DEF LifeInv
<1>3. ASSUME NEW r \in Replicas, Failover(r) PROVE FgsInv'
  BY <1>3, StatusesStay DEF LifeInv, Failover, worldVars
<1>4. CASE Queue \/ CalmDown \/ World
  <2>1. ~ \E f \in Features : CollectResource(f)
    BY DEF CollectResource, LifeInv, OneLife
  <2>2. UNCHANGED <<api, obj, fresh, res>>
    BY <1>4, <2>1
    DEF Queue, Requeue, Deliver, Resync, CalmDown, World, ScaleMembers, ResizeImported,
        CollectChild, Sicken, Heal, userVars, workerVars, worldVars
  <2> QED
    BY <2>2, StatusesStay DEF LifeInv
<1> QED
  BY <1>1, <1>2, <1>3, <1>4 DEF Next

\* A cluster that is not deleted: the invariant is inductive.
LEMMA LifeNext ==
  ASSUME "delete" \notin Faults
  PROVE  IInv /\ KInv /\ LifeInv /\ [Next]_vars => LifeInv'
<1> SUFFICES ASSUME IInv, KInv, LifeInv, [Next]_vars PROVE LifeInv'
  OBVIOUS
<1>1. CASE Next
  BY <1>1, NextInvariant, LifeStep, GroundedStep, TruthfulStep DEF LifeInv
<1>2. CASE UNCHANGED vars
  BY <1>2 DEF vars, LifeInv, OneLife, Copies, Grounded, FgsInv, Truthful, CreationRecorded
<1> QED
  BY <1>1, <1>2

\* It holds while there is no cluster.
LEMMA LifeInit == Init => LifeInv
<1> SUFFICES ASSUME Init PROVE LifeInv
  OBVIOUS
<1>1. NoObject \in Sound /\ NoObject.uid = 0 /\ NoObject.conds = << >>
  BY NoObjectSound, NoObjectType
<1>2. NoObject \in Grounded
  BY <1>1 DEF Grounded, CreationRecorded
<1>3. << >> \in Seq(Grounded)
  OBVIOUS
<1>4. Copies(Grounded)
  BY <1>2, <1>3 DEF Init, Copies
<1>5. OneLife
  BY <1>1 DEF Init, OneLife, NoChild
<1> QED
  BY <1>4, <1>5 DEF Init, LifeInv, FgsInv

\* A cluster that is not deleted keeps what was made for it.
THEOREM OneLifeHolds ==
  ASSUME "delete" \notin Faults
  PROVE  Spec => [](IInv /\ KInv /\ LifeInv)
<1>1. Init => IInv /\ KInv /\ LifeInv
  BY InitInvariant, KnownInit, LifeInit
<1>2. IInv /\ KInv /\ LifeInv /\ [Next]_vars => IInv' /\ KInv' /\ LifeInv'
  BY NextInvariant, KnownNext, LifeNext
<1> QED
  BY <1>1, <1>2, PTL DEF Spec

\* Once the creation is recorded the operator's resource is there, and this
\* cluster's.
THEOREM CreationLeavesChild ==
  ASSUME "delete" \notin Faults
  PROVE  Spec => []CreationHasChild
<1>1. IInv /\ KInv /\ LifeInv => CreationHasChild
  BY DEF LifeInv, OneLife, Copies, Grounded, CreationHasChild
<1> QED
  BY <1>1, OneLifeHolds, PTL

\* featureGatesStatus comes to say of a feature only what is so.
THEOREM FeatureStatusSound ==
  ASSUME "delete" \notin Faults
  PROVE  Spec => FeatureStatusTruthful
<1>1. IInv /\ KInv /\ LifeInv /\ [Next]_vars
        => [\A f \in Features : api'.fgs[f] # api.fgs[f] =>
              /\ api'.fgs[f] = "enabled"  => f \in api'.gates /\ res[f] # 0
              /\ api'.fgs[f] = "disabled" => f \notin api'.gates /\ res[f] = 0]_vars
  <2> SUFFICES ASSUME IInv, KInv, LifeInv, Next, NEW f \in Features,
                      api'.fgs[f] # api.fgs[f]
               PROVE  /\ api'.fgs[f] = "enabled"  => f \in api'.gates /\ res[f] # 0
                      /\ api'.fgs[f] = "disabled" => f \notin api'.gates /\ res[f] = 0
    OBVIOUS
  <2>1. obj \in Objects /\ api \in Objects
    BY DEF IInv, Copies, Sound
  <2>2. ASSUME fresh, NEW o, Store(o), o.fgs = obj.fgs, o.gates = obj.gates
        PROVE  Truthful(obj, f) /\ api'.fgs = obj.fgs /\ api'.gates = obj.gates
    BY <2>2, StoreTravels DEF LifeInv, FgsInv
  <2>3. CASE Worker
    <3>1. \/ api' = api
          \/ fresh /\ Store(obj)
          \/ fresh /\ Store([obj EXCEPT !.labels = DesiredLabels(obj)])
      BY <2>3
      DEF Worker, TakeItem, Decide, HandleClusterCreate, HandleClusterUpdate,
          HandleClusterStatus, Persist, HandleClusterLabels, SyncFeature, FinalUpdate
    <3> DEFINE o == [obj EXCEPT !.labels = DesiredLabels(obj)]
    <3>2. o.fgs = obj.fgs /\ o.gates = obj.gates
      BY <2>1, RelabelledFields
    <3>3. fresh /\ Store(o) => Truthful(obj, f) /\ api'.fgs = obj.fgs /\ api'.gates = obj.gates
      <4> HIDE DEF o
      <4> QED
        BY <2>2, <3>2
    <3>4. fresh /\ Store(obj)
            => Truthful(obj, f) /\ api'.fgs = obj.fgs /\ api'.gates = obj.gates
      BY <2>2
    <3> QED
      BY <3>1, <3>3, <3>4 DEF Truthful
  <2>4. CASE User
    <3>1. CASE CreateCluster
      <4>1. PICK g \in SUBSET Features, l \in BOOLEAN, a \in BOOLEAN :
              api' = NewObject(created + 1, g, l, a)
        BY <3>1, StoreTravels DEF CreateCluster, StoreByOther
      <4>2. api'.fgs[f] = ""
        BY <4>1 DEF NewObject
      <4> QED
        BY <4>2
    <3>2. CASE EditSpec
      <4> DEFINE o == [api EXCEPT !.spec = @ + 1]
      <4>1. o.fgs = api.fgs /\ Store(o)
        BY <2>1, <3>2 DEF EditSpec, StoreByOther, Objects
      <4> HIDE DEF o
      <4> QED
        BY <4>1, StoreTravels
    <3>3. ASSUME NEW h \in Features, ToggleGate(h) PROVE FALSE
      <4> DEFINE o == [api EXCEPT !.gates = IF h \in @ THEN @ \ {h} ELSE @ \cup {h}]
      <4>1. o.fgs = api.fgs /\ Store(o)
        BY <2>1, <3>3 DEF ToggleGate, StoreByOther, Objects
      <4> HIDE DEF o
      <4> QED
        BY <4>1, StoreTravels
    <3>4. ~ DeleteCluster
      BY DEF DeleteCluster, May
    <3> QED
      BY <2>4, <3>1, <3>2, <3>3, <3>4 DEF User
  <2> QED
    BY <2>3, <2>4, OtherWrites
<1> QED
  BY <1>1, OneLifeHolds, PTL DEF Spec, FeatureStatusTruthful

-----------------------------------------------------------------------------
(* The order of the specifications                                         *)
(*                                                                         *)
(* A replica's cache may be old, but it does not go back: the specification*)
(* of the cache, of the versions on their way to it and of the API server  *)
(* follow one another.  Only a replica that takes the lease over with an   *)
(* older cache than its predecessor's could hand the operator an older     *)
(* one, so there is one replica, or no failover.                           *)

OneController == "crash" \notin Faults \/ \E r : Replicas = {r}

InOrder(r) ==
  /\ cache[r].spec <= api.spec
  /\ \A i \in 1 .. Len(watch[r]) :
       /\ cache[r].spec <= watch[r][i].spec
       /\ watch[r][i].spec <= api.spec
       /\ \A j \in 1 .. Len(watch[r]) : i <= j => watch[r][i].spec <= watch[r][j].spec

SpecOrder ==
  /\ api.uid = 0 => api.spec = 0
  /\ \A r \in Replicas : InOrder(r)

\* The operator has no newer specification than the worker, and the worker no
\* newer one than the cache it took it from.
ChildBound ==
  /\ child.spec <= cache[leader].spec
  /\ pc # "idle" => child.spec <= obj.spec /\ obj.spec <= cache[leader].spec

\* Without deletions specifications only grow.
LEMMA SpecGrows ==
  ASSUME "delete" \notin Faults, IInv, IInv', KInv, SpecOrder, Next
  PROVE  api.spec <= api'.spec /\ (api'.uid = 0 => api'.spec = 0)
<1>1. /\ api.spec \in Nat /\ api'.spec \in Nat /\ created \in Nat
  BY ObjectFields, BoundsAssumption
  DEF BoundsAssumption, Uids, Specs, IInv, Shape, Copies, Sound
<1>2. CASE ControllerWrite
  BY <1>1, <1>2 DEF ControllerWrite, SpecOrder
<1>3. CASE UNCHANGED <<api, created>>
  BY <1>1, <1>3 DEF SpecOrder
<1>4. CASE User
  <2>1. CASE /\ api'.uid = created' /\ created' = created + 1 /\ api.uid = 0
             /\ api'.spec = 0
    BY <1>1, <2>1 DEF SpecOrder
  <2>2. CASE api'.uid = api.uid /\ api'.spec \in {api.spec, api.spec + 1}
    <3>1. CASE api.uid # 0
      BY <1>1, <2>2, <3>1
    <3>2. CASE api.uid = 0
      <4>1. CreateCluster
        BY <1>4, <3>2 DEF User, EditSpec, ToggleGate, DeleteCluster
      <4>2. PICK g \in SUBSET Features, l \in BOOLEAN, a \in BOOLEAN :
              api' = NewObject(created + 1, g, l, a)
        BY <4>1, StoreTravels DEF CreateCluster, StoreByOther
      <4>3. api'.spec = 0
        BY <4>2 DEF NewObject
      <4> QED
        BY <1>1, <3>2, <4>3 DEF SpecOrder
    <3> QED
      BY <3>1, <3>2
  <2> QED
    BY <1>4, <2>1, <2>2, UserWrites DEF UserWrite
<1> QED
  BY <1>2, <1>3, <1>4, WorkerWrites, OtherWrites DEF KInv

\* Specifications are natural numbers.
LEMMA SpecsNatural ==
  ASSUME IInv
  PROVE  /\ api.spec \in Nat /\ obj.spec \in Nat /\ child.spec \in Nat
         /\ \A r \in Replicas : /\ cache[r].spec \in Nat
                                /\ \A i \in 1 .. Len(watch[r]) : watch[r][i].spec \in Nat
<1>1. \A o \in Sound : o.spec \in Nat
  BY ObjectFields, BoundsAssumption DEF BoundsAssumption, Specs, Sound
<1>2. child.spec \in Nat
  BY BoundsAssumption DEF BoundsAssumption, Specs, IInv, Shape
<1>3. ASSUME NEW r \in Replicas
      PROVE  cache[r] \in Sound /\ \A i \in 1 .. Len(watch[r]) : watch[r][i] \in Sound
  BY DEF IInv, Copies
<1> QED
  BY <1>1, <1>2, <1>3 DEF IInv, Copies

\* Caches, watches and the API server stay in order.
LEMMA OrderStep ==
  ASSUME IInv, IInv', SpecOrder, Travel,
         api.spec <= api'.spec, api'.uid = 0 => api'.spec = 0
  PROVE  SpecOrder'
<1> SUFFICES ASSUME NEW s \in Replicas PROVE InOrder(s)'
  BY DEF SpecOrder
<1>1. /\ cache \in [Replicas -> Sound] /\ watch \in [Replicas -> Seq(Sound)]
      /\ leader \in Replicas /\ api' \in Sound
  BY DEF IInv, Copies, Shape
<1>2. /\ InOrder(s) /\ api.spec \in Nat /\ api'.spec \in Nat /\ cache[s].spec \in Nat
      /\ \A i \in 1 .. Len(watch[s]) : watch[s][i].spec \in Nat
  BY SpecsNatural, ObjectFields, BoundsAssumption
  DEF SpecOrder, BoundsAssumption, Specs, Sound, IInv, Copies
<1>3. CASE UNCHANGED cache /\ UNCHANGED <<api, watch>>
  BY <1>2, <1>3 DEF InOrder
<1>4. CASE UNCHANGED cache /\ watch' = [r \in Replicas |-> Append(watch[r], api')]
  <2>1. /\ watch'[s] = Append(watch[s], api') /\ Len(watch[s]) \in Nat
        /\ Len(watch'[s]) = Len(watch[s]) + 1
        /\ \A i \in 1 .. Len(watch[s]) : watch'[s][i] = watch[s][i]
        /\ watch'[s][Len(watch[s]) + 1] = api'
    BY <1>1, <1>4, AppendProperties
  <2>2. cache'[s].spec <= api'.spec
    BY <1>2, <1>4 DEF InOrder
  <2>3. ASSUME NEW i \in 1 .. Len(watch'[s])
        PROVE  /\ cache'[s].spec <= watch'[s][i].spec
               /\ watch'[s][i].spec <= api'.spec /\ watch'[s][i].spec \in Nat
    BY <1>2, <1>4, <2>1 DEF InOrder
  <2>4. ASSUME NEW i \in 1 .. Len(watch'[s]), NEW j \in 1 .. Len(watch'[s]), i <= j
        PROVE  watch'[s][i].spec <= watch'[s][j].spec
    <3>1. CASE j = Len(watch[s]) + 1
      BY <2>1, <2>3, <3>1
    <3>2. CASE j # Len(watch[s]) + 1
      <4>1. i \in 1 .. Len(watch[s]) /\ j \in 1 .. Len(watch[s])
        BY <2>1, <2>4, <3>2
      <4> QED
        BY <1>2, <2>1, <2>4, <4>1 DEF InOrder
    <3> QED
      BY <3>1, <3>2
  <2> QED
    BY <2>2, <2>3, <2>4 DEF InOrder
<1>5. ASSUME NEW r \in Replicas, Deliver(r) PROVE InOrder(s)'
  <2>1. /\ api' = api
        /\ cache' = [cache EXCEPT ![r] = Head(watch[r])]
        /\ watch' = [watch EXCEPT ![r] = Tail(@)]
    BY <1>5 DEF Deliver, userVars
  <2>2. CASE s # r
    BY <1>1, <1>2, <2>1, <2>2 DEF InOrder
  <2>3. CASE s = r
    <3>1. /\ Len(watch[s]) \in Nat /\ Len(watch[s]) # 0
          /\ cache'[s] = watch[s][1] /\ watch'[s] = Tail(watch[s])
          /\ Len(watch'[s]) = Len(watch[s]) - 1
          /\ \A i \in 1 .. Len(watch'[s]) : watch'[s][i] = watch[s][i + 1]
      BY <1>1, <1>5, <2>1, <2>3, EmptySeq, HeadTailProperties DEF Deliver
    <3>2. ASSUME NEW i \in 1 .. Len(watch'[s])
          PROVE  i + 1 \in 1 .. Len(watch[s])
      BY <3>1
    <3>3. 1 \in 1 .. Len(watch[s])
      BY <3>1
    <3> QED
      BY <1>2, <2>1, <3>1, <3>2, <3>3 DEF InOrder
  <2> QED
    BY <2>2, <2>3
<1>6. ASSUME NEW r \in Replicas, Failover(r) PROVE InOrder(s)'
  <2>1. /\ api' = api
        /\ cache' = [cache EXCEPT ![leader] = api]
        /\ watch' = [watch EXCEPT ![leader] = << >>]
    BY <1>6 DEF Failover, userVars
  <2>2. CASE s # leader
    BY <1>1, <1>2, <2>1, <2>2 DEF InOrder
  <2>3. CASE s = leader
    <3>1. cache'[s] = api /\ watch'[s] = << >> /\ Len(<< >>) = 0
      BY <1>1, <2>1, <2>3
    <3> QED
      BY <1>2, <2>1, <3>1 DEF InOrder
  <2> QED
    BY <2>2, <2>3
<1> QED
  BY <1>3, <1>4, <1>5, <1>6 DEF Travel

\* The worker's copy: taken from the cache, kept with its specification, or gone.
LEMMA NextSpec ==
  ASSUME IInv, IInv', Next
  PROVE  \/ pc' = "idle"
         \/ pc # "idle" /\ obj'.spec = obj.spec
         \/ TakeItem /\ obj' = cache[leader]
<1>1. obj \in Objects /\ etcd \in Members
  BY DEF IInv, Copies, Shape, Sound
<1>2. CASE User \/ Queue \/ World \/ CalmDown
  BY <1>2
  DEF User, CreateCluster, EditSpec, ToggleGate, DeleteCluster, Queue, Requeue, Deliver,
      Resync, World, ScaleMembers, ResizeImported, CollectChild, Sicken, Heal,
      CollectResource, CalmDown, workerVars
<1>3. CASE HandleClusterCreate
  BY <1>3, CreatedFields DEF HandleClusterCreate
<1>4. CASE HandleClusterUpdate
  BY <1>4, UpdatedFields DEF HandleClusterUpdate
<1>5. CASE HandleClusterStatus
  <2>1. SameUserFields(obj, obj')
    BY <1>1, <1>5, StatusFields, StatusOnErrorFields DEF HandleClusterStatus, SameUserFields
  <2> QED
    BY <1>5, <2>1 DEF HandleClusterStatus, SameUserFields
<1>6. CASE HandleClusterLabels
  BY <1>1, <1>6, RelabelledFields DEF HandleClusterLabels, EnterFeatures, Return
<1>7. ASSUME NEW f \in Features, SyncFeature(f)
      PROVE  pc # "idle" /\ obj'.spec = obj.spec
  BY <1>7, SyncFeatureFields DEF SyncFeature
<1>8. TakeItem \/ Decide \/ Persist \/ FinalUpdate \/ (\E r \in Replicas : Failover(r))
        => \/ pc' = "idle"
           \/ pc # "idle" /\ obj' = obj
           \/ TakeItem /\ obj' = cache[leader]
  BY DEF TakeItem, Decide, Persist, FinalUpdate, Failover, Return
<1> QED
  BY <1>2, <1>3, <1>4, <1>5, <1>6, <1>7, <1>8 DEF Next, Worker

\* The leader's cache does not go back.
LEMMA LeaderCacheGrows ==
  ASSUME OneController, IInv, SpecOrder, Next
  PROVE  cache[leader].spec <= cache'[leader'].spec
<1>1. /\ leader \in Replicas /\ cache \in [Replicas -> Sound]
      /\ watch \in [Replicas -> Seq(Sound)] /\ cache[leader].spec \in Nat
      /\ InOrder(leader)
  BY SpecsNatural DEF IInv, Copies, Shape, SpecOrder
<1>2. ASSUME NEW r \in Replicas, Deliver(r)
      PROVE  cache[leader].spec <= cache'[leader'].spec
  <2>1. leader' = leader /\ cache' = [cache EXCEPT ![r] = Head(watch[r])]
    BY <1>2 DEF Deliver
  <2>2. CASE r # leader
    BY <1>1, <2>1, <2>2
  <2>3. CASE r = leader
    <3>1. /\ Len(watch[leader]) \in Nat /\ Len(watch[leader]) # 0
          /\ cache'[leader] = watch[leader][1]
      BY <1>1, <1>2, <2>1, <2>3, EmptySeq, HeadTailProperties DEF Deliver
    <3>2. 1 \in 1 .. Len(watch[leader])
      BY <3>1
    <3> QED
      BY <1>1, <2>1, <3>1, <3>2 DEF InOrder
  <2> QED
    BY <2>2, <2>3
<1>3. ASSUME NEW r \in Replicas, Failover(r)
      PROVE  cache[leader].spec <= cache'[leader'].spec
  <2>1. leader' = leader
    BY <1>1, <1>3 DEF Failover, May, OneController
  <2>2. cache'[leader] = api
    BY <1>1, <1>3 DEF Failover
  <2> QED
    BY <1>1, <2>1, <2>2 DEF InOrder
<1>4. CASE ~ \E r \in Replicas : Deliver(r) \/ Failover(r)
  <2>1. UNCHANGED <<cache, leader>>
    BY <1>4
    DEF Next, User, CreateCluster, EditSpec, ToggleGate, DeleteCluster, Queue, Requeue,
        Resync, Worker, TakeItem, Decide, HandleClusterCreate, HandleClusterUpdate,
        HandleClusterStatus, Persist, HandleClusterLabels, SyncFeature, FinalUpdate,
        WorkerFrame, World, ScaleMembers, ResizeImported, CollectChild, Sicken, Heal,
        CollectResource, CalmDown, cacheVars
  <2> QED
    BY <1>1, <2>1
<1> QED
  BY <1>2, <1>3, <1>4

\* What the operator is handed is the worker's specification.
LEMMA HandedSpec ==
  ASSUME IInv, OneLife, Next
  PROVE  \/ child'.spec = child.spec
         \/ pc # "idle" /\ child'.spec = obj.spec
<1>1. child \in [uid : Uids, spec : Specs]
  BY DEF IInv, Shape
<1>2. CASE HandleClusterCreate /\ child' = CreatedChild
  BY <1>2 DEF CreatedChild, HandleClusterCreate
<1>3. CASE HandleClusterUpdate /\ child' = UpdatedChild
  BY <1>1, <1>3 DEF UpdatedChild, HandleClusterUpdate
<1>4. ~ CollectChild
  BY DEF CollectChild, OneLife
<1> QED
  BY <1>2, <1>3, <1>4, NextChild

\* The operator stays behind the worker, and the worker behind its cache.
LEMMA ChildBoundStep ==
  ASSUME OneController, IInv, IInv', OneLife, SpecOrder, ChildBound, Next
  PROVE  ChildBound'
<1>1. /\ child.spec \in Nat /\ obj.spec \in Nat /\ cache[leader].spec \in Nat
      /\ child'.spec \in Nat /\ obj'.spec \in Nat /\ cache'[leader'].spec \in Nat
  <2>1. \A o \in Sound : o.spec \in Nat
    BY ObjectFields, BoundsAssumption DEF BoundsAssumption, Specs, Sound
  <2>2. Specs \subseteq Nat
    BY BoundsAssumption DEF BoundsAssumption, Specs
  <2> QED
    BY <2>1, <2>2 DEF IInv, Shape, Copies
<1>2. cache[leader].spec <= cache'[leader'].spec
  BY LeaderCacheGrows
<1>3. child'.spec <= cache[leader].spec
  BY <1>1, HandedSpec DEF ChildBound
<1>4. child'.spec <= cache'[leader'].spec
  BY <1>1, <1>2, <1>3
<1>5. CASE pc # "idle" /\ obj'.spec = obj.spec
  BY <1>1, <1>2, <1>4, <1>5, HandedSpec DEF ChildBound
<1>6. CASE TakeItem /\ obj' = cache[leader]
  BY <1>1, <1>2, <1>3, <1>4, <1>6 DEF ChildBound
<1>7. CASE pc' = "idle"
  BY <1>4, <1>7 DEF ChildBound
<1> QED
  BY <1>5, <1>6, <1>7, NextSpec

\* Specifications in order, the operator behind the worker.
OrderInv == SpecOrder /\ ChildBound

\* No step breaks the order of the specifications while nothing is deleted.
LEMMA OrderNext ==
  ASSUME "delete" \notin Faults, OneController
  PROVE  IInv /\ KInv /\ LifeInv /\ OrderInv /\ [Next]_vars => OrderInv'
<1> SUFFICES ASSUME IInv, KInv, LifeInv, OrderInv, [Next]_vars PROVE OrderInv'
  OBVIOUS
<1>1. CASE Next
  BY <1>1, NextInvariant, SpecGrows, NextTravels, OrderStep, ChildBoundStep
  DEF OrderInv, LifeInv
<1>2. CASE UNCHANGED vars
  BY <1>2 DEF vars, OrderInv, SpecOrder, InOrder, ChildBound
<1> QED
  BY <1>1, <1>2

\* All specifications are the first to begin with.
LEMMA OrderInit == Init => OrderInv
<1> SUFFICES ASSUME Init PROVE OrderInv
  OBVIOUS
<1>1. NoObject.spec = 0 /\ 0 <= 0
  BY DEF NoObject, NewObject
<1>2. Len(<< >>) = 0
  OBVIOUS
<1> QED
  BY <1>1, <1>2 DEF Init, OrderInv, SpecOrder, InOrder, ChildBound, NoChild

\* Nothing is deleted, and a lease that is taken over is taken over by the one
\* replica: the specifications stay in order.
THEOREM SpecsInOrder ==
  ASSUME "delete" \notin Faults, OneController
  PROVE  Spec => [](IInv /\ KInv /\ LifeInv /\ OrderInv)
<1>1. Init => IInv /\ KInv /\ LifeInv /\ OrderInv
  BY InitInvariant, KnownInit, LifeInit, OrderInit
<1>2. IInv /\ KInv /\ LifeInv /\ OrderInv /\ [Next]_vars
        => IInv' /\ KInv' /\ LifeInv' /\ OrderInv'
  BY NextInvariant, KnownNext, LifeNext, OrderNext
<1> QED
  BY <1>1, <1>2, PTL DEF Spec

\* The operator is not handed an older specification than it already has.
THEOREM ChildGoesForward ==
  ASSUME "delete" \notin Faults, OneController
  PROVE  Spec => ChildNeverRegresses
<1>1. IInv /\ KInv /\ LifeInv /\ OrderInv /\ [Next]_vars
        => [child'.uid = child.uid => child'.spec >= child.spec]_vars
  <2> SUFFICES ASSUME IInv, KInv, LifeInv, OrderInv, Next
               PROVE  child'.spec >= child.spec
    OBVIOUS
  <2>1. child.spec \in Nat /\ obj.spec \in Nat
    BY SpecsNatural
  <2> QED
    BY <2>1, HandedSpec DEF LifeInv, OrderInv, ChildBound
<1> QED
  BY <1>1, SpecsInOrder, PTL DEF Spec, ChildNeverRegresses

-----------------------------------------------------------------------------
(* Refinement of ClusterLifecycle                                          *)
(*                                                                         *)
(* A write of the controller moves the recorded history as the abstract    *)
(* specification allows, because a current copy differs from the API       *)
(* server's history only by what the handler that just ran has done.       *)

\* What a current copy's history may be, given the API server's.
Recorded ==
  \/ obj.conds = api.conds
  \/ /\ MustCreate(api.conds)
     /\ obj.conds \in {<< Pending("Create") >>, << Completed("Create") >>}
  \/ /\ ~ MustCreate(api.conds)
     /\ \/ obj.conds = << Completed("Create"), Pending("Update") >>
        \/ /\ obj.conds = << Completed("Create"), Completed("Update") >>
           /\ Imported \/ child.spec = obj.spec

\* Only right behind a creation or an update is there a difference.
StageInv ==
  fresh => /\ Recorded
           /\ pc # "persist" \/ obj.phase = "Running" => obj.conds = api.conds

\* A copy whose history is the API server's, or one that is no longer current.
LEMMA SameStage ==
  ASSUME ~ fresh' \/ obj'.conds = api'.conds
  PROVE  StageInv'
BY DEF StageInv, Recorded

\* Somebody else takes a step.
LEMMA StageStays ==
  ASSUME StageInv, ~ fresh' \/ UNCHANGED <<api, obj, fresh, child>>,
         pc' = "persist" => pc = "persist", pc' # "persist" => pc # "persist"
  PROVE  StageInv'
BY DEF StageInv, Recorded

\* handleClusterCreate opens and completes the Create of the history.
LEMMA CreateStage ==
  ASSUME IInv, StageInv, HandleClusterCreate
  PROVE  StageInv'
<1>1. /\ obj \in Sound /\ obj \in Objects /\ MustCreate(obj.conds)
  BY DEF IInv, Copies, HandlerReady, HandleClusterCreate, Sound
<1>2. /\ GenerateConditions(obj.conds, "Create") = << Pending("Create") >>
      /\ CompleteLast(<< Pending("Create") >>) = << Completed("Create") >>
  BY <1>1, CreateHistory DEF Sound
<1> DEFINE open == << Pending("Create") >>
           done == << Completed("Create") >>
           a == Attempt("Create", "Creating")
           b == AfterCreate(a)
           c == [b EXCEPT !.conds = CompleteLast(@)]
<1>3. a.conds = open
  BY <1>1, <1>2, AttemptFields DEF Attempt
<1>4. a \in Objects
  BY <1>1, AttemptedCreate DEF Attempt, Sound
<1>5. obj' = a \/ obj' = c
  BY DEF HandleClusterCreate
<1>6. CompleteLast(open) = done
  BY <1>2
<1> HIDE DEF a, open, done
<1>7. b \in Objects /\ b.conds = open
  BY <1>3, <1>4, AfterCreateType
<1> HIDE DEF b
<1>8. c.conds = done
  BY <1>6, <1>7, CondsFields
<1> HIDE DEF c
<1>9. obj'.conds \in {open, done}
  BY <1>3, <1>5, <1>8
<1>10. obj'.phase # "Running" /\ pc' = "persist" /\ UNCHANGED <<api, fresh>>
  BY CreatedFields DEF HandleClusterCreate
<1>11. fresh => MustCreate(api.conds)
  BY <1>1 DEF StageInv, HandleClusterCreate
<1> QED
  BY <1>9, <1>10, <1>11 DEF StageInv, Recorded, MustCreate, open, done

\* handleClusterUpdate opens an Update, and completes it once the child follows.
LEMMA UpdateStage ==
  ASSUME IInv, IInv', StageInv, HandleClusterUpdate
  PROVE  StageInv'
<1>1. /\ obj \in Sound /\ obj \in Objects /\ ~ MustCreate(obj.conds)
  BY DEF IInv, Copies, HandlerReady, HandleClusterUpdate, Sound
<1> DEFINE open == << Completed("Create"), Pending("Update") >>
           done == << Completed("Create"), Completed("Update") >>
           a == Attempt("Update", "Updating")
           c == [a EXCEPT !.conds = CompleteLast(@)]
<1>2. GenerateConditions(obj.conds, "Update") = open /\ CompleteLast(open) = done
  BY <1>1, UpdateHistory DEF Sound
<1> HIDE DEF open, done
<1>3. a.conds = open
  BY <1>1, <1>2, AttemptFields DEF Attempt
<1>4. a \in Objects
  BY <1>1, AttemptedUpdate DEF Attempt, Sound
<1>5. obj' = a \/ (obj' = c /\ child' = UpdatedChild)
  BY DEF HandleClusterUpdate
<1> HIDE DEF a
<1>6. c.conds = done
  BY <1>2, <1>3, <1>4, CondsFields
<1> HIDE DEF c
<1>7. /\ obj'.phase # "Running" /\ pc' = "persist" /\ UNCHANGED <<api, fresh>>
      /\ obj'.spec = obj.spec
  BY UpdatedFields DEF HandleClusterUpdate
<1>8. fresh => ~ MustCreate(api.conds)
  BY <1>1 DEF StageInv, HandleClusterUpdate
<1>9. child' = UpdatedChild => Imported \/ child'.spec = obj'.spec
  BY <1>7 DEF UpdatedChild, IInv, Shape
<1>10. obj'.conds = open \/ (obj'.conds = done /\ (Imported \/ child'.spec = obj'.spec))
  BY <1>3, <1>5, <1>6, <1>9
<1> QED
  BY <1>7, <1>8, <1>10 DEF StageInv, Recorded, MustCreate, open, done

\* The worker.
LEMMA WorkerStage ==
  ASSUME IInv, IInv', KInv, StageInv, Worker
  PROVE  StageInv'
<1>1. obj \in Objects /\ etcd \in Members /\ leader \in Replicas
  BY DEF IInv, Copies, Shape, Sound
<1>2. ASSUME NEW err, Return(err) PROVE StageInv'
  BY <1>2, SameStage DEF Return
<1>3. CASE TakeItem
  <2>1. CASE cache[leader].uid = 0
    <3>1. UNCHANGED <<api, obj, fresh, child, pc>>
      BY <1>3, <2>1 DEF TakeItem
    <3> QED
      BY <3>1, StageStays
  <2>2. CASE cache[leader].uid # 0
    <3>1. fresh' => obj' = api'
      BY <1>1, <1>3, <2>2 DEF TakeItem, KInv, LatestInv
    <3> QED
      BY <3>1, SameStage
  <2> QED
    BY <2>1, <2>2
<1>4. CASE Decide
  <2>1. pc = "decide" /\ UNCHANGED api /\ (Return(TRUE) \/ UNCHANGED <<obj, fresh>>)
    BY <1>4 DEF Decide
  <2>2. CASE UNCHANGED <<obj, fresh>>
    BY <2>1, <2>2, SameStage DEF StageInv
  <2> QED
    BY <1>2, <2>1, <2>2
<1>5. CASE HandleClusterStatus
  <2>1. SameUserFields(obj, obj')
    BY <1>1, <1>5, StatusFields, StatusOnErrorFields DEF HandleClusterStatus, SameUserFields
  <2>2. pc = "status" /\ UNCHANGED <<api, fresh>>
    BY <1>5 DEF HandleClusterStatus
  <2> QED
    BY <2>1, <2>2, SameStage DEF StageInv, SameUserFields
<1>6. CASE Persist
  <2>1. CASE Return(failed)
    BY <1>2, <2>1
  <2>2. CASE obj.phase = "Running" /\ fresh' = (fresh /\ api' = api) /\ obj' = obj
    BY <2>2, SameStage DEF StageInv
  <2> QED
    BY <1>6, <2>1, <2>2 DEF Persist
<1>7. CASE HandleClusterLabels
  <2> DEFINE o == [obj EXCEPT !.labels = DesiredLabels(obj)]
  <2>1. o.conds = obj.conds
    BY <1>1, RelabelledFields
  <2>2. /\ pc = "labels"
        /\ \/ \E err \in BOOLEAN : Return(err)
           \/ obj' = o /\ UNCHANGED fresh /\ (api' = api \/ Store(o))
    BY <1>7 DEF HandleClusterLabels, EnterFeatures
  <2> HIDE DEF o
  <2>3. CASE obj' = o /\ UNCHANGED fresh /\ (api' = api \/ Store(o))
    <3>1. api' = api \/ api' = o
      BY <2>3, StoreTravels
    <3> QED
      BY <2>1, <2>2, <2>3, <3>1, SameStage DEF StageInv
  <2> QED
    BY <1>2, <2>2, <2>3
<1>8. ASSUME NEW f \in Features, SyncFeature(f) PROVE StageInv'
  <2>1. pc = "feature" /\ UNCHANGED <<api, fresh>> /\ obj'.conds = obj.conds
    BY <1>8, SyncFeatureFields DEF SyncFeature
  <2> QED
    BY <2>1, SameStage DEF StageInv
<1>9. CASE FinalUpdate
  BY <1>2, <1>9 DEF FinalUpdate
<1> QED
  BY <1>3, <1>4, <1>5, <1>6, <1>7, <1>8, <1>9, CreateStage, UpdateStage DEF Worker

\* What a current copy records is so, as long as nothing is collected.
LEMMA StageNext ==
  IInv /\ IInv' /\ KInv /\ OneLife /\ StageInv /\ [Next]_vars => StageInv'
<1> SUFFICES ASSUME IInv, IInv', KInv, OneLife, StageInv, [Next]_vars PROVE StageInv'
  OBVIOUS
<1>1. CASE Worker
  BY <1>1, WorkerStage
<1>2. CASE User \/ \E r \in Replicas : Failover(r)
  <2>1. ~ fresh'
    BY <1>2
    DEF User, CreateCluster, EditSpec, ToggleGate, DeleteCluster, StoreByOther, Failover
  <2> QED
    BY <2>1, SameStage
<1>3. CASE Queue \/ CalmDown \/ World
  <2>1. ~ CollectChild
    BY DEF CollectChild, OneLife
  <2>2. UNCHANGED <<api, obj, fresh, pc, child>>
    BY <1>3, <2>1
    DEF Queue, Requeue, Deliver, Resync, CalmDown, World, ScaleMembers, ResizeImported,
        CollectResource, Sicken, Heal, userVars, workerVars, worldVars
  <2> QED
    BY <2>2, StageStays
<1>4. CASE UNCHANGED vars
  BY <1>4, StageStays DEF vars
<1> QED
  BY <1>1, <1>2, <1>3, <1>4 DEF Next

\* The stage a history stands for.
LEMMA StageTable ==
  ASSUME NEW o \in Sound
  PROVE  /\ o.uid = 0 => StageOf(o) = "absent"
         /\ o.uid # 0 =>
              /\ o.conds = << >> => StageOf(o) = "new" /\ MustCreate(o.conds)
              /\ o.conds = << Pending("Create") >>
                   => StageOf(o) = "creating" /\ MustCreate(o.conds)
              /\ o.conds = << Completed("Create") >>
                   => StageOf(o) = "created" /\ ~ MustCreate(o.conds)
              /\ o.conds = << Completed("Create"), Pending("Update") >>
                   => StageOf(o) = "updating" /\ ~ MustCreate(o.conds)
              /\ o.conds = << Completed("Create"), Completed("Update") >>
                   => StageOf(o) = "updated" /\ ~ MustCreate(o.conds)
<1>1. CASE o.uid = 0
  BY <1>1 DEF StageOf
<1>2. CASE o.uid # 0 /\ o.conds = << >>
  BY <1>2 DEF StageOf, MustCreate
<1>3. CASE o.uid # 0 /\ o.conds = << Pending("Create") >>
  <2>1. o.conds # << >> /\ MustCreate(o.conds)
    BY <1>3 DEF MustCreate, Unfinished, LastOf, Pending
  <2> QED
    BY <1>3, <2>1 DEF StageOf, Pending, Completed
<1>4. CASE o.uid # 0 /\ o.conds = << Completed("Create") >>
  <2>1. /\ o.conds # << >> /\ ~ MustCreate(o.conds) /\ ~ MustUpdate(o.conds)
        /\ LastOf(o.conds).type = "Create"
    BY <1>4 DEF MustCreate, MustUpdate, Unfinished, LastOf, Completed
  <2> QED
    BY <1>4, <2>1 DEF StageOf, Pending, Completed
<1>5. CASE o.uid # 0 /\ o.conds = << Completed("Create"), Pending("Update") >>
  <2>1. o.conds # << >> /\ ~ MustCreate(o.conds) /\ MustUpdate(o.conds)
    BY <1>5 DEF MustCreate, MustUpdate, Unfinished, LastOf, Pending
  <2> QED
    BY <1>5, <2>1 DEF StageOf, Pending, Completed
<1>6. CASE o.uid # 0 /\ o.conds = << Completed("Create"), Completed("Update") >>
  <2>1. /\ o.conds # << >> /\ ~ MustCreate(o.conds) /\ ~ MustUpdate(o.conds)
        /\ LastOf(o.conds).type # "Create"
    BY <1>6 DEF MustCreate, MustUpdate, Unfinished, LastOf, Completed
  <2> QED
    BY <1>6, <2>1 DEF StageOf, Pending, Completed
<1>7. o.conds \in Histories
  BY DEF Sound
<1> QED
  BY <1>1, <1>2, <1>3, <1>4, <1>5, <1>6, <1>7 DEF Histories

\* It says whether the cluster has still to be created.
LEMMA StageSplit ==
  ASSUME NEW o \in Sound, o.uid # 0
  PROVE  /\ MustCreate(o.conds) => StageOf(o) \in {"new", "creating"}
         /\ ~ MustCreate(o.conds) => StageOf(o) \in {"created", "updating", "updated"}
<1>1. o.conds \in Histories
  BY DEF Sound
<1> QED
  BY <1>1, StageTable, Zenon DEF Histories

\* A specification is never the mark of an absent resource.
LEMMA SpecsNotAbsent == \A s \in Nat : s # -1
OBVIOUS

\* What the abstract variables stand for moves as LifecycleNext allows.
LifecycleStep == Lifecycle!LifecycleNext \/ UNCHANGED Lifecycle!lifecycleVars

\* The user submits and edits.
LEMMA UserRefines ==
  ASSUME "delete" \notin Faults, IInv, IInv', User
  PROVE  LifecycleStep
<1>1. UNCHANGED child
  BY DEF User, CreateCluster, EditSpec, ToggleGate, DeleteCluster, worldVars
<1>2. /\ api \in Sound /\ api' \in Sound /\ api.spec \in Nat /\ api'.spec \in 0 .. LastSpec
      /\ created \in Nat
  BY ObjectFields, BoundsAssumption
  DEF BoundsAssumption, Uids, Specs, IInv, Shape, Copies, Sound
<1>3. CASE /\ api'.uid = created' /\ created' = created + 1 /\ api.uid = 0
           /\ api'.spec = 0 /\ api'.conds = << >>
  <2>1. api'.uid # 0
    BY <1>2, <1>3
  <2>2. StageOf(api) = "absent" /\ StageOf(api') = "new"
    BY <1>2, <1>3, <2>1, StageTable
  <2>3. Lifecycle!Submit
    BY <1>1, <1>3, <2>1, <2>2 DEF Lifecycle!Submit
  <2> QED
    BY <2>3 DEF LifecycleStep, Lifecycle!LifecycleNext
<1>4. CASE /\ api'.uid = api.uid /\ api'.spec \in {api.spec, api.spec + 1}
           /\ api'.conds = api.conds
  <2>1. StageOf(api') = StageOf(api)
    BY <1>4 DEF StageOf
  <2>2. CASE api.uid = 0 \/ api'.spec = api.spec
    BY <1>1, <1>4, <2>1, <2>2 DEF LifecycleStep, Lifecycle!lifecycleVars
  <2>3. CASE api.uid # 0 /\ api'.spec = api.spec + 1
    <3>1. StageOf(api) # "absent"
      BY <2>3 DEF StageOf
    <3>2. api.spec < LastSpec
      BY <1>2, <2>3, BoundsAssumption DEF BoundsAssumption
    <3>3. Lifecycle!Edit
      BY <1>1, <1>4, <2>1, <2>3, <3>1, <3>2 DEF Lifecycle!Edit
    <3> QED
      BY <3>3 DEF LifecycleStep, Lifecycle!LifecycleNext
  <2> QED
    BY <1>4, <2>2, <2>3
<1> QED
  BY <1>3, <1>4, UserWrites DEF UserWrite

\* The operator's resource is made and replaced, within the specifications the
\* user has asked for.
LEMMA ChildRefines ==
  ASSUME ~ Imported, IInv, KInv, LifeInv, OrderInv, Next, UNCHANGED api, child' # child
  PROVE  LifecycleStep
<1>1. /\ child \in [uid : Uids, spec : Specs] /\ leader \in Replicas
      /\ api \in Sound /\ obj \in Sound
  BY DEF IInv, Shape, Copies
<1>2. /\ child.spec \in Nat /\ obj.spec \in Nat /\ cache[leader].spec \in Nat
      /\ api.spec \in Nat /\ cache[leader].spec <= api.spec
  BY <1>1, SpecsNatural DEF OrderInv, SpecOrder, InOrder
<1>3. StageOf(api') = StageOf(api)
  OBVIOUS
<1>4. CASE HandleClusterCreate /\ child' = CreatedChild
  <2>1. child.uid = 0 /\ child' = [uid |-> obj.uid, spec |-> obj.spec]
    BY <1>4 DEF CreatedChild
  <2>2. obj.uid # 0 /\ obj.uid = api.uid /\ obj.spec <= api.spec
    <3>1. pc # "idle"
      BY <1>4 DEF HandleClusterCreate
    <3>2. obj.uid # 0 /\ obj.uid = api.uid
      BY <3>1, WorkerOfThisLife DEF KInv, WorkerKnown, LifeInv
    <3> QED
      BY <1>2, <3>1, <3>2 DEF OrderInv, ChildBound
  <2>3. MustCreate(api.conds)
    BY <1>1, <2>1, CreationInHistory DEF LifeInv, Copies, Grounded
  <2>4. StageOf(api) \in {"new", "creating"}
    BY <1>1, <2>2, <2>3, StageSplit
  <2>5. obj.spec \in 0 .. api.spec
    BY <1>2, <2>2
  <2>6. Lifecycle!DeployFirst
    BY <1>3, <2>1, <2>2, <2>4, <2>5 DEF Lifecycle!DeployFirst
  <2> QED
    BY <2>6 DEF LifecycleStep, Lifecycle!LifecycleNext
<1>5. CASE HandleClusterUpdate /\ child' = UpdatedChild
  <2>1. child.uid # 0 /\ child'.uid = child.uid /\ child'.spec = obj.spec
    BY <1>1, <1>5 DEF HandleClusterUpdate, UpdatedChild
  <2>2. pc # "idle" /\ CreationRecorded(obj)
    BY <1>1, <1>5, CreationInHistory DEF HandleClusterUpdate, IInv, HandlerReady
  <2>3. obj.uid # 0 /\ obj.uid = api.uid /\ obj.spec <= api.spec /\ child.spec <= obj.spec
    <3>1. obj.uid # 0 /\ obj.uid = api.uid
      BY <2>2, WorkerOfThisLife DEF KInv, WorkerKnown, LifeInv
    <3> QED
      BY <1>2, <2>2, <3>1 DEF OrderInv, ChildBound
  <2>4. obj \in Known
    BY <1>5 DEF HandleClusterUpdate, KInv, WorkerKnown
  <2>5. CreationRecorded(api)
    BY <2>2, <2>3, <2>4 DEF Known
  <2>6. StageOf(api) \in {"created", "updating", "updated"}
    BY <1>1, <2>3, <2>5, CreationInHistory, StageSplit
  <2>7. obj.spec \in child.spec .. api.spec
    BY <1>2, <2>3
  <2>8. Lifecycle!Redeploy
    BY <1>3, <2>1, <2>3, <2>6, <2>7 DEF Lifecycle!Redeploy
  <2> QED
    BY <2>8 DEF LifecycleStep, Lifecycle!LifecycleNext
<1>6. ~ CollectChild
  BY DEF CollectChild, LifeInv, OneLife
<1> QED
  BY <1>4, <1>5, <1>6, NextChild

\* What the worker stores, it stores from a current copy, with its history.
LEMMA WorkerStores ==
  ASSUME IInv, Worker
  PROVE  \/ UNCHANGED api
         \/ fresh /\ UNCHANGED child /\ api'.conds = obj.conds
<1>1. TakeItem \/ Decide \/ HandleClusterCreate \/ HandleClusterUpdate
        \/ HandleClusterStatus \/ (\E f \in Features : SyncFeature(f)) => UNCHANGED api
  BY DEF TakeItem, Decide, HandleClusterCreate, HandleClusterUpdate,
         HandleClusterStatus, SyncFeature
<1>2. Persist \/ FinalUpdate => UNCHANGED api \/ (fresh /\ UNCHANGED child /\ Store(obj))
  BY DEF Persist, FinalUpdate
<1>3. CASE HandleClusterLabels
  <2> DEFINE o == [obj EXCEPT !.labels = DesiredLabels(obj)]
  <2>1. o.conds = obj.conds
    BY RelabelledFields DEF IInv, Copies, Sound
  <2>2. UNCHANGED child /\ (UNCHANGED api \/ (fresh /\ Store(o)))
    BY <1>3 DEF HandleClusterLabels
  <2> HIDE DEF o
  <2> QED
    BY <2>1, <2>2, StoreTravels
<1> QED
  BY <1>1, <1>2, <1>3, StoreTravels DEF Worker

\* The history is recorded when what it says has been done.
LEMMA RecordRefines ==
  ASSUME ~ Imported, IInv, IInv', KInv, LifeInv, StageInv, Worker,
         fresh, UNCHANGED child, api'.conds = obj.conds
  PROVE  LifecycleStep
<1>1. /\ obj \in Sound /\ api \in Sound /\ api' \in Sound
      /\ child.spec \in Nat /\ api.spec \in Nat
  BY SpecsNatural DEF IInv, Copies
<1>2. api'.uid = api.uid /\ api'.spec = api.spec
  BY WorkerWrites DEF KInv, ControllerWrite
<1>3. obj.uid # 0 /\ obj.uid = api.uid /\ obj.spec = api.spec
  BY DEF KInv, FreshInv, WorkerKnown
<1>4. ~ MustCreate(obj.conds) => child.uid # 0
  BY <1>1, CreationInHistory DEF LifeInv, Copies, Grounded
<1>5. CASE obj.conds = api.conds
  <2>1. StageOf(api') = StageOf(api)
    BY <1>2, <1>5 DEF StageOf
  <2> QED
    BY <1>2, <2>1 DEF LifecycleStep, Lifecycle!lifecycleVars
<1>6. CASE /\ MustCreate(api.conds)
           /\ obj.conds \in {<< Pending("Create") >>, << Completed("Create") >>}
  <2>1. StageOf(api) \in {"new", "creating"}
    BY <1>1, <1>3, <1>6, StageSplit
  <2>2. \/ StageOf(api') = "creating"
        \/ StageOf(api') = "created" /\ ~ MustCreate(obj.conds)
    BY <1>1, <1>2, <1>3, <1>6, StageTable
  <2>3. StageOf(api') = "created" => child.uid # 0
    BY <1>4, <2>2
  <2>4. Lifecycle!RecordCreate
    BY <1>1, <1>2, <2>1, <2>2, <2>3, SpecsNotAbsent DEF Lifecycle!RecordCreate
  <2> QED
    BY <2>4 DEF LifecycleStep, Lifecycle!LifecycleNext
<1>7. CASE /\ ~ MustCreate(api.conds)
           /\ \/ obj.conds = << Completed("Create"), Pending("Update") >>
              \/ /\ obj.conds = << Completed("Create"), Completed("Update") >>
                 /\ child.spec = obj.spec
  <2>1. StageOf(api) \in {"created", "updating", "updated"}
    BY <1>1, <1>3, <1>7, StageSplit
  <2>2. \/ StageOf(api') = "updating"
        \/ StageOf(api') = "updated" /\ ~ MustCreate(obj.conds) /\ child.spec = obj.spec
    BY <1>1, <1>2, <1>3, <1>7, StageTable
  <2>3. StageOf(api') = "updated" => child.uid # 0 /\ child.spec = api.spec
    BY <1>3, <1>4, <2>2
  <2>4. Lifecycle!RecordUpdate
    BY <1>2, <1>3, <2>1, <2>2, <2>3 DEF Lifecycle!RecordUpdate
  <2> QED
    BY <2>4 DEF LifecycleStep, Lifecycle!LifecycleNext
<1> QED
  BY <1>5, <1>6, <1>7 DEF StageInv, Recorded

\* Every step of the controller is one of the abstract specification, or none.
LEMMA NextRefines ==
  ASSUME "delete" \notin Faults, ~ Imported, IInv, IInv', KInv, LifeInv, OrderInv,
         StageInv, Next
  PROVE  LifecycleStep
<1>1. CASE UNCHANGED <<api, child>>
  BY <1>1 DEF LifecycleStep, Lifecycle!lifecycleVars, StageOf
<1>2. CASE UNCHANGED api /\ child' # child
  BY <1>2, ChildRefines
<1>3. CASE User
  BY <1>3, UserRefines
<1>4. CASE Worker /\ api' # api
  BY <1>4, WorkerStores, RecordRefines
<1> QED
  BY <1>1, <1>2, <1>3, <1>4, OtherWrites

\* The controller of an operator-managed cluster that is not deleted implements
\* ClusterLifecycle, whatever its writes conflict with: its recorded history does
\* not run ahead of what was done to the operator's resource, and the operator is
\* given newer specifications only.
THEOREM LifecycleImplemented ==
  ASSUME "delete" \notin Faults, OneController, ~ Imported
  PROVE  Spec => RefinesLifecycle
<1>1. Init => StageInv
  BY DEF Init, StageInv
<1>2. Init => Lifecycle!LifecycleInit
  <2>1. NoObject.uid = 0
    BY NoObjectType
  <2> QED
    BY <2>1 DEF Init, Lifecycle!LifecycleInit, StageOf, NoChild
<1>3. IInv /\ IInv' /\ KInv /\ LifeInv /\ StageInv /\ [Next]_vars => StageInv'
  BY StageNext DEF LifeInv
<1>4. IInv /\ IInv' /\ KInv /\ LifeInv /\ OrderInv /\ StageInv /\ [Next]_vars
        => [Lifecycle!LifecycleNext]_(Lifecycle!lifecycleVars)
  <2> SUFFICES ASSUME IInv, IInv', KInv, LifeInv, OrderInv, StageInv, [Next]_vars
               PROVE  LifecycleStep
    BY DEF LifecycleStep
  <2>1. CASE Next
    BY <2>1, NextRefines
  <2>2. CASE UNCHANGED vars
    BY <2>2 DEF vars, LifecycleStep, Lifecycle!lifecycleVars, StageOf
  <2> QED
    BY <2>1, <2>2
<1>5. Spec => [](IInv /\ KInv /\ LifeInv /\ OrderInv)
  BY SpecsInOrder
<1> QED
  BY <1>1, <1>2, <1>3, <1>4, <1>5, PTL DEF Spec, RefinesLifecycle, Lifecycle!LifecycleSpec
=============================================================================
