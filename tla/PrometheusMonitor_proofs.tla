----------------------- MODULE PrometheusMonitor_proofs -----------------------
(***************************************************************************)
(* Theorems about the monitor feature, for all lists of members, all       *)
(* sequences of clusters submitted under the name, and all faults.         *)
(***************************************************************************)
EXTENDS PrometheusMonitor, TLAPS

\* The steps of Sync that follow a successful write of the Service, and all of Sync.
AfterServiceSteps == {"getEndpoints", "putEndpoints", "getMonitor", "putMonitor"}
SyncSteps == AfterServiceSteps \cup {"getService", "putService"}

\* Whose objects there are: the cluster that exists is the last one created, a Sync
\* works for one that was, and its Service names it as the owner.
UidInv ==
  /\ created \in Nat /\ cluster.uid \in {0, created}
  /\ cached.uid \in 0 .. created /\ obj.uid \in 0 .. created
  /\ created = 0 => pc = "idle" /\ ~ monitor.there
  /\ pc \in SyncSteps => obj.uid # 0
  /\ service.there => service.owner \in 1 .. created

\* In which order the worker deals with Service and ServiceMonitor: what it has deleted
\* is still gone when it goes on, and of the first cluster, whose Service nobody
\* collects while it exists, so is what it has written.
OrderInv ==
  /\ pc = "deleteService" => ~ monitor.there
  /\ pc = "record" /\ obj.status = "disabled" => ~ service.there /\ ~ monitor.there
  /\ cluster.uid = 1 =>
       /\ monitor.there => service.there
       /\ pc \in AfterServiceSteps => service.there

\* The inductive invariant.
IInv == TypeOK /\ UidInv /\ OrderInv

-----------------------------------------------------------------------------
(* The initial states, and the members of a cluster *)

\* The EtcdClusters created under the name are numbered from one.
LEMMA TypesLength == Len(Types) \in Nat /\ DOMAIN Types = 1 .. Len(Types)
BY MonitorAssumption DEF MonitorAssumption

\* The members a cluster of a type may have are in one of the lists.
LEMMA ListedMembers ==
  ASSUME NEW n \in 1 .. Len(Types), NEW ms \in Lists[Types[n]]
  PROVE  ms \in UNION Range(Lists)
<1>1. Types[n] \in DOMAIN Lists
  BY MonitorAssumption DEF MonitorAssumption
<1> QED
  BY <1>1 DEF Range

\* Nothing there, for each kind of object.
LEMMA NothingThere ==
  /\ NoCluster \in Clusters /\ NoCluster.uid = 0
  /\ NoService.there = FALSE /\ NoService.owner \in Uids
  /\ NoMonitor.there = FALSE /\ NoMonitor.owner \in Uids
  /\ NoEndpoints.there = FALSE
  /\ NoWork.uid = 0 /\ NoWork.status \in Statuses /\ 0 \in Uids
<1>1. 0 \in Uids
  BY TypesLength DEF Uids
<1>2. NoCluster \in Clusters /\ NoCluster.uid = 0
  BY <1>1 DEF NoCluster, Clusters, Statuses
<1>3. NoService.there = FALSE /\ NoMonitor.there = FALSE /\ NoEndpoints.there = FALSE
  BY DEF NoService, NoMonitor, NoEndpoints
<1> QED
  BY <1>1, <1>2, <1>3 DEF NoService, NoMonitor, NoWork, Statuses

\* Nothing exists at the start.
LEMMA InitInvariant == Init => IInv
<1> SUFFICES ASSUME Init PROVE IInv
  OBVIOUS
<1>1. TypeOK
  BY NothingThere DEF Init, TypeOK
<1>2. UidInv /\ OrderInv
  BY NothingThere DEF Init, UidInv, OrderInv, SyncSteps, AfterServiceSteps
<1> QED
  BY <1>1, <1>2 DEF IInv

-----------------------------------------------------------------------------
(* The user and etcd *)

\* An EtcdCluster is created under a uid of its own.
LEMMA CreateClusterInvariant ==
  ASSUME IInv, CreateCluster
  PROVE  IInv'
<1> USE DEF IInv, TypeOK, CreateCluster, UserFrame
<1>1. created + 1 \in Uids /\ created + 1 \in 1 .. Len(Types)
  BY TypesLength DEF Uids
<1>2. PICK gate \in BOOLEAN : cluster' = [NoCluster EXCEPT !.uid = created + 1, !.gate = gate]
  OBVIOUS
<1>3. cluster' \in Clusters /\ cluster'.uid = created + 1
  BY <1>1, <1>2 DEF NoCluster, Clusters, Statuses
<1>4. etcd' \in UNION Range(Lists)
  BY <1>1, ListedMembers
<1>5. TypeOK'
  BY <1>1, <1>3, <1>4
<1>6. UidInv'
  <2>1. created' = created + 1 /\ UNCHANGED <<cached, pc, obj, service, monitor>>
    OBVIOUS
  <2>2. created = 0 => ~ service.there
    BY DEF UidInv
  <2> QED
    BY <1>3, <2>1, <2>2 DEF UidInv
<1>7. OrderInv'
  <2>1. UNCHANGED <<pc, obj, service, monitor>>
    OBVIOUS
  <2>2. CASE created = 0
    BY <1>3, <2>1, <2>2 DEF UidInv, OrderInv, AfterServiceSteps
  <2>3. CASE created # 0
    <3>1. cluster'.uid # 1
      BY <1>3, <2>3 DEF UidInv
    <3> QED
      BY <2>1, <3>1 DEF OrderInv
  <2> QED
    BY <2>2, <2>3
<1> QED
  BY <1>5, <1>6, <1>7

\* The gate is opened or closed: the monitor is as it was.
LEMMA ToggleGateInvariant ==
  ASSUME IInv, ToggleGate
  PROVE  IInv'
<1>1. /\ cluster' = [cluster EXCEPT !.gate = ~ @] /\ fresh' = FALSE
      /\ UNCHANGED <<created, etcd, changed, cached, pc, obj, found, service, endpoints,
                     monitor, calm>>
  BY DEF ToggleGate, UserFrame
<1>2. cluster' \in Clusters /\ cluster'.uid = cluster.uid
  BY <1>1 DEF IInv, TypeOK, Clusters
<1>3. TypeOK'
  BY <1>1, <1>2 DEF IInv, TypeOK
<1>4. UidInv' /\ OrderInv'
  BY <1>1, <1>2 DEF IInv, UidInv, OrderInv
<1> QED
  BY <1>3, <1>4 DEF IInv

\* The EtcdCluster is deleted: its objects wait for the garbage collector.
LEMMA DeleteClusterInvariant ==
  ASSUME IInv, DeleteCluster
  PROVE  IInv'
<1>1. TypeOK'
  BY NothingThere DEF IInv, TypeOK, DeleteCluster, UserFrame
<1>2. UidInv' /\ OrderInv'
  BY NothingThere DEF IInv, UidInv, OrderInv, DeleteCluster, UserFrame
<1> QED
  BY <1>1, <1>2 DEF IInv

\* Members come and go, and the endpoints controller has something to do.
LEMMA ChangeMembersInvariant ==
  ASSUME IInv, ChangeMembers
  PROVE  IInv'
<1>1. etcd' \in UNION Range(Lists)
  BY ListedMembers, TypesLength DEF IInv, TypeOK, ChangeMembers, Clusters, Uids
<1>2. changed' \in BOOLEAN
  BY DEF ChangeMembers
<1> QED
  BY <1>1, <1>2 DEF IInv, TypeOK, UidInv, OrderInv, ChangeMembers, UserFrame

-----------------------------------------------------------------------------
(* The worker *)

\* The end of Sync: the worker keeps nothing of the EtcdCluster but the new status.
LEMMA FinishKeeps ==
  ASSUME NEW status \in Statuses, Finish(status)
  PROVE  pc' = "record" /\ found' = FALSE /\ fresh' = fresh
         /\ obj'.uid = 0 /\ obj'.status = status /\ obj'.status \in Statuses
BY DEF Finish, NoWork

\* A step that touches neither the resources nor the EtcdCluster keeps the invariant if
\* it goes where the invariant asks nothing new.
LEMMA MoveInvariant ==
  ASSUME IInv, NoWrite, WorkFrame, UNCHANGED cluster, found' \in BOOLEAN, fresh' \in BOOLEAN,
         obj'.uid \in 0 .. created, obj'.status \in Statuses,
         pc' \in SyncSteps => obj'.uid # 0,
         created = 0 => pc' = "idle",
         pc' = "deleteService" => ~ monitor.there,
         pc' = "record" => obj'.status # "disabled",
         cluster.uid = 1 /\ pc' \in AfterServiceSteps => service.there,
         pc' = "putService" /\ service.there => found',
         pc' = "putMonitor" /\ monitor.there => found'
  PROVE  IInv'
<1>1. obj'.uid \in Uids
  BY TypesLength DEF IInv, TypeOK, UidInv, Uids
<1>2. TypeOK'
  BY <1>1 DEF IInv, TypeOK, NoWrite, WorkFrame
<1>3. UidInv' /\ OrderInv'
  BY DEF IInv, UidInv, OrderInv, NoWrite, WorkFrame
<1> QED
  BY <1>2, <1>3 DEF IInv

\* A reconcile reads the copy of the informer.
LEMMA StartSyncInvariant ==
  ASSUME IInv, StartSync
  PROVE  IInv'
<1>1. CASE cached.gate
  <2>1. pc' = "getService" /\ obj'.uid = cached.uid /\ obj'.status \in Statuses
    BY <1>1 DEF StartSync, NoWork, Statuses
  <2> QED
    BY <2>1, MoveInvariant DEF IInv, TypeOK, UidInv, StartSync, AfterServiceSteps
<1>2. CASE ~ cached.gate
  <2>1. pc' = "checkMonitor" /\ obj'.uid = 0 /\ obj'.status \in Statuses
    BY <1>2, NothingThere DEF StartSync
  <2> QED
    BY <2>1, MoveInvariant DEF IInv, TypeOK, UidInv, StartSync, SyncSteps, AfterServiceSteps
<1> QED
  BY <1>1, <1>2

\* CheckEqualIfDisabled: the two Gets, with nothing written.
LEMMA CheckInvariant ==
  ASSUME IInv, CheckMonitor \/ CheckService
  PROVE  IInv'
<1>1. NoWrite /\ WorkFrame /\ UNCHANGED <<cluster, found>> /\ pc # "idle"
  BY DEF CheckMonitor, CheckService
<1>2. CASE pc' \in {"checkService", "deleteMonitor"} /\ UNCHANGED <<obj, fresh>>
  BY <1>1, <1>2, MoveInvariant DEF IInv, TypeOK, UidInv, SyncSteps, AfterServiceSteps
<1>3. CASE Leave
  <2>1. pc' = "idle" /\ obj'.uid = 0 /\ obj'.status \in Statuses /\ fresh' = FALSE
    BY <1>3, NothingThere DEF Leave
  <2>2. obj'.uid \in 0 .. created /\ pc' \notin SyncSteps /\ pc' \notin AfterServiceSteps
    BY <2>1 DEF IInv, UidInv, SyncSteps, AfterServiceSteps
  <2>3. pc' \notin {"deleteService", "record", "putService", "putMonitor"}
    BY <2>1
  <2> QED
    BY <1>1, <2>1, <2>2, <2>3, MoveInvariant DEF IInv, TypeOK
<1>4. (pc' \in {"checkService", "deleteMonitor"} /\ UNCHANGED <<obj, fresh>>) \/ Leave
  BY Zenon DEF CheckMonitor, CheckService, Goto
<1> QED
  BY <1>2, <1>3, <1>4

\* A Sync that fails without a write.
LEMMA FailedInvariant ==
  ASSUME IInv, pc # "idle", Finish("failed"), NoWrite, WorkFrame, UNCHANGED cluster
  PROVE  IInv'
<1>1. /\ pc' = "record" /\ found' = FALSE /\ fresh' = fresh
      /\ obj'.uid = 0 /\ obj'.status = "failed" /\ obj'.status \in Statuses
  BY FinishKeeps DEF Statuses
<1>2. obj'.uid \in 0 .. created /\ pc' \notin SyncSteps /\ pc' \notin AfterServiceSteps
  BY <1>1 DEF IInv, UidInv, SyncSteps, AfterServiceSteps
<1>3. pc' \notin {"deleteService", "putService", "putMonitor"} /\ created # 0
  BY <1>1 DEF IInv, UidInv
<1> QED
  BY <1>1, <1>2, <1>3, MoveInvariant DEF IInv, TypeOK

\* The ServiceMonitor is deleted before its Service.
LEMMA DeleteMonitorInvariant ==
  ASSUME IInv, DeleteMonitor
  PROVE  IInv'
<1>1. CASE NoWrite /\ Finish("failed")
  BY <1>1, FailedInvariant DEF DeleteMonitor
<1>2. CASE ~ (NoWrite /\ Finish("failed"))
  <2>a. /\ monitor' = NoMonitor /\ UNCHANGED <<cluster, service, endpoints, changed>>
        /\ (Goto("deleteService") /\ UNCHANGED found) \/ Finish("failed")
        /\ pc = "deleteMonitor" /\ WorkFrame
    BY <1>2 DEF DeleteMonitor, Fails
  <2>b. /\ pc' = "deleteService" \/ (pc' = "record" /\ obj'.status = "failed")
        /\ fresh' = fresh /\ found' \in BOOLEAN
        /\ obj'.uid \in {0, obj.uid} /\ obj'.status \in Statuses
    <3>1. CASE Goto("deleteService") /\ UNCHANGED found
      BY <3>1 DEF IInv, TypeOK, Goto
    <3>2. CASE Finish("failed")
      BY <3>2, FinishKeeps DEF Statuses
    <3> QED
      BY <2>a, <3>1, <3>2
  <2>1. /\ monitor' = NoMonitor /\ UNCHANGED <<cluster, service, endpoints, changed>>
        /\ pc' = "deleteService" \/ (pc' = "record" /\ obj'.status = "failed")
        /\ obj'.uid \in 0 .. created /\ fresh' = fresh /\ found' \in BOOLEAN
        /\ pc # "idle" /\ WorkFrame
    BY <2>a, <2>b DEF IInv, UidInv
  <2>2. TypeOK'
    <3>1. obj'.uid \in Uids
      BY <2>b, NothingThere DEF IInv, TypeOK
    <3> QED
      BY <2>1, <2>b, <3>1, NothingThere DEF IInv, TypeOK, WorkFrame
  <2>3. UidInv'
    BY <2>1, NothingThere DEF IInv, UidInv, WorkFrame, SyncSteps, AfterServiceSteps
  <2>4. OrderInv'
    BY <2>1, NothingThere DEF IInv, OrderInv, AfterServiceSteps
  <2> QED
    BY <2>2, <2>3, <2>4 DEF IInv
<1> QED
  BY <1>1, <1>2

\* The Service is deleted once the ServiceMonitor is gone.
LEMMA DeleteServiceInvariant ==
  ASSUME IInv, DeleteService
  PROVE  IInv'
<1>1. CASE NoWrite /\ Finish("failed")
  BY <1>1, FailedInvariant DEF DeleteService
<1>2. CASE ~ (NoWrite /\ Finish("failed"))
  <2>1. /\ service' = NoService /\ UNCHANGED <<cluster, endpoints, monitor>>
        /\ changed' \in BOOLEAN /\ pc' = "record"
        /\ obj'.uid = 0 /\ obj'.status \in Statuses /\ fresh' = fresh /\ found' \in BOOLEAN
        /\ pc = "deleteService" /\ WorkFrame
    <3>1. PutService(NoService) /\ (Finish("disabled") \/ Finish("failed"))
      BY <1>2 DEF DeleteService, Fails
    <3>2. "disabled" \in Statuses /\ "failed" \in Statuses
      BY DEF Statuses
    <3> QED
      BY <3>1, <3>2, FinishKeeps DEF IInv, TypeOK, DeleteService, PutService
  <2>2. TypeOK'
    BY <2>1, NothingThere DEF IInv, TypeOK, WorkFrame
  <2>3. UidInv'
    BY <2>1, NothingThere DEF IInv, UidInv, WorkFrame, SyncSteps, AfterServiceSteps
  <2>4. OrderInv'
    BY <2>1, NothingThere DEF IInv, OrderInv, AfterServiceSteps
  <2> QED
    BY <2>2, <2>3, <2>4 DEF IInv
<1> QED
  BY <1>1, <1>2

\* A Get goes on with what it found, or fails.
LEMMA GetInvariant ==
  ASSUME IInv, NEW there \in BOOLEAN, NEW next \in {"putService", "putEndpoints", "putMonitor"},
         Get(there, next), NoWrite, WorkFrame, UNCHANGED cluster,
         pc \in SyncSteps,
         next = "putService" /\ service.there => there,
         next = "putMonitor" /\ monitor.there => there,
         next # "putService" => pc \in AfterServiceSteps
  PROVE  IInv'
<1>0. pc # "idle"
  BY DEF SyncSteps, AfterServiceSteps
<1>1. CASE Finish("failed")
  BY <1>0, <1>1, FailedInvariant
<1>2. CASE found' = there /\ Goto(next)
  <2>1. pc' = next /\ UNCHANGED <<obj, fresh>> /\ found' = there
    BY <1>2 DEF Goto
  <2>2. /\ pc' \notin {"deleteService", "record"} /\ created # 0
        /\ obj'.uid \in 0 .. created /\ obj'.uid # 0
    BY <1>0, <2>1 DEF IInv, UidInv
  <2>3. cluster.uid = 1 /\ pc' \in AfterServiceSteps => service.there
    BY <2>1 DEF IInv, OrderInv, AfterServiceSteps
  <2> QED
    BY <2>1, <2>2, <2>3, MoveInvariant DEF IInv, TypeOK
<1> QED
  BY <1>1, <1>2 DEF Get

\* The Get of the Service writes nothing.
LEMMA GetServiceInvariant ==
  ASSUME IInv, GetService
  PROVE  IInv'
<1>1. service.there \in BOOLEAN
  BY DEF IInv, TypeOK
<1> QED
  BY <1>1, GetInvariant DEF GetService, SyncSteps

\* The Get of the Endpoints writes nothing.
LEMMA GetEndpointsInvariant ==
  ASSUME IInv, GetEndpoints
  PROVE  IInv'
<1>1. endpoints.there \in BOOLEAN
  BY DEF IInv, TypeOK
<1> QED
  BY <1>1, GetInvariant DEF GetEndpoints, SyncSteps, AfterServiceSteps

\* The Get of the ServiceMonitor, after the Service was written.
LEMMA GetMonitorInvariant ==
  ASSUME IInv, GetMonitor
  PROVE  IInv'
<1>1. /\ NoWrite /\ WorkFrame /\ UNCHANGED cluster
      /\ pc = "getMonitor"
  BY DEF GetMonitor
<1>2. pc \in AfterServiceSteps /\ pc \in SyncSteps /\ pc # "idle"
  BY <1>1 DEF SyncSteps, AfterServiceSteps
<1>3. CASE Get(monitor.there, "putMonitor")
  <2>1. monitor.there \in BOOLEAN
    BY DEF IInv, TypeOK
  <2> QED
    BY <1>1, <1>2, <1>3, <2>1, GetInvariant
<1>4. CASE Finish("enabled")
  <2>1. /\ pc' = "record" /\ found' = FALSE /\ fresh' = fresh
        /\ obj'.uid = 0 /\ obj'.status = "enabled" /\ obj'.status \in Statuses
    BY <1>4, FinishKeeps DEF Statuses
  <2>2. obj'.uid \in 0 .. created /\ pc' \notin SyncSteps /\ pc' \notin AfterServiceSteps
    BY <2>1 DEF IInv, UidInv, SyncSteps, AfterServiceSteps
  <2>3. pc' \notin {"deleteService", "putService", "putMonitor"} /\ created # 0
    BY <1>2, <2>1 DEF IInv, UidInv
  <2> QED
    BY <1>1, <2>1, <2>2, <2>3, MoveInvariant DEF IInv, TypeOK
<1>5. CASE Finish("failed")
  BY <1>1, <1>2, <1>5, FailedInvariant
<1> QED
  BY <1>3, <1>4, <1>5 DEF GetMonitor

\* What Sync writes is there, and names as its owner the cluster of the worker's copy.
LEMMA WrittenObjects ==
  /\ ServiceOf(obj).there = TRUE /\ ServiceOf(obj).owner = obj.uid
  /\ EndpointsOf(obj).there = TRUE
  /\ MonitorOf(obj).there = TRUE /\ MonitorOf(obj).owner = obj.uid
BY DEF ServiceOf, EndpointsOf, MonitorOf

\* The Service is created or updated, with its owner.
LEMMA SyncServiceInvariant ==
  ASSUME IInv, SyncService
  PROVE  IInv'
<1>1. pc = "putService" /\ WorkFrame /\ UNCHANGED cluster
  BY DEF SyncService
<1>2. pc \in SyncSteps /\ pc # "idle" /\ obj.uid \in 1 .. created /\ obj.uid \in Uids
  BY <1>1, TypesLength DEF SyncSteps, IInv, TypeOK, UidInv, Uids
<1>3. CASE NoWrite /\ Finish("failed")
  BY <1>1, <1>2, <1>3, FailedInvariant
<1>4. CASE /\ PutService(ServiceOf(obj))
           /\ (Goto(AfterService) /\ found' = FALSE) \/ Finish("failed")
  <2>1. /\ service'.there = TRUE /\ service'.owner = obj.uid
        /\ changed' \in BOOLEAN /\ UNCHANGED <<endpoints, monitor>>
    BY <1>4, WrittenObjects DEF PutService, IInv, TypeOK
  <2>2. /\ \/ pc' \in {"getEndpoints", "getMonitor"} /\ UNCHANGED obj
           \/ pc' = "record" /\ obj'.uid = 0 /\ obj'.status = "failed"
        /\ found' = FALSE /\ fresh' = fresh /\ obj'.status \in Statuses
    <3>1. CASE Goto(AfterService) /\ found' = FALSE
      BY <3>1 DEF Goto, AfterService, IInv, TypeOK
    <3>2. CASE Finish("failed")
      BY <3>2, FinishKeeps DEF Statuses
    <3> QED
      BY <1>4, <3>1, <3>2
  <2>3. TypeOK'
    <3>1. obj'.uid \in Uids
      BY <1>2, <2>2, NothingThere
    <3> QED
      BY <1>1, <1>2, <2>1, <2>2, <3>1 DEF IInv, TypeOK, WorkFrame
  <2>4. UidInv'
    <3>1. pc' \in SyncSteps => obj'.uid # 0
      BY <1>2, <2>2 DEF SyncSteps, AfterServiceSteps
    <3>2. obj'.uid \in 0 .. created
      BY <1>2, <2>2 DEF IInv, UidInv
    <3> QED
      BY <1>1, <1>2, <2>1, <3>1, <3>2 DEF IInv, UidInv, WorkFrame
  <2>5. OrderInv'
    BY <1>1, <2>1, <2>2 DEF OrderInv
  <2> QED
    BY <2>3, <2>4, <2>5 DEF IInv
<1>5. \/ NoWrite /\ Finish("failed")
      \/ PutService(ServiceOf(obj)) /\ ((Goto(AfterService) /\ found' = FALSE) \/ Finish("failed"))
  BY DEF SyncService, Put, Fails
<1> QED
  BY <1>3, <1>4, <1>5

\* The Endpoints of an imported etcd are written.
LEMMA SyncEndpointsInvariant ==
  ASSUME IInv, SyncEndpoints
  PROVE  IInv'
<1>1. pc = "putEndpoints" /\ WorkFrame /\ UNCHANGED cluster
  BY DEF SyncEndpoints
<1>2. pc \in SyncSteps /\ pc \in AfterServiceSteps /\ pc # "idle"
  BY <1>1 DEF SyncSteps, AfterServiceSteps
<1>3. CASE NoWrite /\ Finish("failed")
  BY <1>1, <1>2, <1>3, FailedInvariant
<1>4. CASE /\ endpoints' = EndpointsOf(obj) /\ UNCHANGED <<service, monitor, changed>>
           /\ (Goto("getMonitor") /\ found' = FALSE) \/ Finish("failed")
  <2>1. endpoints'.there = TRUE
    BY <1>4, WrittenObjects
  <2>2. /\ \/ pc' = "getMonitor" /\ UNCHANGED obj
           \/ pc' = "record" /\ obj'.uid = 0 /\ obj'.status = "failed"
        /\ found' = FALSE /\ fresh' = fresh /\ obj'.status \in Statuses
    <3>1. CASE Goto("getMonitor") /\ found' = FALSE
      BY <3>1 DEF Goto, IInv, TypeOK
    <3>2. CASE Finish("failed")
      BY <3>2, FinishKeeps DEF Statuses
    <3> QED
      BY <1>4, <3>1, <3>2
  <2>3. obj'.uid \in Uids /\ obj'.uid \in 0 .. created /\ (pc' \in SyncSteps => obj'.uid # 0)
    BY <1>2, <2>2, NothingThere DEF IInv, TypeOK, UidInv, SyncSteps, AfterServiceSteps
  <2>4. TypeOK'
    BY <1>1, <1>4, <2>1, <2>2, <2>3 DEF IInv, TypeOK, WorkFrame
  <2>5. UidInv'
    BY <1>1, <1>2, <1>4, <2>3 DEF IInv, UidInv, WorkFrame
  <2>6. OrderInv'
    BY <1>1, <1>2, <1>4, <2>2 DEF IInv, OrderInv
  <2> QED
    BY <2>4, <2>5, <2>6 DEF IInv
<1> QED
  BY <1>3, <1>4 DEF SyncEndpoints, Put, Fails

\* The ServiceMonitor is written after what it depends on.
LEMMA SyncMonitorInvariant ==
  ASSUME IInv, SyncMonitor
  PROVE  IInv'
<1>1. pc = "putMonitor" /\ WorkFrame /\ UNCHANGED cluster
  BY DEF SyncMonitor
<1>2. /\ pc \in SyncSteps /\ pc \in AfterServiceSteps /\ pc # "idle"
      /\ obj.uid \in Uids /\ created # 0
  BY <1>1 DEF SyncSteps, AfterServiceSteps, IInv, TypeOK, UidInv
<1>3. CASE NoWrite /\ Finish("failed")
  BY <1>1, <1>2, <1>3, FailedInvariant
<1>4. CASE /\ monitor' = MonitorOf(obj) /\ UNCHANGED <<service, endpoints, changed>>
           /\ Finish("enabled") \/ Finish("failed")
  <2>1. monitor'.there = TRUE /\ monitor'.owner = obj.uid
    BY <1>4, WrittenObjects
  <2>2. /\ pc' = "record" /\ obj'.uid = 0 /\ obj'.status \in {"enabled", "failed"}
        /\ found' = FALSE /\ fresh' = fresh /\ obj'.status \in Statuses
    <3>1. CASE Finish("enabled")
      BY <3>1, FinishKeeps DEF Statuses
    <3>2. CASE Finish("failed")
      BY <3>2, FinishKeeps DEF Statuses
    <3> QED
      BY <1>4, <3>1, <3>2
  <2>3. TypeOK'
    BY <1>1, <1>2, <1>4, <2>1, <2>2, NothingThere DEF IInv, TypeOK, WorkFrame
  <2>4. UidInv'
    BY <1>1, <1>2, <1>4, <2>2 DEF IInv, UidInv, WorkFrame, SyncSteps, AfterServiceSteps
  <2>5. OrderInv'
    BY <1>1, <1>2, <1>4, <2>2 DEF IInv, OrderInv, AfterServiceSteps
  <2> QED
    BY <2>3, <2>4, <2>5 DEF IInv
<1> QED
  BY <1>3, <1>4 DEF SyncMonitor, Put, Fails

\* The status is recorded, if nobody has changed the EtcdCluster since.
LEMMA RecordInvariant ==
  ASSUME IInv, Record
  PROVE  IInv'
<1>1. /\ pc' = "idle" /\ obj'.uid = 0 /\ obj'.status \in Statuses
      /\ fresh' = FALSE /\ UNCHANGED found
      /\ NoWrite /\ WorkFrame
  BY NothingThere DEF Record, Leave
<1>2. cluster' \in Clusters /\ cluster'.uid = cluster.uid
  BY DEF Record, IInv, TypeOK, Clusters
<1>3. TypeOK'
  BY <1>1, <1>2, NothingThere DEF IInv, TypeOK, WorkFrame, NoWrite
<1>4. UidInv'
  BY <1>1, <1>2 DEF IInv, UidInv, WorkFrame, NoWrite, SyncSteps, AfterServiceSteps
<1>5. OrderInv'
  BY <1>1, <1>2 DEF IInv, OrderInv, NoWrite, AfterServiceSteps
<1> QED
  BY <1>3, <1>4, <1>5 DEF IInv

-----------------------------------------------------------------------------
(* The informer, Kubernetes' controllers, and the faults *)

\* The informer catches up.
LEMMA DeliverInvariant ==
  ASSUME IInv, Deliver
  PROVE  IInv'
<1>1. cached' = cluster
      /\ UNCHANGED <<cluster, created, etcd, pc, obj, fresh, found, service, endpoints,
                     monitor, changed, calm>>
  BY DEF Deliver, workVars
<1> QED
  BY <1>1 DEF IInv, TypeOK, UidInv, OrderInv

\* The garbage collector takes a Service whose owner is gone.
LEMMA CollectServiceInvariant ==
  ASSUME IInv, CollectService
  PROVE  IInv'
<1>1. /\ service' = NoService /\ changed' \in BOOLEAN /\ Orphan(service)
      /\ UNCHANGED <<cluster, created, etcd, cached, pc, obj, fresh, found, endpoints,
                     monitor, calm>>
  BY DEF CollectService, PutService, workVars, IInv, TypeOK
<1>2. cluster.uid # 1
  BY <1>1 DEF IInv, UidInv, Orphan
<1>3. TypeOK' /\ UidInv'
  BY <1>1, NothingThere DEF IInv, TypeOK, UidInv
<1>4. OrderInv'
  BY <1>1, <1>2, NothingThere DEF IInv, OrderInv
<1> QED
  BY <1>3, <1>4 DEF IInv

\* The garbage collector takes a ServiceMonitor whose owner is gone.
LEMMA CollectMonitorInvariant ==
  ASSUME IInv, CollectMonitor
  PROVE  IInv'
<1>1. /\ monitor' = NoMonitor
      /\ UNCHANGED <<cluster, created, etcd, cached, pc, obj, fresh, found, service, endpoints,
                     changed, calm>>
  BY DEF CollectMonitor, workVars
<1>2. TypeOK'
  BY <1>1, NothingThere DEF IInv, TypeOK
<1>3. UidInv' /\ OrderInv'
  BY <1>1, NothingThere DEF IInv, UidInv, OrderInv
<1> QED
  BY <1>2, <1>3 DEF IInv

\* The endpoints controller writes only Endpoints of Services with a selector.
LEMMA ControlEndpointsInvariant ==
  ASSUME IInv, ControlEndpoints
  PROVE  IInv'
<1>1. /\ changed' = FALSE
      /\ UNCHANGED <<cluster, created, etcd, cached, pc, obj, fresh, found, service, monitor,
                     calm>>
  BY DEF ControlEndpoints, workVars
<1>2. endpoints'.there \in BOOLEAN
  <2>1. ~ service.there => endpoints' = NoEndpoints
    BY DEF ControlEndpoints
  <2>2. service.there /\ ~ service.selector => endpoints' = endpoints
    BY DEF ControlEndpoints
  <2>3. service.there /\ service.selector => endpoints'.there = TRUE
    BY DEF ControlEndpoints
  <2> QED
    BY <2>1, <2>2, <2>3, NothingThere DEF IInv, TypeOK
<1>3. TypeOK'
  BY <1>1, <1>2 DEF IInv, TypeOK
<1>4. UidInv' /\ OrderInv'
  BY <1>1 DEF IInv, UidInv, OrderInv
<1> QED
  BY <1>3, <1>4 DEF IInv

\* The process ends in the middle of a Sync: no status is recorded.
LEMMA RestartInvariant ==
  ASSUME IInv, Restart
  PROVE  IInv'
<1>1. /\ pc' = "idle" /\ obj'.uid = 0 /\ obj'.status \in Statuses
      /\ fresh' = FALSE /\ found' = FALSE /\ cached' = cluster
      /\ UNCHANGED <<cluster, created, etcd, service, endpoints, monitor, changed, calm>>
  BY NothingThere DEF Restart, Leave
<1>2. TypeOK'
  BY <1>1, NothingThere DEF IInv, TypeOK
<1>3. UidInv' /\ OrderInv'
  BY <1>1 DEF IInv, UidInv, OrderInv, SyncSteps, AfterServiceSteps
<1> QED
  BY <1>2, <1>3 DEF IInv

\* A step that only calms the environment down breaks nothing.
LEMMA CalmDownInvariant ==
  ASSUME IInv, CalmDown
  PROVE  IInv'
BY DEF CalmDown, workVars, IInv, TypeOK, UidInv, OrderInv

-----------------------------------------------------------------------------
(* Theorems *)

\* Every step keeps the invariant.
LEMMA NextInvariant ==
  ASSUME IInv, [Next]_vars
  PROVE  IInv'
<1>1. CASE CreateCluster \/ ToggleGate \/ DeleteCluster \/ ChangeMembers
  BY <1>1, CreateClusterInvariant, ToggleGateInvariant, DeleteClusterInvariant,
     ChangeMembersInvariant
<1>2. CASE Worker
  BY <1>2, StartSyncInvariant, CheckInvariant, DeleteMonitorInvariant, DeleteServiceInvariant,
     GetServiceInvariant, SyncServiceInvariant, GetEndpointsInvariant, SyncEndpointsInvariant,
     GetMonitorInvariant, SyncMonitorInvariant, RecordInvariant DEF Worker
<1>3. CASE Deliver \/ CollectService \/ CollectMonitor \/ ControlEndpoints \/ Restart \/ CalmDown
  BY <1>3, DeliverInvariant, CollectServiceInvariant, CollectMonitorInvariant,
     ControlEndpointsInvariant, RestartInvariant, CalmDownInvariant
<1>4. CASE UNCHANGED vars
  BY <1>4 DEF vars, IInv, TypeOK, UidInv, OrderInv
<1> QED
  BY <1>1, <1>2, <1>3, <1>4 DEF Next

\* The inductive invariant holds in every state.
LEMMA Invariant == Spec => []IInv
BY InitInvariant, NextInvariant, PTL DEF Spec

\* Wherever Sync and the clean-up fail or crash, every variable keeps its type, the worker
\* creates nothing that is there, and the ServiceMonitor of the first cluster of a name
\* has its Service.
THEOREM MonitorKeepsItsService == Spec => []Inv
<1>1. IInv => Inv
  BY DEF IInv, OrderInv, Inv, MonitorHasService
<1> QED
  BY <1>1, Invariant, PTL

\* A status "disabled" is recorded over a name whose Service and ServiceMonitor are both
\* deleted, whatever failed in the clean-up before (prometheus.go:588-615).
THEOREM DisabledMeansClean == Spec => DisabledIsClean
<1>1. ASSUME IInv, [Next]_vars, cluster'.status = "disabled", cluster.status # "disabled"
      PROVE  ~ service.there /\ ~ monitor.there
  <2>1. NoCluster.status # "disabled"
    BY DEF NoCluster
  <2>2. CASE Record
    <3>1. pc = "record" /\ obj.status = "disabled"
      BY <1>1, <2>2 DEF Record, IInv, TypeOK, Clusters
    <3> QED
      BY <1>1, <3>1 DEF IInv, OrderInv
  <2>3. CASE UNCHANGED cluster
    BY <1>1, <2>3
  <2>4. CASE CreateCluster \/ ToggleGate \/ DeleteCluster
    <3>1. cluster'.status \in {cluster.status, NoCluster.status}
      BY <1>1, <2>4 DEF CreateCluster, ToggleGate, DeleteCluster, IInv, TypeOK, Clusters,
         NoCluster
    <3> QED
      BY <1>1, <2>1, <3>1
  <2>5. CASE Worker
    <3>1. Record \/ UNCHANGED cluster
      BY <2>5 DEF Worker, StartSync, CheckMonitor, CheckService, DeleteMonitor, DeleteService,
         GetService, SyncService, GetEndpoints, SyncEndpoints, GetMonitor, SyncMonitor
    <3> QED
      BY <2>2, <2>3, <3>1
  <2>6. CASE \/ ChangeMembers \/ Deliver \/ CollectService \/ CollectMonitor
             \/ ControlEndpoints \/ Restart \/ CalmDown \/ UNCHANGED vars
    <3>1. UNCHANGED cluster
      BY <2>6 DEF vars, ChangeMembers, Deliver, CollectService, CollectMonitor,
         ControlEndpoints, Restart, CalmDown
    <3> QED
      BY <2>3, <3>1
  <2> QED
    BY <1>1, <2>4, <2>5, <2>6 DEF Next
<1>2. IInv /\ [Next]_vars =>
        [cluster'.status = "disabled" /\ cluster.status # "disabled" =>
           ~ service.there /\ ~ monitor.there]_vars
  BY <1>1
<1> QED
  BY <1>2, Invariant, PTL DEF Spec, DisabledIsClean
=============================================================================
