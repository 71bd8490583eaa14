-------------------------- MODULE PrometheusMonitor --------------------------
(***************************************************************************)
(* The monitor feature of one EtcdCluster name (pkg/monitor/prometheus.go, *)
(* pkg/featureprovider/providers/monitor): the Service, Endpoints and      *)
(* ServiceMonitor that make Prometheus scrape the members.  Each call of   *)
(* Equal and Sync to the API server is an action, since the cluster, its   *)
(* members, the garbage collector and the endpoints controller of          *)
(* Kubernetes go on between two of them.                                   *)
(*                                                                         *)
(* Only this worker and those controllers write the three resources, so an *)
(* Update between whose Get and Put the resource stayed succeeds.          *)
(***************************************************************************)
EXTENDS Integers, Sequences, SequencesExt

CONSTANTS
  Lists,        \* type -> the lists of members an etcd of the type may have, in its order
  Types,        \* the types of the EtcdClusters created under the name (bound)
  Faults        \* which disturbances may happen, see FaultKinds

FaultKinds == {"api", "crash", "delete"}

\* A member is where it is reached: its host and port.
ASSUME MonitorAssumption ==
  /\ \A type \in DOMAIN Lists : \A ms \in Lists[type] : ms # << >>
  /\ Types \in Seq(DOMAIN Lists)
  /\ Faults \subseteq FaultKinds

VARIABLES
  cluster,   \* the EtcdCluster in the API server
  created,   \* uid of the last one created
  etcd,      \* its members
  cached,    \* the EtcdCluster in the informer cache
  pc,        \* where the worker is in the feature
  obj,       \* of its copy of the EtcdCluster: uid, the members it was told, the new status
  fresh,     \* that copy has the current resourceVersion
  found,     \* the last Get found the resource
  service,   \* the Service, Endpoints and ServiceMonitor of the name
  endpoints,
  monitor,
  changed,   \* the endpoints controller has the Service to look at
  calm       \* the user and the faults have stopped

workVars == <<pc, obj, fresh, found>>
vars == <<cluster, created, etcd, cached, pc, obj, fresh, found, service, endpoints, monitor,
          changed, calm>>

May(fault) == fault \in Faults /\ ~ calm

Uids     == 0 .. Len(Types)     \* 0: no object; otherwise the place in Types
Statuses == {"", "enabled", "disabled", "failed"}
Clusters == [uid : Uids, gate : BOOLEAN, status : Statuses]

NoCluster == [uid |-> 0, gate |-> FALSE, status |-> ""]
NoWork    == [uid |-> 0, members |-> << >>, status |-> ""]

\* What the three hold apart from constants; owner: the uid of the owner reference.
NoService   == [there |-> FALSE, ports |-> << >>, selector |-> FALSE, owner |-> 0]
NoEndpoints == [there |-> FALSE, subsets |-> {}]
NoMonitor   == [there |-> FALSE, ports |-> << >>, owner |-> 0]

TypeIs(type, uid) == uid # 0 /\ Types[uid] = type

Init ==
  /\ cluster = NoCluster /\ created = 0 /\ etcd = << >>
  /\ cached = NoCluster
  /\ pc = "idle" /\ obj = NoWork /\ fresh = FALSE /\ found = FALSE
  /\ service = NoService /\ endpoints = NoEndpoints /\ monitor = NoMonitor
  /\ changed = FALSE /\ calm = FALSE

-----------------------------------------------------------------------------
(* What the worker wants *)

\* initEtcdSvc: a port per member, named for its host; of members with one host that
\* follow each other only the first.
Ports(ms) ==
  FoldLeft(LAMBDA ps, m : IF ps # << >> /\ Last(ps).name = m.host THEN ps
                          ELSE Append(ps, [name |-> m.host, target |-> m.port]),
           << >>, ms)

\* Mutant of ServiceOf: the owner reference is left out.
ServiceWithoutOwner(o) ==
  [there |-> TRUE, ports |-> Ports(o.members), selector |-> TypeIs("kstone", o.uid),
   owner |-> 0]

ServiceOf(o) ==
  [there |-> TRUE, ports |-> Ports(o.members), selector |-> TypeIs("kstone", o.uid),
   owner |-> o.uid]

\* initEtcdEndpoint, for an imported cluster; it sets no owner reference.
EndpointsOf(o) ==
  [there |-> TRUE,
   subsets |-> {[name |-> m.host, host |-> m.host, port |-> m.port] : m \in Range(o.members)}]

\* initEtcdServiceMonitor: an endpoint per member, by the name of its port.
MonitorOf(o) ==
  [there |-> TRUE, ports |-> [i \in DOMAIN o.members |-> o.members[i].host],
   owner |-> o.uid]

\* ServiceMonitorIsEquivalent: the owner is not compared.
MonitorIsEquivalent == monitor.ports = MonitorOf(obj).ports

\* The API server refuses a Service with two ports of one name.
Accepted(ports) == \A i, j \in DOMAIN ports : ports[i].name = ports[j].name => i = j

-----------------------------------------------------------------------------
(* The user and etcd *)

UserFrame == UNCHANGED <<cached, pc, obj, found, service, endpoints, monitor, calm>>

CreateCluster ==
  /\ ~ calm /\ cluster.uid = 0 /\ created < Len(Types)
  /\ created' = created + 1
  /\ \E gate \in BOOLEAN : cluster' = [NoCluster EXCEPT !.uid = created + 1, !.gate = gate]
  /\ etcd' \in Lists[Types[created + 1]]
  /\ fresh' = FALSE /\ UNCHANGED changed /\ UserFrame

ToggleGate ==
  /\ ~ calm /\ cluster.uid # 0
  /\ cluster' = [cluster EXCEPT !.gate = ~ @]
  /\ fresh' = FALSE /\ UNCHANGED <<created, etcd, changed>> /\ UserFrame

DeleteCluster ==
  /\ May("delete") /\ cluster.uid # 0
  /\ cluster' = NoCluster
  /\ fresh' = FALSE /\ UNCHANGED <<created, etcd, changed>> /\ UserFrame

\* Members come and go, and pods with them.
ChangeMembers ==
  /\ ~ calm /\ cluster.uid # 0
  /\ etcd' \in Lists[Types[cluster.uid]] \ {etcd}
  /\ changed' = (changed \/ service.selector)
  /\ UNCHANGED <<cluster, created, fresh>> /\ UserFrame

-----------------------------------------------------------------------------
(* The worker in handleClusterFeature *)

WorkFrame == UNCHANGED <<created, etcd, cached, calm>>
NoWrite   == UNCHANGED <<service, endpoints, monitor, changed>>

PutService(s) ==
  /\ service' = s /\ changed' = (changed \/ s # service)
  /\ UNCHANGED <<endpoints, monitor>>

Goto(label) == pc' = label /\ UNCHANGED <<obj, fresh>>

\* The end of Sync: the status is set in memory.
Finish(status) ==
  /\ pc' = "record" /\ found' = FALSE /\ UNCHANGED fresh
  /\ obj' = [NoWork EXCEPT !.status = status]

\* A call that fails; its effect may have happened all the same.
Fails(effect) ==
  /\ May("api") /\ (effect \/ NoWrite)
  /\ Finish("failed")

\* The feature's turn in a reconcile of a Running cluster.  Equal of an open gate is
\* never true: it compares the labels with an empty map, and handleClusterLabels has
\* set some.  Equal of a closed one believes the recorded status.
StartSync ==
  /\ pc = "idle" /\ cached.uid # 0
  /\ cached.gate \/ cached.status # "disabled"
  /\ pc' = IF cached.gate THEN "getService" ELSE "checkMonitor"
  /\ obj' = IF cached.gate THEN [NoWork EXCEPT !.uid = cached.uid, !.members = etcd] ELSE NoWork
  /\ fresh' = (cached = cluster)
  /\ UNCHANGED <<cluster, found>> /\ NoWrite /\ WorkFrame

Leave == pc' = "idle" /\ obj' = NoWork /\ fresh' = FALSE

\* CheckEqualIfDisabled: both have to be NotFound.
CheckMonitor ==
  /\ pc = "checkMonitor"
  /\ \/ ~ monitor.there /\ Goto("checkService")
     \/ (monitor.there \/ May("api")) /\ Goto("deleteMonitor")
  /\ UNCHANGED <<cluster, found>> /\ NoWrite /\ WorkFrame

CheckService ==
  /\ pc = "checkService"
  /\ \/ ~ service.there /\ Leave
     \/ (service.there \/ May("api")) /\ Goto("deleteMonitor")
  /\ UNCHANGED <<cluster, found>> /\ NoWrite /\ WorkFrame

\* Mutant of DeleteMonitor: an error does not end the clean-up.
DeleteMonitorCarryOn ==
  /\ pc = "deleteMonitor"
  /\ Goto("deleteService") /\ UNCHANGED <<found, service, endpoints, changed>>
  /\ monitor' = NoMonitor \/ (May("api") /\ UNCHANGED monitor)
  /\ UNCHANGED cluster /\ WorkFrame

\* CleanPrometheusMonitor; NotFound is a success.
DeleteMonitor ==
  /\ pc = "deleteMonitor"
  /\ LET delete == monitor' = NoMonitor /\ UNCHANGED <<service, endpoints, changed>>
     IN  \/ delete /\ Goto("deleteService") /\ UNCHANGED found
         \/ Fails(delete)
  /\ UNCHANGED cluster /\ WorkFrame

DeleteService ==
  /\ pc = "deleteService"
  /\ (PutService(NoService) /\ Finish("disabled")) \/ Fails(PutService(NoService))
  /\ UNCHANGED cluster /\ WorkFrame

\* A Get of SyncPrometheusMonitor.
Get(there, next) ==
  \/ found' = there /\ Goto(next)
  \/ May("api") /\ Finish("failed")

\* A Create, after a Get that found nothing, or an Update of what was found.
Put(there, accepted, write, next) ==
  \/ /\ found = there /\ accepted /\ write
     /\ next
  \/ (found # there \/ ~ accepted) /\ NoWrite /\ Finish("failed")
  \/ accepted /\ found = there /\ Fails(write)

GetService ==
  /\ pc = "getService" /\ Get(service.there, "putService")
  /\ UNCHANGED cluster /\ NoWrite /\ WorkFrame

AfterService == IF TypeIs("imported", obj.uid) THEN "getEndpoints" ELSE "getMonitor"

\* Mutant of SyncService: an error of the call is dropped.
SyncServiceCarryOn ==
  /\ pc = "putService" /\ Goto(AfterService) /\ found' = FALSE
  /\ \/ found = service.there /\ Accepted(ServiceOf(obj).ports) /\ PutService(ServiceOf(obj))
     \/ (found # service.there \/ May("api")) /\ NoWrite
  /\ UNCHANGED cluster /\ WorkFrame

\* The Service found is never equivalent, for its specification has defaults.
SyncService ==
  /\ pc = "putService"
  /\ Put(service.there, Accepted(ServiceOf(obj).ports), PutService(ServiceOf(obj)),
         Goto(AfterService) /\ found' = FALSE)
  /\ UNCHANGED cluster /\ WorkFrame

GetEndpoints ==
  /\ pc = "getEndpoints" /\ Get(endpoints.there, "putEndpoints")
  /\ UNCHANGED cluster /\ NoWrite /\ WorkFrame

\* Mutant of SyncEndpoints: Endpoints that are there are left alone.
SyncEndpointsMissing ==
  /\ pc = "putEndpoints" /\ Goto("getMonitor") /\ found' = FALSE
  /\ IF endpoints.there THEN NoWrite
     ELSE endpoints' = EndpointsOf(obj) /\ UNCHANGED <<service, monitor, changed>>
  /\ UNCHANGED cluster /\ WorkFrame

\* Only what differs is written: a write of the same changes nothing.
SyncEndpoints ==
  /\ pc = "putEndpoints"
  /\ Put(endpoints.there, TRUE,
         endpoints' = EndpointsOf(obj) /\ UNCHANGED <<service, monitor, changed>>,
         Goto("getMonitor") /\ found' = FALSE)
  /\ UNCHANGED cluster /\ WorkFrame

\* An equivalent ServiceMonitor is left as it is.
GetMonitor ==
  /\ pc = "getMonitor"
  /\ \/ ~ (monitor.there /\ MonitorIsEquivalent) /\ Get(monitor.there, "putMonitor")
     \/ monitor.there /\ MonitorIsEquivalent /\ Finish("enabled")
     \/ May("api") /\ Finish("failed")
  /\ UNCHANGED cluster /\ NoWrite /\ WorkFrame

SyncMonitor ==
  /\ pc = "putMonitor"
  /\ Put(monitor.there, TRUE,
         monitor' = MonitorOf(obj) /\ UNCHANGED <<service, endpoints, changed>>,
         Finish("enabled"))
  /\ UNCHANGED cluster /\ WorkFrame

\* The Update at the end of handleClusterFeature carries the whole EtcdCluster the
\* worker started from, and is refused if that has changed.
Record ==
  /\ pc = "record" /\ Leave /\ UNCHANGED found
  /\ \/ fresh /\ cluster' = [cluster EXCEPT !.status = obj.status]
     \/ (~ fresh \/ May("api")) /\ UNCHANGED cluster
  /\ NoWrite /\ WorkFrame

Worker ==
  \/ StartSync \/ CheckMonitor \/ CheckService \/ DeleteMonitor \/ DeleteService
  \/ GetService \/ SyncService \/ GetEndpoints \/ SyncEndpoints
  \/ GetMonitor \/ SyncMonitor \/ Record

-----------------------------------------------------------------------------
(* The informer, Kubernetes' controllers, and the faults *)

Deliver ==
  /\ cached # cluster /\ cached' = cluster
  /\ UNCHANGED <<cluster, created, etcd, workVars, service, endpoints, monitor, changed, calm>>

\* The garbage collector deletes what has an owner that is gone.
Orphan(o) == o.there /\ o.owner # 0 /\ o.owner # cluster.uid

CollectService ==
  /\ Orphan(service) /\ PutService(NoService)
  /\ UNCHANGED <<cluster, created, etcd, cached, workVars, calm>>

CollectMonitor ==
  /\ Orphan(monitor) /\ monitor' = NoMonitor
  /\ UNCHANGED <<cluster, created, etcd, cached, workVars, service, endpoints, changed, calm>>

\* The Endpoints of a Service with a selector are its ports at each pod; those of a
\* Service that is gone are deleted; all others are left alone.
ControlEndpoints ==
  /\ changed /\ changed' = FALSE
  /\ endpoints' =
       IF ~ service.there THEN NoEndpoints
       ELSE IF ~ service.selector THEN endpoints
       ELSE [there |-> TRUE,
             subsets |-> {[name |-> p.name, host |-> m.host, port |-> p.target] :
                            p \in Range(service.ports),
                            m \in IF TypeIs("kstone", cluster.uid) THEN Range(etcd) ELSE {}}]
  /\ UNCHANGED <<cluster, created, etcd, cached, workVars, service, monitor, calm>>

\* The controller's process ends and lists anew.
Restart ==
  /\ May("crash") /\ pc # "idle"
  /\ Leave /\ found' = FALSE /\ cached' = cluster
  /\ UNCHANGED <<cluster, created, etcd, service, endpoints, monitor, changed, calm>>

CalmDown ==
  /\ ~ calm /\ calm' = TRUE
  /\ UNCHANGED <<cluster, created, etcd, cached, workVars, service, endpoints, monitor, changed>>

Next ==
  \/ CreateCluster \/ ToggleGate \/ DeleteCluster \/ ChangeMembers
  \/ Worker \/ Deliver
  \/ CollectService \/ CollectMonitor \/ ControlEndpoints
  \/ Restart \/ CalmDown

\* The worker and the controllers run; every reconcile comes again with the resync.
Fairness ==
  /\ WF_vars(Worker) /\ WF_vars(Deliver)
  /\ WF_vars(CollectService) /\ WF_vars(CollectMonitor) /\ WF_vars(ControlEndpoints)

Spec     == Init /\ [][Next]_vars
FairSpec == Spec /\ Fairness

-----------------------------------------------------------------------------
(* Properties *)

\* Every variable stays in its type, and the worker creates nothing that is there: what
\* a Get did not find nobody else creates before the Create.
TypeOK ==
  /\ cluster \in Clusters /\ cached \in Clusters /\ created \in Uids
  /\ etcd \in (UNION Range(Lists)) \cup {<< >>} /\ obj.uid \in Uids /\ obj.status \in Statuses
  /\ fresh \in BOOLEAN /\ found \in BOOLEAN /\ changed \in BOOLEAN /\ calm \in BOOLEAN
  /\ service.owner \in Uids /\ monitor.owner \in Uids
  /\ {service.there, endpoints.there, monitor.there} \subseteq BOOLEAN
  /\ pc = "putService" /\ service.there => found
  /\ pc = "putMonitor" /\ monitor.there => found

\* Sync makes the Service first and the ServiceMonitor last, the clean-up goes the other
\* way: wherever they fail or crash, no ServiceMonitor is left without its Service
\* while the cluster exists.  (Before a deletion: the garbage collector has no order.)
MonitorHasService ==
  cluster.uid = 1 => (monitor.there => service.there)

\* The invariant of the monitor: types, and the order of Service and ServiceMonitor
\* (prometheus.go:522-615).
Inv == TypeOK /\ MonitorHasService

\* "disabled" is recorded only when neither the Service nor the ServiceMonitor is there,
\* although Sync deletes one after the other and may fail or crash between them.
DisabledIsClean ==
  [][cluster'.status = "disabled" /\ cluster.status # "disabled" =>
       ~ service.there /\ ~ monitor.there]_vars

\* Prometheus reaches a member by a port name the ServiceMonitor lists, which an
\* address in the Endpoints has.
Scraped(m) ==
  \E e \in endpoints.subsets :
    /\ e.host = m.host /\ e.port = m.port
    /\ e.name \in Range(monitor.ports)

\* Every member of a monitored cluster is scraped in the end, through resources of this
\* very cluster, unless its hosts alternate so that the Service is refused.
EveryMemberScraped ==
  [](calm => <>[](cluster.uid # 0 /\ cluster.gate /\ Accepted(Ports(etcd)) =>
       /\ service.there /\ service.owner = cluster.uid
       /\ monitor.there /\ monitor.owner = cluster.uid
       /\ \A m \in Range(etcd) : Scraped(m)))

\* Nothing Prometheus would follow is left of a deleted cluster, though the worker may
\* have been creating it meanwhile.
NothingLeftBehind ==
  [](calm => <>[](cluster.uid = 0 => ~ service.there /\ ~ monitor.there))
=============================================================================
