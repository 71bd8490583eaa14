---------------------------- MODULE EtcdCluster ----------------------------
(***************************************************************************)
(* The EtcdCluster resource (pkg/apis/kstone/v1alpha2/types.go) as the     *)
(* etcdcluster controller sees it, and the pure functions the controller   *)
(* computes on its status: the condition history, the action the history   *)
(* calls for, the labels and the status a provider derives from the        *)
(* members of the running etcd cluster.                                    *)
(*                                                                         *)
(* What is abstracted: a specification is the number of the user's edit    *)
(* that produced it, seen through SizeOf (the member count) and ViewOf     *)
(* (the fields provider.Equal compares: size, version, disk size,          *)
(* resources and environment); a member is its ordinal; the timestamps and *)
(* the Reason of a condition are left out.                                 *)
(***************************************************************************)
EXTENDS Integers, Sequences

CONSTANTS
  Imported,    \* spec.clusterType: TRUE = "imported", FALSE = "kstone-etcd-operator"
  LastSpec,    \* the user's specifications are numbered 0..LastSpec
  LastUid,     \* how many times the user creates the resource (bound)
  MaxSize,     \* largest member count (bound)
  SizeOf,      \* specification -> member count
  ViewOf,      \* specification -> the part of it that provider.Equal compares
  Features,    \* names of the registered feature providers
  Resynced,    \* features whose Equal never holds while they are enabled
  Resolvable   \* TRUE: kstone can reach a member at the URL etcd advertises

Specs == 0 .. LastSpec
Uids  == 0 .. LastUid          \* 0: no object

ASSUME BoundsAssumption ==
  /\ LastSpec \in Nat
  /\ LastUid \in Nat \ {0}
  /\ MaxSize \in Nat \ {0}

ASSUME ClusterAssumption ==
  /\ Imported \in BOOLEAN
  /\ Resolvable \in BOOLEAN
  /\ SizeOf \in [Specs -> 1 .. MaxSize]
  /\ \A s, t \in Specs : ViewOf[s] = ViewOf[t] => SizeOf[s] = SizeOf[t]
  /\ Resynced \subseteq Features

Phases     == {"", "Creating", "Updating", "Running", "UnHealthy", "Unknown"}
Conditions == [type : {"Create", "Update"}, status : {"True", "False"}]
GateStates == {"", "enabled", "disabled", "failed"}
Members    == [n : 0 .. MaxSize, sick : SUBSET (0 .. MaxSize - 1)]
Labels     == [set : BOOLEAN, spec : Specs, gates : SUBSET Features]

(***************************************************************************)
(* gates: the features whose gate the "featureGates" annotation opens;     *)
(* addr: the "importedAddr" annotation is there; ext: how many members the *)
(* "extClientURL" annotation maps to a reachable URL; members: what the    *)
(* last status call saw; svc: status.serviceName is set; fgs:              *)
(* status.featureGatesStatus.                                              *)
(***************************************************************************)
Objects ==
  [ uid : Uids, spec : Specs, gates : SUBSET Features, addr : BOOLEAN,
    ext : 0 .. MaxSize, labels : Labels, conds : Seq(Conditions),
    phase : Phases, members : Members, svc : BOOLEAN,
    fgs : [Features -> GateStates] ]

NoLabels  == [set |-> FALSE, spec |-> 0, gates |-> {}]
NoMembers == [n |-> 0, sick |-> {}]

\* The resource the user submits: no status, and for an imported cluster the
\* annotations that say where it is.
NewObject(u, g, l, a) ==
  [ uid |-> u, spec |-> 0, gates |-> g, addr |-> a,
    ext |-> IF a THEN MaxSize ELSE 0,
    labels |-> [NoLabels EXCEPT !.set = l], conds |-> << >>, phase |-> "",
    members |-> NoMembers, svc |-> FALSE, fgs |-> [f \in Features |-> ""] ]

NoObject == NewObject(0, {}, FALSE, FALSE)

-----------------------------------------------------------------------------
(* The condition history *)

LastOf(conds) == conds[Len(conds)]

Unfinished(conds, t) ==
  conds # << >> /\ LastOf(conds) = [type |-> t, status |-> "False"]

\* Mutant of MustCreate: a resource without conditions is not created.
MustCreateUnfinished(conds) == Unfinished(conds, "Create")

\* getDesiredAction before it asks the provider.
MustCreate(conds) == conds = << >> \/ Unfinished(conds, "Create")
MustUpdate(conds) == Unfinished(conds, "Update")

Pending(t)   == [type |-> t, status |-> "False"]
Completed(t) == [type |-> t, status |-> "True"]

\* Mutant of GenerateConditions: a finished condition of the type is not replaced.
GenerateConditionsAppending(conds, t) ==
  IF conds # << >> /\ LastOf(conds).status # "True" THEN conds
  ELSE Append(conds, Pending(t))

\* generateConditions: an unfinished condition is kept; a finished one of the
\* same type is replaced, one of another type is kept as history.
GenerateConditions(conds, t) ==
  IF conds # << >> /\ LastOf(conds).status # "True" THEN conds
  ELSE IF conds # << >> /\ LastOf(conds).type = t
       THEN [conds EXCEPT ![Len(conds)] = Pending(t)]
       ELSE Append(conds, Pending(t))

CompleteLast(conds) == [conds EXCEPT ![Len(conds)].status = "True"]

\* The histories generateConditions and the two handlers can leave behind.
Histories ==
  { << >>,
    << Pending("Create") >>,
    << Completed("Create") >>,
    << Completed("Create"), Pending("Update") >>,
    << Completed("Create"), Completed("Update") >> }

\* The phases only provider.Status assigns belong to a finished history.
ObservedPhase(o) ==
  o.phase \in {"Running", "UnHealthy", "Unknown"} =>
    o.conds # << >> /\ LastOf(o.conds).status = "True"

-----------------------------------------------------------------------------
(* The runtime members (GetStorageMemberEndpoints, GetRuntimeEtcdMembers,  *)
(* GetEtcdClusterMemberStatus)                                             *)

Reachable(o, m) == Resolvable \/ m < o.ext

\* The client connects when one of its endpoints leads to a live member: the
\* recorded members, or the service address when none is recorded.
Connects(o, etcd) ==
  /\ etcd.n > 0
  /\ \/ o.members.n = 0
     \/ \E m \in 0 .. o.members.n - 1 : m < etcd.n /\ Reachable(o, m)

\* The members the cluster lists, each healthy or not as kstone probes it.
Observed(o, etcd) ==
  [n |-> etcd.n,
   sick |-> {m \in 0 .. etcd.n - 1 : m \in etcd.sick \/ ~ Reachable(o, m)}]

HealthPhase(ms) == IF ms.sick = {} THEN "Running" ELSE "UnHealthy"

NoEndpoint(o) == o.members.n = 0 /\ ~ o.addr

\* status.serviceName is assigned whenever the annotation supplies the endpoint.
WithService(o) == IF o.members.n = 0 THEN [o EXCEPT !.svc = TRUE] ELSE o

\* EtcdClusterKstone.Status: the members do not answer, or not all of them.
KstoneStatusIncomplete(o) ==
  IF NoEndpoint(o) THEN [o EXCEPT !.phase = "Creating"]
  ELSE IF o.phase = "Running" THEN [WithService(o) EXCEPT !.phase = "Unknown"]
       ELSE WithService(o)

\* EtcdClusterImported.Status: the members cannot be listed.
ImportedStatusIncomplete(o) ==
  IF NoEndpoint(o) THEN [o EXCEPT !.phase = "Unknown"]
  ELSE [WithService(o) EXCEPT !.phase = "Unknown"]

\* Mutant of StatusComplete: the phase moves only while it is Running already
\* (&& for ||).
StatusCompleteIfRunning(o, etcd) ==
  LET seen == Observed(o, etcd)
  IN  [WithService(o) EXCEPT !.members = seen,
         !.phase = IF @ = "Running" THEN HealthPhase(seen) ELSE @]

\* Both: the members are listed and probed.
StatusComplete(o, etcd) ==
  LET seen == Observed(o, etcd)
  IN  [WithService(o) EXCEPT !.members = seen, !.phase = HealthPhase(seen)]

\* Mutant of Status: the number of members is not compared with spec.size.
StatusOfAnySize(o, etcd) ==
  IF NoEndpoint(o) \/ ~ Connects(o, etcd)
  THEN IF Imported THEN ImportedStatusIncomplete(o) ELSE KstoneStatusIncomplete(o)
  ELSE StatusComplete(o, etcd)

\* The status the provider returns when no call fails.
Status(o, etcd) ==
  IF NoEndpoint(o) \/ ~ Connects(o, etcd) \/ (~ Imported /\ etcd.n # SizeOf[o.spec])
  THEN IF Imported THEN ImportedStatusIncomplete(o) ELSE KstoneStatusIncomplete(o)
  ELSE StatusComplete(o, etcd)

\* The status it returns when a call to etcd fails.
StatusOnError(o) ==
  IF Imported THEN ImportedStatusIncomplete(o) ELSE KstoneStatusIncomplete(o)

-----------------------------------------------------------------------------
(* Annotations and labels *)

\* Mutant of AfterCreate: the loop runs one member too far.
AfterCreateOneMore(o) ==
  IF Imported THEN o ELSE [o EXCEPT !.addr = TRUE, !.ext = SizeOf[o.spec] + 1]

\* EtcdClusterKstone.AfterCreate: the address and one mapping per member of the
\* specification of that moment; AfterUpdate writes nothing.
AfterCreate(o) ==
  IF Imported THEN o ELSE [o EXCEPT !.addr = TRUE, !.ext = SizeOf[o.spec]]

DesiredLabels(o) == [set |-> TRUE, spec |-> o.spec, gates |-> o.gates]
=============================================================================
