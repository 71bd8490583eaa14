--------------------------- MODULE MemberMetrics ---------------------------
(***************************************************************************)
(* The alarm and the healthy inspection (pkg/inspection/alarm.go,          *)
(* healthy.go): each reads the EtcdCluster, asks etcd, and sets a gauge    *)
(* for each listed member.  The gauge has the member's host for a label,   *)
(* without the port, so members on one host share it.  The list is the one *)
(* the EtcdCluster has at the start; members come and go meanwhile, and a  *)
(* gauge no listed member has any more is never touched again.             *)
(***************************************************************************)
EXTENDS Integers, FiniteSets

CONSTANTS
  Nodes,        \* the members etcd may have
  HostOf,       \* [Nodes -> hosts], MemberStatus.Endpoint
  MaxTurns,     \* changes of alarms, health and membership (bound)
  MaxErrors     \* failing calls (bound)

ASSUME MetricsAssumption ==
  /\ HostOf = [m \in Nodes |-> HostOf[m]]
  /\ MaxTurns \in Nat /\ MaxErrors \in Nat

AlarmTypes == {"NOSPACE", "CORRUPT"}
Alarms == Nodes \X AlarmTypes

Hosts(list) == {HostOf[m] : m \in list}
AlarmLabels(list) == Hosts(list) \X AlarmTypes

VARIABLES
  listed,       \* cluster.Status.Members
  alarms,       \* the alarms that are raised
  healthy,      \* the members that answer /health with "true"
  turns, errors,
  at,           \* where the inspection is
  seen,         \* the list the running inspection has read
  left,         \* the members it has still to ask
  alarmGauge,   \* the hosts and types of alarm whose gauge is 1
  alarmZero,    \* those whose gauge is 0
  healthGauge   \* [hosts -> 0, 1, or -1 for none]

etcdVars == <<listed, alarms, healthy, turns>>
gaugeVars == <<alarmGauge, alarmZero, healthGauge>>
metricsVars == <<listed, alarms, healthy, turns, errors, at, seen, left, alarmGauge,
                 alarmZero, healthGauge>>

MetricsInit ==
  /\ listed = Nodes /\ alarms = {} /\ healthy = Nodes /\ turns = 0 /\ errors = 0
  /\ at = "idle" /\ seen = {} /\ left = {}
  /\ alarmGauge = {} /\ alarmZero = {} /\ healthGauge = [h \in Hosts(Nodes) |-> -1]

-----------------------------------------------------------------------------
(* etcd and the status of the EtcdCluster *)

Turn == turns < MaxTurns /\ turns' = turns + 1

Raise(a) ==
  /\ Turn /\ alarms' = alarms \cup {a}
  /\ UNCHANGED <<listed, healthy, errors, at, seen, left, gaugeVars>>

Disarm(a) ==
  /\ Turn /\ alarms' = alarms \ {a}
  /\ UNCHANGED <<listed, healthy, errors, at, seen, left, gaugeVars>>

Sicken(m) ==
  /\ Turn /\ healthy' = healthy \ {m}
  /\ UNCHANGED <<listed, alarms, errors, at, seen, left, gaugeVars>>

Recover(m) ==
  /\ Turn /\ healthy' = healthy \cup {m}
  /\ UNCHANGED <<listed, alarms, errors, at, seen, left, gaugeVars>>

\* The status of the EtcdCluster lists a member, or lists it no more.
Join(m) ==
  /\ Turn /\ listed' = listed \cup {m}
  /\ UNCHANGED <<alarms, healthy, errors, at, seen, left, gaugeVars>>

Leave(m) ==
  /\ Turn /\ listed' = listed \ {m}
  /\ UNCHANGED <<alarms, healthy, errors, at, seen, left, gaugeVars>>

-----------------------------------------------------------------------------
(* The inspections *)

\* GetEtcdClusterInfo; a failure is counted and ends the inspection.
Read(kind) ==
  /\ at = "idle"
  /\ \/ at' = kind /\ seen' = listed /\ left' = listed /\ UNCHANGED errors
     \/ errors < MaxErrors /\ errors' = errors + 1 /\ UNCHANGED <<at, seen, left>>
  /\ UNCHANGED <<etcdVars, gaugeVars>>

Done == at' = "idle" /\ seen' = {} /\ left' = {}

RaisedBy(list, raised) == {<<HostOf[a[1]], a[2]>> : a \in {b \in raised : b[1] \in list}}

\* Mutant of ClearedBy: a gauge once raised stays.
ClearedNever(list, raised) == {}

\* cleanAllAlarmMetrics is called for every listed member when no alarm is left.
ClearedBy(list, raised) == IF raised = {} THEN AlarmLabels(list) ELSE {}

\* GetEtcdAlarms, and the gauges of the members that were listed.
CollectAlarmList ==
  /\ at = "alarm"
  /\ \/ /\ alarmGauge' = (alarmGauge \ ClearedBy(seen, alarms)) \cup RaisedBy(seen, alarms)
        /\ alarmZero' = (alarmZero \ RaisedBy(seen, alarms)) \cup ClearedBy(seen, alarms)
        /\ UNCHANGED errors
     \/ errors < MaxErrors /\ errors' = errors + 1 /\ UNCHANGED <<alarmGauge, alarmZero>>
  /\ Done
  /\ UNCHANGED <<etcdVars, healthGauge>>

\* MemberHealthy: an error and an unhealthy answer both count as 0.
Probed(m, answers) == IF answers THEN 1 ELSE 0

\* The probe of one member, in the order of the list, which can be any; the ones before
\* have been recorded.
CollectMemberHealthy(m) ==
  /\ at = "healthy" /\ m \in left
  /\ \/ /\ healthGauge' = [healthGauge EXCEPT ![HostOf[m]] = Probed(m, m \in healthy)]
        /\ UNCHANGED errors
     \/ /\ errors < MaxErrors /\ errors' = errors + 1
        /\ healthGauge' = [healthGauge EXCEPT ![HostOf[m]] = Probed(m, FALSE)]
  /\ left' = left \ {m}
  /\ UNCHANGED <<etcdVars, at, seen, alarmGauge, alarmZero>>

HealthyDone ==
  /\ at = "healthy" /\ left = {}
  /\ Done
  /\ UNCHANGED <<etcdVars, errors, gaugeVars>>

AlarmStep   == Read("alarm") \/ CollectAlarmList
HealthyStep == Read("healthy") \/ HealthyDone \/ \E m \in Nodes : CollectMemberHealthy(m)

EtcdStep ==
  \/ \E a \in Alarms : Raise(a) \/ Disarm(a)
  \/ \E m \in Nodes : Sicken(m) \/ Recover(m) \/ Join(m) \/ Leave(m)
=============================================================================
