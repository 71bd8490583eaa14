-------------------------- MODULE ClusterLifecycle --------------------------
(***************************************************************************)
(* What the etcdcluster controller promises about one cluster, without     *)
(* caches, queues, conflicts or crashes: the specification the user wants, *)
(* the one the etcd operator was given, and how far the recorded condition *)
(* history says the cluster has come.                                      *)
(*                                                                         *)
(* The operator's resource is created once, before the creation is         *)
(* recorded as complete, is given newer specifications only, and an update *)
(* is recorded as complete only while the operator has exactly the         *)
(* specification the resource holds at that moment.                        *)
(***************************************************************************)
EXTENDS Integers

CONSTANT LastSpec    \* specifications are numbered 0..LastSpec

VARIABLES
  desired,    \* the specification in the EtcdCluster, -1: no EtcdCluster
  deployed,   \* the one in the operator's resource, -1: no such resource
  stage       \* what the condition history records

lifecycleVars == <<desired, deployed, stage>>

Stages == {"absent", "new", "creating", "created", "updating", "updated"}

LifecycleInit == desired = -1 /\ deployed = -1 /\ stage = "absent"

Submit ==
  /\ stage = "absent"
  /\ desired' = 0 /\ stage' = "new"
  /\ UNCHANGED deployed

Edit ==
  /\ stage # "absent" /\ desired < LastSpec
  /\ desired' = desired + 1
  /\ UNCHANGED <<deployed, stage>>

DeployFirst ==
  /\ stage \in {"new", "creating"} /\ deployed = -1
  /\ deployed' \in 0 .. desired
  /\ UNCHANGED <<desired, stage>>

Redeploy ==
  /\ stage \in {"created", "updating", "updated"}
  /\ deployed' \in deployed .. desired
  /\ UNCHANGED <<desired, stage>>

RecordCreate ==
  /\ stage \in {"new", "creating"}
  /\ \/ stage' = "creating"
     \/ stage' = "created" /\ deployed # -1
  /\ UNCHANGED <<desired, deployed>>

RecordUpdate ==
  /\ stage \in {"created", "updating", "updated"}
  /\ \/ stage' = "updating"
     \/ stage' = "updated" /\ deployed = desired
  /\ UNCHANGED <<desired, deployed>>

LifecycleNext ==
  Submit \/ Edit \/ DeployFirst \/ Redeploy \/ RecordCreate \/ RecordUpdate

LifecycleSpec == LifecycleInit /\ [][LifecycleNext]_lifecycleVars
=============================================================================
