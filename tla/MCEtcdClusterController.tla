---------------------- MODULE MCEtcdClusterController ----------------------
(* Instances of EtcdClusterController for TLC. *)
EXTENDS EtcdClusterProperties, TLC

CONSTANTS f1, f2, r1, r2

\* Every edit scales the cluster: from one member to two and back.
MCSizeOf == [s \in Specs |-> 1 + (s % 2)]
MCViewOf == [s \in Specs |-> s]
=============================================================================
