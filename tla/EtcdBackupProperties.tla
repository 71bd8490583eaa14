------------------------ MODULE EtcdBackupProperties ------------------------
(***************************************************************************)
(* What kstone and the backup operator promise each other about the backup *)
(* of one etcd cluster.                                                    *)
(***************************************************************************)
EXTENDS EtcdBackup

\* Every variable stays in its type; an EtcdBackup that is being deleted has its
\* finalizer, since without one it is gone.
TypeOK ==
  /\ want \in [gate : BOOLEAN, spec : Specs] /\ created \in Uids
  /\ bak \in Backups /\ (bak.deleting => bak.fin)
  /\ current \subseteq Holders
  /\ kpc \in {"idle", "create", "version", "replace", "clean", "record", "recordDisabled"}
  /\ kspec \in Specs /\ kfresh \in BOOLEAN /\ disabled \in BOOLEAN
  /\ cache \in Backups /\ watch \in Seq(Backups)
  /\ dirty \in BOOLEAN /\ delayed \in BOOLEAN /\ retries \in 0 .. MaxRetries
  /\ pc \in {"idle", "addFinalizer", "removeFinalizer", "oneShot", "report"}
  /\ eb \in Backups /\ (shared => pc \in {"oneShot", "report"} /\ eb = cache)
  /\ store \in [Uids -> 0 .. MaxRunners]
  /\ runners \in [RunnerIds -> Runners]
  /\ made \subseteq [uid : Uids, spec : Specs]
  /\ calm \in BOOLEAN

Active(i) == runners[i].at # "none" /\ ~ runners[i].cancelled

\* A runner that is not cancelled is the one backupRunnerStore holds for its
\* EtcdBackup, so it can be stopped, and an EtcdBackup never has two of them.
ActiveRunnersStored == \A i \in RunnerIds : Active(i) => store[runners[i].uid] = i

\* Status "succeeded" is only found on an EtcdBackup whose very specification was
\* backed up, although it is written long after the copy it goes with was read, and
\* kstone replaces the specification at any time.
StatusHonest ==
  bak.status = "ok" => [uid |-> bak.uid, spec |-> bak.spec] \in made

\* The operator writes whole EtcdBackups to change a finalizer or a status: none of its
\* writes takes back a specification kstone wrote, or a deletion, or brings back an
\* EtcdBackup that is gone.
OperatorKeepsSpec ==
  [][kpc' = kpc /\ bak' # bak =>
       \/ bak'.uid = 0
       \/ bak'.uid = bak.uid /\ bak'.spec = bak.spec /\ bak'.deleting = bak.deleting]_vars

\* A one-shot backup is made once: "don't process the CR if it has a status since having
\* a status means that the backup is either made or failed" (sync.go:81-82).
OneShotOnce ==
  [][pc = "oneShot" /\ pc' = "report" => [uid |-> eb.uid, spec |-> eb.spec] \notin made]_vars

\* A backup is recorded as disabled only when its EtcdBackup is gone, or is being deleted
\* and waits for the operator: from then on nobody looks (backup.go:66-75 of the provider).
DisabledBackupDeleted ==
  [][disabled' /\ ~ disabled => bak.uid = 0 \/ bak.deleting]_vars

-----------------------------------------------------------------------------
(* Liveness, once edits and faults have stopped *)

\* An enabled periodic backup has, in the end, its EtcdBackup with the wanted
\* configuration and a running runner started with it.
EnabledBackupRuns ==
  [](calm => <>[](want.gate /\ want.spec \in Periodic =>
       /\ bak.uid # 0 /\ ~ bak.deleting /\ bak.spec = want.spec
       /\ \E i \in RunnerIds :
            Active(i) /\ runners[i].uid = bak.uid /\ runners[i].spec = want.spec))

\* A disabled backup has, in the end, no EtcdBackup, unless the status says "disabled" from
\* an earlier time: then an EtcdBackup made since, by a reconcile whose status was lost,
\* stays (backup.go:68 of the provider).
DisabledBackupGone == [](calm /\ ~ disabled => <>[](~ want.gate => bak.uid = 0))

\* The EtcdBackup and its runner follow the gate of the backup feature (backup.go:66-100 of
\* the provider, sync.go:75-125 of the operator).
BackupFollowsGate == EnabledBackupRuns /\ DisabledBackupGone

\* The runner of an EtcdBackup that is gone stops: "Could not find EtcdBackup. Stopping
\* periodic backup for EtcdBackup CR" (sync.go:186).
RunnersEnd ==
  [](calm => <>[](\A i \in RunnerIds : Active(i) => runners[i].uid = bak.uid))
=============================================================================
