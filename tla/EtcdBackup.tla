----------------------------- MODULE EtcdBackup -----------------------------
(***************************************************************************)
(* The backup of one etcd cluster: the EtcdBackup resource that kstone's   *)
(* backup server (pkg/backup/backup.go) writes while the feature gate is   *)
(* open, and the backup operator deployed with it                          *)
(* (third_party/etcd-operator/pkg/controller/backup-operator), which       *)
(* starts a runner goroutine per periodic EtcdBackup and writes the same   *)
(* resource: its finalizer and its status.  Every write is an Update of    *)
(* the whole object.                                                       *)
(*                                                                         *)
(* An Update succeeds only for a copy with the current resourceVersion.    *)
(* current is the set of those who hold such a copy; a write empties it.   *)
(* A copy that is not current cannot be written, so of a runner's copy     *)
(* only what the backup itself depends on is kept.                         *)
(***************************************************************************)
EXTENDS Integers, Sequences

CONSTANTS
  LastSpec,     \* the user's backup configurations are numbered 0..LastSpec
  LastUid,      \* how many EtcdBackups are created (bound)
  Periodic,     \* configurations with a backup interval
  MaxRunners,   \* runner goroutines of one operator process (bound)
  MaxRetries,   \* maxRetries of the operator's work queue
  MaxLag,       \* events the operator's watch may lag behind (bound)
  Faults        \* which disturbances may happen, see FaultKinds

Specs     == 0 .. LastSpec
Uids      == 0 .. LastUid        \* 0: no object
RunnerIds == 1 .. MaxRunners

FaultKinds == {"api", "crash", "storage"}

ASSUME BackupAssumption ==
  /\ LastSpec \in Nat /\ LastUid \in Nat \ {0}
  /\ Periodic \subseteq Specs
  /\ MaxRunners \in Nat \ {0} /\ MaxRetries \in Nat /\ MaxLag \in Nat \ {0}
  /\ Faults \subseteq FaultKinds

VARIABLES
  want,      \* [gate, spec]: the feature gate and the configuration of the EtcdCluster
  created,   \* uid of the last EtcdBackup created
  bak,       \* the EtcdBackup in the API server
  current,   \* who holds a copy of bak with its resourceVersion
  kpc,       \* where the backup server is in Sync
  kspec,     \* the configuration it writes
  kfresh,    \* its copy of the EtcdCluster is the current one
  disabled,  \* the EtcdCluster's status says that the feature is disabled
  cache,     \* the operator's informer cache entry
  watch,     \* versions not yet delivered to it, oldest first
  dirty,     \* the key waits in the operator's work queue
  delayed,   \* the key waits in its rate limiter
  retries,   \* NumRequeues of the key
  pc,        \* where the operator's worker is in processItem
  eb,        \* the EtcdBackup it processes
  shared,    \* eb is, during a one-shot backup, still the object in the cache
  store,     \* backupRunnerStore: uid -> runner, 0: no entry
  runners,   \* the goroutines of periodicRunnerFunc
  made,      \* [uid, spec] of the EtcdBackups a backup was made for
  calm       \* the user and the faults have stopped

kstoneVars   == <<kpc, kspec, kfresh, disabled>>
queueVars    == <<dirty, delayed, retries>>
operatorVars == <<pc, eb, shared, store, runners>>
vars == <<want, created, bak, current, kpc, kspec, kfresh, disabled, cache, watch, dirty,
          delayed, retries, pc, eb, shared, store, runners, made, calm>>

May(fault) == fault \in Faults /\ ~ calm

Backups == [uid : Uids, spec : Specs, fin : BOOLEAN, deleting : BOOLEAN,
            status : {"", "ok", "failed"}]

\* fin: the finalizer "backup-operator-periodic"; status: "" for none.
NewBackup(u, s) == [uid |-> u, spec |-> s, fin |-> FALSE, deleting |-> FALSE, status |-> ""]
NoBackup == NewBackup(0, 0)

\* uid, spec: of the EtcdBackup it was started for; read: [uid, spec] of the one it
\* is backing up.
Runners == [at : {"none", "wait", "backup", "ok", "failed"}, uid : Uids, spec : Specs,
            cancelled : BOOLEAN, read : [uid : Uids, spec : Specs]]

Nothing  == [uid |-> 0, spec |-> 0]
NoRunner == [at |-> "none", uid |-> 0, spec |-> 0, cancelled |-> FALSE, read |-> Nothing]

\* Those who hold copies: kstone, the worker and the runners.
kstone  == 0
worker  == -1
Holders == {kstone, worker} \cup RunnerIds

Init ==
  /\ want = [gate |-> FALSE, spec |-> 0]
  /\ created = 0 /\ bak = NoBackup /\ current = {}
  /\ kpc = "idle" /\ kspec = 0 /\ kfresh = FALSE /\ disabled = FALSE
  /\ cache = NoBackup /\ watch = << >>
  /\ dirty = FALSE /\ delayed = FALSE /\ retries = 0
  /\ pc = "idle" /\ eb = NoBackup /\ shared = FALSE
  /\ store = [u \in Uids |-> 0]
  /\ runners = [i \in RunnerIds |-> NoRunner]
  /\ made = {} /\ calm = FALSE

-----------------------------------------------------------------------------
(* The API server *)

\* An object that is being deleted goes with its last finalizer.
Settled(o) == IF o.deleting /\ ~ o.fin THEN NoBackup ELSE o

\* An accepted write that changes the object.
Publish(o) ==
  /\ Len(watch) < MaxLag
  /\ bak' = Settled(o)
  /\ watch' = Append(watch, Settled(o))
  /\ current' = {}

\* An accepted write; one that changes nothing keeps the resourceVersion.
Write(o) == IF o = bak THEN UNCHANGED <<bak, watch, current>> ELSE Publish(o)

\* Delete: at once, or after the finalizer has been removed.
Remove == IF bak.uid = 0 THEN UNCHANGED <<bak, watch, current>>
          ELSE Write([bak EXCEPT !.deleting = TRUE])

\* What an error leaves: the write was refused, or only its answer was lost.
Refused == UNCHANGED <<bak, watch, current>>

-----------------------------------------------------------------------------
(* The user *)

\* The gate is opened only while another EtcdBackup may still be created (bound).
ToggleGate ==
  /\ ~ calm /\ (want.gate \/ created < LastUid)
  /\ want' = [want EXCEPT !.gate = ~ @] /\ kfresh' = FALSE
  /\ UNCHANGED <<created, bak, current, kpc, kspec, disabled, cache, watch, queueVars, operatorVars,
                 made, calm>>

EditConfig ==
  /\ ~ calm /\ want.spec < LastSpec
  /\ want' = [want EXCEPT !.spec = @ + 1] /\ kfresh' = FALSE
  /\ UNCHANGED <<created, bak, current, kpc, kspec, disabled, cache, watch, queueVars, operatorVars,
                 made, calm>>

-----------------------------------------------------------------------------
(* kstone: the backup feature within a reconcile of the EtcdCluster.       *)

KstoneFrame ==
  UNCHANGED <<want, cache, queueVars, operatorVars, made, calm>>

\* In the long run neither a reconcile nor a tick of a runner comes before the last
\* one has been worked off: they are seconds apart, the work takes milliseconds.
Quiet ==
  calm => /\ watch = << >> /\ ~ dirty /\ ~ delayed /\ pc = "idle" /\ kpc = "idle"
          /\ \A i \in RunnerIds : runners[i].at \in {"none", "wait"}

\* FeatureBackup.Equal, and the Get of SyncBackup.  A feature that is recorded as disabled
\* is not looked at; for another, any error of the Get but NotFound calls for a Sync.  An
\* enabled backup is never Equal: a pointer is compared with a pointer to a pointer.
StartSync ==
  /\ kpc = "idle" /\ Quiet
  /\ kspec' = want.spec /\ kfresh' = TRUE
  /\ \/ ~ want.gate /\ ~ disabled /\ (bak.uid # 0 \/ May("api")) /\ kpc' = "clean"
     \/ want.gate /\ bak.uid = 0 /\ kpc' = "create"
     \/ want.gate /\ bak.uid # 0 /\ kpc' = "version"
  /\ UNCHANGED <<created, bak, current, watch, disabled>> /\ KstoneFrame

SyncFrame == UNCHANGED <<kspec, kfresh, disabled>> /\ KstoneFrame

\* CreateEtcdBackupByYaml; AlreadyExists is a success.
CreateEtcdBackup ==
  /\ kpc = "create" /\ kpc' = "record"
  /\ \/ /\ bak.uid = 0 /\ created < LastUid
        /\ created' = created + 1
        /\ Publish(NewBackup(created + 1, kspec))
     \/ (bak.uid # 0 \/ May("api")) /\ Refused /\ UNCHANGED created
  /\ SyncFrame

\* UpdateEtcdBackup reads the resourceVersion its own object will carry.
ReadVersion ==
  /\ kpc = "version"
  /\ \/ bak.uid # 0 /\ current' = current \cup {kstone} /\ kpc' = "replace"
     \/ (bak.uid = 0 \/ May("api")) /\ UNCHANGED current /\ kpc' = "record"
  /\ UNCHANGED <<created, bak, watch>> /\ SyncFrame

\* The object initEtcdBackup builds anew has neither finalizers nor a status.
Replacement == [bak EXCEPT !.spec = kspec, !.fin = FALSE, !.status = ""]

\* UpdateEtcdBackup replaces the object.
ReplaceEtcdBackup ==
  /\ kpc = "replace" /\ kpc' = "record"
  /\ \/ kstone \in current /\ Write(Replacement)
     \/ (kstone \notin current \/ May("api")) /\ Refused
  /\ UNCHANGED created /\ SyncFrame

\* Mutant of CleanBackup: the error of the Delete is not returned.
CleanBackupUnchecked ==
  /\ kpc = "clean" /\ kpc' = "recordDisabled"
  /\ Remove \/ (May("api") /\ Refused)
  /\ UNCHANGED created /\ SyncFrame

\* CleanBackup; NotFound is a success.
CleanBackup ==
  /\ kpc = "clean"
  /\ \/ Remove /\ kpc' = "recordDisabled"
     \/ May("api") /\ Refused /\ kpc' = "record"
  /\ UNCHANGED created /\ SyncFrame

\* The end of handleClusterFeature: the status is written with the copy the reconcile
\* began with, or not at all: a user has edited the EtcdCluster since, the reconcile has
\* updated it itself, the call fails, kstone ends.
RecordStatus ==
  /\ kpc \in {"record", "recordDisabled"} /\ kpc' = "idle"
  /\ \/ kfresh /\ disabled' = (kpc = "recordDisabled")
     \/ (~ kfresh \/ ~ calm) /\ UNCHANGED disabled
  /\ kfresh' = FALSE
  /\ UNCHANGED <<created, bak, current, watch, kspec>> /\ KstoneFrame

Kstone ==
  StartSync \/ CreateEtcdBackup \/ ReadVersion \/ ReplaceEtcdBackup \/ CleanBackup \/ RecordStatus

-----------------------------------------------------------------------------
(* The operator's informer and work queue *)

\* onAdd, onUpdate and onDelete put the key into the queue.
Deliver ==
  /\ watch # << >>
  /\ cache' = Head(watch) /\ watch' = Tail(watch) /\ dirty' = TRUE
  /\ shared' = FALSE
  /\ UNCHANGED <<want, created, bak, current, kstoneVars, delayed, retries, pc, eb, store,
                 runners, made, calm>>

\* The delay of AddRateLimited is over.
Requeue ==
  /\ delayed /\ delayed' = FALSE /\ dirty' = TRUE
  /\ UNCHANGED <<want, created, bak, current, kstoneVars, cache, watch, retries,
                 operatorVars, made, calm>>

\* handleErr: a key that failed maxRetries times is dropped.
HandleErr(err) ==
  /\ pc' = "idle" /\ eb' = NoBackup /\ shared' = FALSE
  /\ delayed' = (delayed \/ (err /\ retries < MaxRetries))
  /\ retries' = IF err /\ retries < MaxRetries THEN retries + 1 ELSE 0

-----------------------------------------------------------------------------
(* The operator's worker: processItem *)

WorkerFrame == UNCHANGED <<want, created, kstoneVars, calm>>

\* Mutant of Cancelled: the context is not cancelled.
NotCancelled(u) == runners

\* deletePeriodicBackupRunner cancels the context and forgets the runner.
Cancelled(u) ==
  [i \in RunnerIds |-> IF i = store[u] THEN [runners[i] EXCEPT !.cancelled = TRUE]
                       ELSE runners[i]]
Forgotten(u) == [store EXCEPT ![u] = 0]

IsChanged(o) == store[o.uid] # 0 => runners[store[o.uid]].spec # o.spec

\* A goroutine of periodicRunnerFunc for o, stored under its uid.
StartRunner(o, rs, st) ==
  \E i \in RunnerIds :
    /\ rs[i].at = "none" /\ \A j \in 1 .. i - 1 : rs[j].at # "none"
    /\ runners' = [rs EXCEPT ![i] = [NoRunner EXCEPT !.at = "wait", !.uid = o.uid,
                                                     !.spec = o.spec]]
    /\ store' = [st EXCEPT ![o.uid] = i]

\* The key is processed up to the first call to the API server; what does not
\* need one ends here.
TakeItem ==
  /\ pc = "idle" /\ dirty
  /\ dirty' = FALSE
  /\ current' = IF watch = << >> THEN current \cup {worker} ELSE current \ {worker}
  /\ \/ /\ cache.uid # 0 /\ cache.deleting
        /\ runners' = Cancelled(cache.uid) /\ store' = Forgotten(cache.uid)
        /\ pc' = "removeFinalizer" /\ eb' = cache /\ UNCHANGED shared
        /\ UNCHANGED <<delayed, retries>>
     \/ /\ cache.uid # 0 /\ ~ cache.deleting /\ cache.spec \in Periodic /\ IsChanged(cache)
        /\ IF cache.fin
           THEN /\ StartRunner(cache, Cancelled(cache.uid), Forgotten(cache.uid))
                /\ HandleErr(FALSE)
           ELSE /\ runners' = Cancelled(cache.uid) /\ store' = Forgotten(cache.uid)
                /\ pc' = "addFinalizer" /\ eb' = cache /\ UNCHANGED shared
                /\ UNCHANGED <<delayed, retries>>
     \/ /\ cache.uid # 0 /\ ~ cache.deleting /\ cache.spec \notin Periodic
        /\ cache.status = ""
        /\ pc' = "oneShot" /\ eb' = cache /\ shared' = TRUE
        /\ UNCHANGED <<delayed, retries, store, runners>>
     \/ /\ \/ cache.uid = 0
           \/ /\ ~ cache.deleting
              /\ IF cache.spec \in Periodic THEN ~ IsChanged(cache) ELSE cache.status # ""
        /\ HandleErr(FALSE)
        /\ UNCHANGED <<store, runners>>
  /\ UNCHANGED <<bak, cache, watch, made>> /\ WorkerFrame

\* Mutant of AddFinalizer: the Update is not refused for an old copy.
AddFinalizerUnchecked ==
  /\ pc = "addFinalizer"
  /\ Write([eb EXCEPT !.fin = TRUE])
  /\ StartRunner(eb, runners, store) /\ HandleErr(FALSE)
  /\ UNCHANGED <<dirty, cache, made>> /\ WorkerFrame

\* addFinalizerOfPeriodicBackupIfNeed, then the runner; without the finalizer there
\* is no runner.
AddFinalizer ==
  /\ pc = "addFinalizer"
  /\ \/ /\ worker \in current /\ Write([eb EXCEPT !.fin = TRUE])
        /\ \/ StartRunner(eb, runners, store) /\ HandleErr(FALSE)
           \/ May("api") /\ HandleErr(TRUE) /\ UNCHANGED <<store, runners>>
     \/ /\ worker \notin current \/ May("api")
        /\ Refused /\ HandleErr(TRUE) /\ UNCHANGED <<store, runners>>
  /\ UNCHANGED <<dirty, cache, made>> /\ WorkerFrame

\* Mutant of WithoutFinalizer: its own finalizer is copied too.
WithFinalizer(o) == o

\* removeFinalizerOfPeriodicBackup copies every finalizer but its own.
WithoutFinalizer(o) == [o EXCEPT !.fin = FALSE]

RemoveFinalizer ==
  /\ pc = "removeFinalizer"
  /\ \/ /\ worker \in current /\ Write(WithoutFinalizer(eb))
        /\ HandleErr(FALSE) \/ (May("api") /\ HandleErr(TRUE))
     \/ (worker \notin current \/ May("api")) /\ Refused /\ HandleErr(TRUE)
  /\ UNCHANGED <<dirty, cache, store, runners, made>> /\ WorkerFrame

\* handleBackup of an EtcdBackup without an interval.  reportBackupStatus then sets
\* the status of the object the worker got from the cache, so of the cache's too.
OneShotBackup ==
  /\ pc = "oneShot" /\ pc' = "report"
  /\ \E outcome \in {"ok", "failed"} :
       /\ outcome = "failed" => May("storage")
       /\ eb' = [eb EXCEPT !.status = outcome]
       /\ made' = IF outcome = "ok" THEN made \cup {[uid |-> eb.uid, spec |-> eb.spec]}
                  ELSE made
  /\ cache' = IF shared THEN eb' ELSE cache
  /\ UNCHANGED <<bak, current, watch, queueVars, shared, store, runners>> /\ WorkerFrame

\* reportBackupStatus: an error is only logged.
ReportOneShot ==
  /\ pc = "report"
  /\ \/ worker \in current /\ Publish(eb)
     \/ (worker \notin current \/ May("api")) /\ Refused
  /\ HandleErr(FALSE)
  /\ UNCHANGED <<dirty, cache, store, runners, made>> /\ WorkerFrame

Worker == TakeItem \/ AddFinalizer \/ RemoveFinalizer \/ OneShotBackup \/ ReportOneShot

-----------------------------------------------------------------------------
(* The runners: periodicRunnerFunc *)

RunnerFrame ==
  UNCHANGED <<want, created, kstoneVars, cache, queueVars, pc, eb, shared, store, calm>>

\* The ticker fires and the EtcdBackup of the name is read.  A cancelled context does
\* not end the goroutine: break leaves the select, and when both channels are ready the
\* select takes either.  When nothing is found the loop goes on all the same, with
\* nothing written.
Tick(i) ==
  /\ runners[i].at = "wait" /\ Quiet /\ bak.uid # 0
  /\ runners' = [runners EXCEPT ![i].at = "backup",
                                ![i].read = [uid |-> bak.uid, spec |-> bak.spec]]
  /\ current' = current \cup {i}
  /\ UNCHANGED <<bak, watch, made>> /\ RunnerFrame

\* handleBackup fails when its context is cancelled or the storage does.
RunBackup(i) ==
  /\ runners[i].at = "backup"
  /\ \/ /\ ~ runners[i].cancelled
        /\ runners' = [runners EXCEPT ![i].at = "ok"]
        /\ made' = made \cup {runners[i].read}
     \/ /\ runners[i].cancelled \/ May("storage")
        /\ runners' = [runners EXCEPT ![i].at = "failed"]
        /\ UNCHANGED made
  /\ UNCHANGED <<bak, current, watch>> /\ RunnerFrame

\* Mutant of Reported: the Update is not refused for an old copy.
ReportedUnchecked(i, status) == Publish([bak EXCEPT !.status = status])

\* The Update of reportBackupStatus; a success brings a new date with it.
Reported(i, status) ==
  /\ i \in current
  /\ IF status = "ok" THEN Publish([bak EXCEPT !.status = status])
     ELSE Write([bak EXCEPT !.status = status])

ReportBackup(i) ==
  /\ runners[i].at \in {"ok", "failed"}
  /\ \/ Reported(i, runners[i].at)
     \/ (i \notin current \/ May("api")) /\ Refused
  /\ runners' = [runners EXCEPT ![i].at = "wait", ![i].read = Nothing]
  /\ UNCHANGED made /\ RunnerFrame

Runner(i) == Tick(i) \/ RunBackup(i) \/ ReportBackup(i)

-----------------------------------------------------------------------------
(* Faults *)

\* The operator's process ends with all its goroutines, and lists anew.
RestartOperator ==
  /\ May("crash")
  /\ cache' = bak /\ watch' = << >>
  /\ dirty' = (bak.uid # 0) /\ delayed' = FALSE /\ retries' = 0
  /\ pc' = "idle" /\ eb' = NoBackup /\ shared' = FALSE
  /\ store' = [u \in Uids |-> 0] /\ runners' = [i \in RunnerIds |-> NoRunner]
  /\ current' = current \cap {kstone}
  /\ UNCHANGED <<want, created, bak, kstoneVars, made, calm>>

\* From now on no user edit and no fault.
CalmDown ==
  /\ ~ calm /\ calm' = TRUE
  /\ UNCHANGED <<want, created, bak, current, kstoneVars, cache, watch, queueVars,
                 operatorVars, made>>

Next ==
  \/ ToggleGate \/ EditConfig \/ Kstone
  \/ Deliver \/ Requeue \/ Worker
  \/ \E i \in RunnerIds : Runner(i)
  \/ RestartOperator \/ CalmDown

\* Goroutines run, watches deliver, delays end; the reconciles of kstone come again and
\* again between the ticks of the runners.
Fairness ==
  /\ SF_vars(StartSync)
  /\ WF_vars(CreateEtcdBackup) /\ WF_vars(ReadVersion)
  /\ WF_vars(ReplaceEtcdBackup) /\ WF_vars(CleanBackup) /\ WF_vars(RecordStatus)
  /\ WF_vars(Deliver) /\ WF_vars(Requeue) /\ WF_vars(Worker)
  /\ \A i \in RunnerIds : WF_vars(RunBackup(i)) /\ WF_vars(ReportBackup(i))

Spec     == Init /\ [][Next]_vars
FairSpec == Spec /\ Fairness
=============================================================================
