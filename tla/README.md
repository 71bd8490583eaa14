# kstone in TLA+

kstone manages etcd clusters on Kubernetes: it creates or imports them, watches
their health, backs them up and monitors them. This directory holds a formal model
of it: TLA+ modules translated from the Go code in `src/`, configurations that
model-check them with TLC, and proofs checked by TLAPS.

- [The system](#the-system): its parts, their state, what is hard about them
- [The modules](#the-modules): what models what, and how faithfully
- [The runs](#the-runs): what TLC checks, with which bounds and fairness
- [The proofs](#the-proofs): what holds for every value of the constants
- [Disagreements](#disagreements) between code and documentation met on the way
- [What is not modelled](#what-is-not-modelled), and the [plan](#the-plan)

## The system

Everything talks through the Kubernetes API server. An `EtcdCluster` resource says
what the user wants; controllers read it from an informer cache that lags behind,
act on other resources, and write what they found into its status with `Update`,
which writes the whole object and fails when its `resourceVersion` is out of date.

| component | state it keeps | operations | hard about it | what makes it correct |
|---|---|---|---|---|
| etcdcluster controller (`pkg/controllers/etcdcluster`) | informer cache, rate limited work queue, a private copy per reconcile; condition history, phase, members, feature statuses, labels and annotations in the resource | create, update, status, labels, features: one reconcile is up to a dozen calls, three of them writes of the whole object | conflicts between its own writes (the first result is dropped), stale caches, crashes between an effect and its record, requeues | history is well formed and never ahead of the facts; edits survive; a wanted state is reached |
| cluster providers (`pkg/clusterprovider`) | the etcd operator's `etcdclusters.etcd.tkestack.io` resource; none for an imported cluster | `Create`, `AfterCreate`, `Update`, `Equal`, `Status` | check-then-act on another resource; AlreadyExists, NotFound; status taken while members change | the operator has the wanted specification, Running means all members are healthy |
| feature providers (`pkg/featureprovider`, `pkg/inspection/inspection.go`) | one resource per feature (an `EtcdInspection`, an `EtcdBackup`, three monitoring resources) | `Equal`, `Sync`, `Do` | effects precede the record; a recorded status replaces a look at the world | resource there iff the gate is open |
| backup server (`pkg/backup/backup.go`) and the backup operator kstone ships (`third_party/etcd-operator/pkg/controller/backup-operator`) | the `EtcdBackup` resource with finalizer and status, runner store, one goroutine per runner | create, replace, delete; start and stop a runner; report a backup | two programs write whole objects over each other; cancelled goroutines; a ticker racing a cancellation | one runner per enabled backup, with its specification; none after it is gone |
| etcdinspection controller (`pkg/controllers/etcdinspection`) | cache and work queue | calls `Do` of a feature on every resync | several workers, cached objects used without a copy | every inspection is run again and again while its resource exists |
| request inspection (`pkg/inspection/request.go`) | maps of clients, watchers and event channels; the key gauge | first `Get`, `Watch`, a consumer of events | events between `Get` and `Watch` or while a watch is re-opened; two workers; clusters of one name | the gauge is the number of keys |
| consistency, alarm, healthy, backup check (`pkg/inspection`) | gauges | compare members, list alarms, count backup files | one client configuration shared by goroutines, gauges never cleared, division by an interval | the gauges say what etcd says |
| backup manager and storages (`third_party/etcd-operator/pkg/backup`, `pkg/backup/providers`) | the files of a bucket | save, delete the oldest, list, count | names sorted as text, revisions of members that lag, listings with a page size or of a whole bucket, files deleted before they are counted | the newest data stays, a missing backup is reported |
| prometheus monitor (`pkg/monitor`) | Service, Endpoints, ServiceMonitor | sync and clean the three, call by call | failing between two of them; the garbage collector and the endpoints controller remove them meanwhile | every member is scraped, nothing is left of a deleted cluster |
| process and leader election (`cmd/kstone-controller`) | a Lease; phase, caches, queue and workers of each replica | start, acquire, renew, lose, release, signals, exit | informers run before election, the lease is released while workers run, `os.Exit` in the middle of a reconcile | one process writes at a time, no change is forgotten |
| users and tokens (`pkg/authentication`, `pkg/middlewares`, handlers of `pkg/router`) | a ConfigMap of password hashes, a signing key, signed tokens | add, delete, change password, log in, proxied writes | concurrent Get and Update, a key read once, tokens that outlive passwords | one user is always left, an old password's token is refused for good |
| etcd access (`pkg/etcd`, `pkg/clusterprovider/helper.go`, key browser of `pkg/router`) | the members in the status of an `EtcdCluster` | list members, ask each for its status, decode keys | one call per member while the leader changes, endpoints that have gone, a Get of everything a key begins | the leader shown is the leader, the key shown the key asked for |
| generated clients and API types | none of their own | I/O | | |

## The modules

### EtcdCluster and EtcdClusterController

`EtcdCluster` is the resource and the pure functions on it: the condition history
(`GenerateConditions`, `CompleteLast`, `MustCreate`, `MustUpdate`), the status a
provider computes from the members it reaches (`Status`, `StatusOnError`), the
annotations `AfterCreate` writes and the labels. A specification is the number of
the user's edit; `SizeOf` and `ViewOf` say how many members it asks for and which
part of it `provider.Equal` looks at. A member is its ordinal.

`EtcdClusterController` is one `EtcdCluster` key: the API server's copy (`api`), per
replica an informer cache, a watch and a work queue entry (`cache`, `watch`, `dirty`),
the rate limiter (`delayed`), the leader's worker (`pc`, `obj`, `fresh`, `failed`,
`todo`), the operator's resource (`child`), the feature resources (`res`) and the
running members (`etcd`). Each action of the worker is one call to the outside with
the code around it, in the order of the code:

| action | code |
|---|---|
| `TakeItem` | `processNextWorkItem`, `syncEtcdCluster` up to the `DeepCopy` |
| `Decide` | `getDesiredAction`, with `provider.Equal` |
| `HandleClusterCreate`, `HandleClusterUpdate`, `HandleClusterStatus` | the handlers of those names, with the provider's calls and their error paths |
| `Persist` | `updateEtcdClusterStatus` at the end of `handleClusterManagement`, result and error dropped |
| `HandleClusterLabels` | `handleClusterLabels`, with its early return |
| `SyncFeature(f)` | one round of the loop of `handleClusterFeature`: `Equal`, `Sync`, status |
| `FinalUpdate` | its `Update` |
| `Return` | the end of the reconcile in `ProcessWorkQueue`: requeue on an error |

Around it: `CreateCluster`, `EditSpec`, `ToggleGate`, `DeleteCluster` (the user),
`Deliver`, `Resync`, `Requeue` (informer and queue), `Failover` (a crash of the
leader, or a lost lease), `ScaleMembers` (the etcd operator), `ResizeImported`,
`Sicken`, `Heal` (etcd), and `CollectChild`, `CollectResource` (the garbage
collector). `CalmDown` is the moment from which no user edit and no fault happens any
more: liveness properties speak of what follows it.

What is abstracted, and why it does no harm:

- `resourceVersion` is compared for equality only, so a Boolean `fresh` stands for
  "the worker's copy carries the current one". A write that changes nothing does not
  advance it, as in the API server.
- One key and one worker: keys share no state, and the work queue never hands one key
  to two workers at a time. The `Get` of the queue and of the lister are one step: an
  event between the two is the same as one before both.
- The read and the write inside `provider.Update` are one step with an error outcome,
  since nobody else writes that resource's specification and a conflict is an error
  like any other.
- The timestamps and the reason of a condition are left out. The reason only adds
  versions of an object that differ in nothing the properties speak of.
- The annotation map is assumed to exist (`AfterCreate` would panic on a nil map).
- Client URLs of listed members are never empty: an imported member that has not
  started is not counted.

`ClusterLifecycle` is the abstract specification: wanted and deployed specification
and the recorded stage, without caches, queues, conflicts and crashes. It says that
the resource is made once before its creation is recorded as complete, gets only
newer specifications, and that an update is recorded as complete only while the
operator has exactly the recorded specification.

`EtcdClusterProperties` states the properties and the refinement mapping,
`MCEtcdClusterController` gives TLC its `SizeOf` and `ViewOf`, and
`EtcdClusterController_proofs` holds the proofs. The stage of the mapping (`StageOf`) is
read off the history of the API server's copy, absence first: a cluster that is not there
has an empty history too.

`KstoneSpec` is what `ViewOf` abstracts: the fields of a specification, how
`generateEtcdSpec` and `updateEtcdSpec` write them into the operator's resource, and how
`Equal` and `resourceEqual` compare them there. `Settles` says that `Equal` finds nothing
to do after an update, `NoticesView` that an edit is noticed exactly when it changes
member count, version number, disk, environment or a quantity. Both are proved for all
specifications; the `management` run evaluates them on small sets of values
(`EditsNoticedOnce`), in the states in which a worker is about to compare.

### EtcdBackup

The `EtcdBackup` resource of one cluster is written by two programs that know nothing of
each other: kstone's backup server, as a step of the reconcile of the `EtcdCluster`, and
the backup operator that kstone deploys, from its worker and from its runner goroutines.

| action | code |
|---|---|
| `StartSync` | `Equal` (`featureprovider/providers/backup/backup.go`), with the `Get` it makes or that of `SyncBackup`: an enabled backup is never Equal, a disabled one is without a look when its recorded status says "disabled" already |
| `RecordStatus` | the `Update` at the end of `handleClusterFeature`, which may be lost |
| `CreateEtcdBackup`, `ReadVersion`, `ReplaceEtcdBackup`, `CleanBackup` | the calls of `SyncBackup`, `UpdateEtcdBackup` (a `Get` for the `resourceVersion`, then an `Update` with an object built anew) and `CleanBackup` |
| `Deliver`, `Requeue`, `HandleErr` | informer and work queue of the operator, `handleErr` with `maxRetries` |
| `TakeItem` | `processItem` up to its first call: which of deletion, periodic, one-shot or nothing it is |
| `AddFinalizer`, `RemoveFinalizer` | the two `Update`s of the finalizer, and the runner started after the first |
| `OneShotBackup`, `ReportOneShot` | `handleBackup` and `reportBackupStatus` of an `EtcdBackup` without an interval |
| `Tick`, `RunBackup`, `ReportBackup` | `periodicRunnerFunc`: the ticker and the `Get`, the backup, the status |
| `RestartOperator` | a new process: empty `backupRunnerStore`, no goroutines, a new list |

A write needs the current `resourceVersion`, so `current` is the set of those (kstone, the
worker, each runner) who hold a copy that carries it; every write that changes the object
empties the set. Of a copy that is no longer current nothing can be written any more, so
what it contains need not be kept, except what a running backup depends on
(`runners[i].read`). The status of a one-shot backup is set on the object the informer
cache holds, without a copy; `shared` says whether the worker's object still is that one. A
tick that finds no `EtcdBackup` writes nothing and is left out. The deletion of the
`EtcdCluster` reaches the `EtcdBackup` through its owner reference as the same `Remove` as
closing the gate. `disabled` is the feature's status as it is recorded in the
`EtcdCluster`, and `kfresh` says whether kstone's worker still holds the current one.

`EtcdBackupProperties` states what the two promise each other.

### RequestInspection

The key gauge of the clusters of one name, which may be in several namespaces: the
inspection server keeps its watcher and its event channel by name only. `TakeTask`,
`GetKeys`, `StartWatch`, `StartProcess` are a worker in `CollectEtcdClusterRequest`;
`OpenWatch`, `PickChannel`, `Forward`, `Rewatch` the goroutine of `Watch`;
`PickReadChannel` and `ProcessEvent` that of `processWatchEvent`. Keys change at any time,
etcd cancels watches, the process restarts. `missed` is a history variable: what changed
after the `Get` while no watch was open. The steps between the `Get` and the start of the
goroutine touch only state that nobody else looks at in between and are one action,
`StartWatch`. That etcd closes a watch channel without a cancellation, and that a cluster
of the name is deleted and created again with another etcd, are not modelled.

### PrometheusMonitor

The Service, Endpoints and ServiceMonitor of one cluster name. `StartSync` is `Equal`;
`CheckMonitor`, `CheckService` are `CheckEqualIfDisabled`, `DeleteMonitor`,
`DeleteService` `CleanPrometheusMonitor`, and `GetService` to `SyncMonitor` the calls of
`SyncPrometheusMonitor`; `Record` is the `Update` at the end of `handleClusterFeature`. In
between users, `CollectService`, `CollectMonitor` (the garbage collector) and
`ControlEndpoints` (the endpoints controller of Kubernetes) act. A cluster submitted again
may be of another type: `Types` lists the types of the clusters created under the name,
and `Lists` the members an etcd of a type may have, each a host and a port, in the order
etcd gives them. A port of the Service is named for the host of a member. Labels, TLS
settings and the scheme are left out, so an `Update` for their sake is one that changes
nothing. The Endpoints carry no owner reference: they go when the endpoints controller
sees that their Service is gone, and those the worker creates after that stay. No property
asks for more.

### UserStore

Requests of `kstone-api` that run at once. A bcrypt hash is salted, so a hash is the number
of its generation; a token carries user, hash and key.

| action | code |
|---|---|
| `Login` | `LoginRequest` with the right password: `UserGet`, `CheckPassword`, `GenerateToken` |
| `Private` | a private route up to the lookup of the user in `Auth` and `AuthenticateToken`: key file, signature, expiry |
| `Authenticate` | the lookup, and the middleware's abort |
| `StoreGet`, `StorePut` | `Get` and `Update` of `UserAdd`, `UserChangePassword`, `UserDelete`, `UserList` (`store.go`) |
| `ProxyWrite` | `ReverseProxy` handing on a write of the users' ConfigMap |
| `Expire`, `RotateKey`, `Restart` | a token's TTL, the mounted secret, the process |

`signer` and `verifier` are the two singletons that read the key file at their first use.
`fresh` is, as above, who holds a copy with the current `resourceVersion`; an `Update` may
be made and its answer lost. `UserDirectory` is the abstract specification: each operation
is one step that touches one user, the last user stays, a new password has a hash nobody
has. Names, passwords and the contents of answers are left out. `UserStoreProperties`
states the properties, `MCUserStore` makes the requests interchangeable for TLC.

### Inspections

`Inspections` runs one `EtcdInspection` of the types that keep nothing between two runs, the
key browser of `kstone-api`, or the part of a reconcile that records the members of one
`EtcdCluster` (`MemberRoles`). They share no state, so a behaviour follows one `task`, and
`Tasks` says which there may be.

| module | models | actions |
|---|---|---|
| `ConsistencyCheck` | `consistency.go`, `stats.go`: one goroutine per member | `Begin`, `Assign` (the shared `cli.Endpoints`), `Connect`, `GetIndex`, `GetTotalKeyNum`, `Finish`; `Apply` is etcd |
| `MemberMetrics` | `alarm.go`, `healthy.go` | `Read`, `CollectAlarmList`, `CollectMemberHealthy`, `HealthyDone`; etcd raises and disarms alarms, members sicken, recover, join and leave |
| `BackupFiles` | `backup_manager.go`, `backupcheck.go`, `cos.go`, `s3.go` | `Backup` (`SaveSnap`, `EnsureMaxBackup`), `StatBackupFiles`, `Tick`; `OthersSave`, `OthersDelete` are other clusters |
| `KeyBrowser` | `EtcdKeyList` of `router.go` with `encoding.go` | `EtcdKeyList`: a question (`asked`) and its `answer` |

The revision, index and raft index of a member are one number; which member it is asked of
is what matters. The gauges of alarms and health have the host of a member for a label,
without the port (`HostOf`), so members on one host share a gauge.

A backup's name is its path, its revision without leading zeros and its time. The revision
is that of a serializable `Get` at a Service, so any from `FirstRev` to `LastRev`, in any
order: the member may lag behind what etcd has written. `EnsureMaxBackup` lists and deletes within the path, at most a page and up
to the first failing `Delete` (`Kept`). The inspection lists the path once in COS
(`ListCOS`), but the whole bucket in S3, where `foreign` are the files of other clusters
(`ListS3`). `KeyBrowser` has no state in the code: its variables hold the question, so that
the property ranges over all of them. `InspectionsProperties` says what must be shown and
kept; `MCInspections` gives TLC members, hosts and keys.

### MemberRoles

How `Status` of a provider gets the members of an `EtcdCluster` and their roles
(`GetRuntimeEtcdMembers`). `MemberList` asks the endpoints recorded last, or the address of
the service when there are none; `Ask(m)` is the status call for one member, which in the
v2 API goes to that member (`StatusV2`) and in v3 to the first endpoint (`StatusV3`);
`Record` writes the list into the status, in the kstone provider only when its length is
that of the specification. Between any two calls etcd moves on: a member hears of another
leader (`Hear`), stops, starts, joins, perhaps as a learner, is promoted or leaves. A member
is a number, as etcd lists members by their ids. What `EtcdClusterController` does with the
members' number and health is left to it.

### ControllerProcess

The replicas of one of the two controllers (`Command` says which). A tick is the
`RetryPeriod` of 5 s; `ClusterElection` and `InspectionElection` are the configurations of
the two commands.

| action | code |
|---|---|
| `Start`, `Sync`, `RunWorkers` | `Run` of the command, the informers, `Run` of the controller called by `OnStartedLeading` |
| `Signal`, `SecondSignal`, `Kill`, `Unsynced`, `Exit` | the signal handler, a kill, `Fatalf` when the caches never fill, `OnStoppedLeading` with `os.Exit` |
| `Observe`, `Acquire`, `Renew`, `Renewed`, `StepDown`, `Release` | client-go's election with `ReleaseOnCancel`; a renewal may be made and its answer lost |
| `Tick`, `Lose`, `Return` | time, and a process cut off from the API server |
| `Change`, `Deliver`, `Resync`, `TakeItem`, `Succeed`, `Fail` | informer, work queue and workers (`ProcessWorkQueue`) |

Of a reconcile it is only known whether it has seen the last change of its object; what it
does is in the other modules. Clocks run at the same rate. Client-go is not under `src/`
and is marked external.

Operators named as mutants stand before the definition they are a variant of: each
is that definition with a mistake one could make in that code, and the property it
belongs to fails for it.

## The runs

| run | cfg | shows |
|---|---|---|
| `management` | `ControllerManagement` | condition history, phases, the operator's resource and full strength under API errors, crashes, failing members and scaling; the controller implements `ClusterLifecycle`; what the provider writes is what it compares |
| `features` | `ControllerFeatures` | a recorded feature status was true when it was recorded; after the faults every enabled feature has its resource and the labels follow (`FeaturesSettle`) |
| `liveness` | `ControllerLiveness` | after the faults the operator gets the wanted specification and the cluster is reported Running with all members (`ClusterSettles`) |
| `imported` | `Imported` | an imported cluster, deleted and submitted again: whole-object writes from old copies take no edit back and revive nothing, no feature is touched before the creation of this very cluster is recorded, and it is reported Running in the end |
| `backup_safety` | `BackupSafety` | no runner escapes the store, a recorded success belongs to the specification it stands next to, the operator takes no specification or deletion back, and the feature is recorded as disabled only when its `EtcdBackup` has been deleted (`DisabledBackupDeleted`) |
| `backup_liveness` | `BackupLiveness` | an enabled periodic backup runs in the end with the wanted configuration, and a disabled one has no `EtcdBackup`, unless the recorded status said "disabled" already when it was made (`BackupFollowsGate`) |
| `request_inspection` | `RequestInspection` | no event of an open watch is lost or counted twice (`GaugeAccounted`, part of `Inv`), cancelled watches are opened again, nobody blocks for good |
| `prometheus_monitor` | `PrometheusMonitor` | a ServiceMonitor has its Service (`MonitorHasService`, part of `Inv`), "disabled" is recorded when nothing is left, every member is scraped in the end, of a deleted cluster nothing is left |
| `user_store` | `UserStore` | every store operation is one step of `UserDirectory`; a revoked token stays revoked and changes nothing; an accepted one stays accepted |
| `inspections` | `Inspections` | no difference is shown that is not there, and the gauges of consistency, alarms and health follow etcd in the end; in one length of the revisions the newest data is kept (`LatestDataKept`, part of `Inv`), and a missing backup is reported unless another cluster's file stands in for it; a stored key is shown with its own value; members come, go and change their leader between any two calls, and in the end the status lists them and shows the leader they agree on (`MembersSettle`) |
| `controller_process` | `ControllerProcess` | workers of two replicas overlap only while one steps down; nothing is forgotten by a leader; every change is dealt with in the end |
| `feature_leak` | `FeatureLeak` | an expected violation, see [Disagreements](#disagreements) |

Every property of a passing run is one that a plausible mistake in the code breaks: the
module holds that mistake as a mutant operator before the definition it is a variant of.

Bounds of the controller's runs. `LastSpec` edits, `LastUid` creations, `MaxSize` members,
`MaxLag` undelivered events. Two edits with sizes 1, 2, 1 let an old copy meet both a larger
and a smaller cluster and make the worker be overtaken twice within a reconcile; one edit
suffices where only "old" and "new" matter; `LastUid = 2` is needed as soon as a cluster is
deleted and submitted again. A watch lag of 2 lets the worker start from a copy that is two
writes old. The feature of `imported` is one that is never Equal, as the backup and the
monitor are (`Resynced`), that of `features` one whose existing resource satisfies it.
`Faults` names the disturbances a run allows, so that each run asks one question.
`FeatureStatusTruthful` is claimed without deletions: with them, the garbage collector may
remove the resource between the sync and the `Update` that records it.

Bounds of the others. `backup_safety` has two configurations, one with an interval and one
without, and two `EtcdBackup`s of the name, so that a runner can survive its resource;
two runner goroutines, since a third adds no pair. It gives up after the first error
(`MaxRetries = 0`), which is the hardest case for safety; `backup_liveness` retries once.
It has one `EtcdBackup` of the name, so that nothing is left to enable once it is gone.
`request_inspection` has two clusters of the name, one key each, a channel of capacity one
(which blocks as soon as two events are there), four changes and one cancelled watch or
restart. `prometheus_monitor` has a kstone cluster with two pods, and after it an imported
one with two members on one host and a third on another, in an order the Service accepts
and in one it does not.

`user_store` has two users and two requests: one pair of a reader and a writer is what every
lost update takes, and a third request meets the same `resourceVersion`. Three hashes let
an entry be taken away and set again; one write around the store and one token at a time.
`inspections` has two members to compare, one revision and one failing call, and three
members with gauges, two of them on one host; a backup every tick, one
kept, pages of two names, days of two ticks and four backups in all, with revisions from 8
to 10 so that the number of digits changes, and one file of another cluster at a time,
before or behind the cluster's own in the listing; every content of four keys, one of which
begins another and one of which is `compact_rev_key`; and up to three members in etcd with
two changes, enough for two of them to differ over the leader, or for the first endpoint to
leave and another member to join.
`controller_process` has two replicas, one key, one change besides the initial one and two
mishaps, so that the second can hit the recovery from the first; the clocks run up to the
real lease of 12 ticks. The second key and further replicas are left to the proofs.
The largest run, `backup_safety`, has about ten million states; each ends within three
minutes.

All bounds are in the guards; no run uses a constraint. Deadlock is checked in `user_store`
and `controller_process`, which never run out of steps; in the others it is not: with all
edits made and an idle queue the system may stop.

Fairness (`Fairness`): the worker goroutines run (`WF(Worker)`), an informer delivers and
resyncs, a rate limited key comes back, the operator scales, the garbage collector
collects and a sick member heals. All of it is weak fairness: none of these actions is
disabled again and again by somebody else once `CalmDown` has happened. Without the
resync, which `k8s.GenerateInformer` asks for, a status that changes in etcd alone would
never be seen.

In `EtcdBackup` the two programs can go on refusing each other's writes for ever if they
keep the same pace. They do not: a reconcile comes with the resync and a tick with the
backup interval, both many seconds apart, and each is worked off in milliseconds. `Quiet`
says so for the time after `CalmDown` only: no reconcile and no tick starts before the
last one has been worked off. Before it, everything interleaves. `StartSync` has strong
fairness, since `Quiet` disables it now and then. `BackupFollowsGate` is checked without
API errors: after `maxRetries` the operator drops the key and has no resync to bring it
back. `RequestInspection` and `PrometheusMonitor` need weak fairness of workers,
goroutines and Kubernetes' controllers only.

`Inspections` has weak fairness of the inspections: the resync starts each again, and all
their calls have timeouts; so does the collection of the members, which comes with every
reconcile. Data and members may stop changing but need not do so fairly.
`ControllerProcess` has weak fairness per replica of starting again (a Deployment restarts
its pods), of the end of an outage, of going on and of the workers, and of time. Kills,
signals, outages and failing reconciles have none; they are bounded in number
(`MaxMishaps`), which is what "in the end" means there. The resync is not needed.

## The proofs

| module | about | what it proves |
|---|---|---|
| `EtcdClusterController_proofs` | the controller | type and history, what is known of every copy, the user's edits, the Running phase, the features; while nothing is deleted, the operator's resource, the features' statuses and the refinement of `ClusterLifecycle` |
| `KstoneSpec_proofs` | fields of the specification | updates settle, edits are noticed |
| `EtcdBackup_proofs` | backup server and operator | runners, status, specification, the disabled feature |
| `UserStore_proofs` | users and tokens | the refinement of `UserDirectory`, revocation |
| `ControllerProcess_proofs` | leader election and work queue | one leader, nothing forgotten |
| `PrometheusMonitor_proofs` | the monitor feature | Service before ServiceMonitor, disabled is clean |
| `RequestInspection_proofs` | the key gauge | every event counted |
| `Inspections_proofs` | inspections, retention, key browser | differences, missing and kept backups, keys |

Each of these modules EXTENDS its component and `TLAPS`; the only assumptions are the named
ones on constants, which TLC evaluates in the runs, and the hypotheses that the four
theorems about a cluster that is not deleted state.

### The controller

`EtcdClusterController_proofs` proves, for every number of replicas, edits, creations,
members and features, every set of faults and every watch lag:

- `TypeCorrect`: `Spec => []TypeOK`
- `HistoryCorrect`: `Spec => []ConditionHistory`
- `PhaseCorrect`: `Spec => []PhaseFollowsConditions`
- `EditsSurvive`: `Spec => UserEditsSurvive`
- `RunningTruthful`: `Spec => RunningIsFullStrength`
- `FeaturesFollowCreation`: `Spec => []FeaturesAfterCreation`
- `EditsNoticed`: `Spec => []EditsNoticedOnce`, from the two theorems of
  `KstoneSpec_proofs` instantiated with the values the properties use
- `Soundness` and `CopiesKnown`: `Spec => [](IInv /\ KInv)`, the two inductive invariants
  behind them

`ConditionHistory` and `PhaseFollowsConditions` speak of the API server's copy only and
are not inductive: the next write comes from the worker's copy, which came from a cache,
which came from a watch. `IInv` therefore says that every copy, wherever it is, is
`Sound` (history in `Histories`, phase agrees with it), and adds `HandlerReady`: a handler
runs only on a history that calls for it, without which `handleClusterUpdate` could
append an update to an open creation. The module begins with the lemmas about the
operators (what each does to the history: `CreateHistory`, `UpdateHistory`,
`FinishedHistory`); then there is one lemma per action.

What a write may change depends on how the worker's copy differs from what it replaces.
`KInv` says so, in five parts:

- `LatestInv`: a cache with nothing on its way to it, or else the last event on its way,
  is what the API server holds. So a worker that starts with an empty watch has the
  current `resourceVersion` and the current object.
- `FreshInv`: a copy that still has the current `resourceVersion` agrees with the API
  server in uid, specification and annotations, records the creation if that one does, and
  says Running only if that one does or the members it carries are at full strength. The
  first makes `UserEditsSurvive` hold, the last `RunningIsFullStrength`: the status is
  computed in one step and written in a later one.
- `TravelKnown`: no copy in the API server, a watch or a cache records the creation of
  the present cluster unless the API server does. A cluster that was deleted and made again
  has another uid, so an old copy says nothing of the new one.
- `WorkerKnown`: the same of the worker's copy, but between the creation and the `Update`
  that records it; then it is not Running and the worker does not come to a feature.
- `FeaturesKnown`, which is `FeaturesAfterCreation` and that no resource belongs to a
  cluster still to be created: it holds since a worker that syncs a feature has a copy that
  records the creation.

Its last part is about a cluster that is not deleted (`"delete" \notin Faults`, as in the
runs `management` and `features`):

- `CreationLeavesChild`: `Spec => []CreationHasChild`
- `FeatureStatusSound`: `Spec => FeatureStatusTruthful`
- `ChildGoesForward`: `Spec => ChildNeverRegresses`
- `LifecycleImplemented`: `Spec => RefinesLifecycle`

With deletions the first is false, and the code means it to be: the new cluster of the
name adopts its predecessor's resource, which is then collected (see Disagreements); so is
the second, as a feature's resource may be collected between its Sync and the `Update`.
The last two need also `OneController`, one replica or no failover: a new leader's cache may
be older than its predecessor's, and then the operator is handed an older specification
(two replicas in `management` break `ChildNeverRegresses`). `LifecycleImplemented` is
about operator-managed clusters (`~ Imported`), which `ClusterLifecycle` specifies.

- `LifeInv`: there is one life, to which everything that exists belongs (`OneLife`); no
  copy, wherever it is, records a creation that has left no resource of the operator; and
  where a current copy's feature status differs from the API server's it is true
  (`FgsInv`). This is why a conflict does no harm: an old copy is not written.
- `OrderInv`: the specification in a cache, those of the events on their way to it in their
  order, and the API server's follow one another; and that of the operator's resource is
  not newer than the worker's copy, nor that copy's than the leader's cache.
- `StageInv`: a current copy has the history of the API server, but between a handler and
  the `Update` behind it, where it has one of the histories listed in `Recorded`, together
  with what the handler has done to the operator's resource.

Every step is then a step of `ClusterLifecycle` or a stutter. The user's creation and
edits change what is wanted; `handleClusterCreate` makes the resource and
`handleClusterUpdate` changes it, to a specification that is not older by `OrderInv` and
not newer than what is wanted; `Persist` records the next stage, an `Update` that is
accepted needs a current copy, and `StageInv` says which stage that is and that
an update is recorded as complete only with the operator's resource as recorded. All else
leaves stage, wanted and deployed specification alone.

### The other components

`KstoneSpec_proofs` proves `UpdatesSettle` and `EditsAreNoticed`: a list of quantities that
is missing, one that lacks a name and one that says "0" all read as zero, before and after
the specification is written.

`UserStore_proofs` proves, for any number of users, keys, requests, hashes and tokens:

- `Refinement`: `Spec => RefinesDirectory`
- `RevokedForEver`, `AcceptedForGood`: the action properties `TokensStayRevoked` and
  `AcceptedStaysAccepted`
- `RevokedSafe`, `TypeCorrect`: the invariants `RevokedChangeNothing` and `TypeOK`

The refinement needs that a copy that can still be written is the map that is stored and
allows the operation (`CopiesCurrent`), and that no hash in use is newer than the last one
generated (`HashesKnown`): the guards were evaluated on the copy, the abstract operation
asks them of the map that is replaced. `RevokedWait` says that a request with a revoked
token is still before the middleware's lookup and that the lookup will refuse it, because
an old hash cannot come back. What `AcceptedForGood` says is said of the moments in which the
key file is there (`Accepts`): while it is missing `AuthenticateToken` refuses every token
(`bearertoken.go:60-63`), and takes the same ones again when it is back, whatever it
holds then.

`EtcdBackup_proofs` proves, for any number of specifications, creations, runners, retries
and any watch lag: `RunnersStored` (`ActiveRunnersStored`), `HonestStatus`
(`StatusHonest`), `SpecKept` (`OperatorKeepsSpec`), `DisabledDeleted`
(`DisabledBackupDeleted`) and `TypeCorrect`. The status is
written from a copy read long before and the copies come from a cache fed by a watch, so
`ApiInv` says that every copy is honest (`CopiesHonest`), that a runner which can still
write has read the object that is stored (`RunnersRead`), that the cache, or the last
event on its way to it, is that object but for finalizer and status (`InSync`), and that a
worker that can still write holds it (`WorkerRead`). `OperatorInv` holds what the worker is
about to do and `StoreInv` the store: a runner that is not cancelled is found there.
`KstoneInv` says when the backup server may write. `DeletedInv` says that when kstone is
about to record "disabled", its `EtcdBackup` is gone or being deleted: no write of the
operator takes a deletion back.

`ControllerProcess_proofs` proves, for any number of replicas, keys, changes and mishaps,
`OneLeader` (`OneLeaderWorks`), `Nothing` (`NothingForgotten`) and `TypeCorrect`. The
first compares two clocks, that of the leader, which starts when it learns of a renewal,
and that of a candidate, which starts when it sees the Lease change: `LeaseInv` says that a
candidate that has seen the last change has waited at most three ticks longer than the
leader, and while a renewal is made but not answered at least one tick less. The leader
gives up after `retry + deadline = 4` ticks, long before the 12 of the lease. `QueueInv`
says that every replica whose informers are synced, a candidate too, has what is due in
its queue, in hand or on the way.

`PrometheusMonitor_proofs` proves, for all types, lists of members and clusters submitted
under the name, `MonitorKeepsItsService` (`Inv`) and `DisabledMeansClean`
(`DisabledIsClean`). Neither is inductive. `OrderInv` says that what the worker has deleted
is still gone when it goes on, to the point where it records "disabled"; and of the first
cluster that what Sync has written is still there: the garbage collector takes a Service only
if its owner is gone, and `UidInv` says that every Service names one of the clusters
created, every Sync works for one, and before the first there is nothing.

`RequestInspection_proofs` proves `EveryEventCounted` (`Inv`) for any number of clusters
of a name, keys, cancelled watches and restarts and any capacity of the channels. The
account (`GaugeAccounted`) is kept only because a cluster is counted at most once:
`MapInv` says that a worker at the `Get` or behind it finds no goroutine of `Watch` for its
cluster, and that a goroutine finds a channel in the map, whoever's it is; `LoopInv` that
watches and events have a goroutine; `CountInv` that what the `Get` found is right but for
what was missed since. The sum over the clusters is a difference of two cardinalities
(`Total` counts the units above and below zero), and so is the sum over the events of
a channel (`Net`), so that the lemmas on one changed summand, one event appended and one
taken (`TotalUpdated`, `NetAppend`, `NetTail`) need no induction.

`Inspections_proofs` proves, for any number of members, calls, failures, ticks and backups,
any retention, day and page size, and revisions below 100 (`BackupFilesAssumption`; a
longer number has a name of another length, which `OneLength` leaves out anyway):

- `DifferencesReal`: `Spec => DifferencesAreReal`
- `LatestBackupStays`: `Spec => []Inv`
- `MissingReported`: `Spec => MissingBackupsReported`
- `KeyShown`: `Spec => []StoredKeyShown`

`ReadInv` says that while nothing is written, what a goroutine has read is what the member
holds that it asked, whichever that was; the values shown are then a part of those there
are, and the difference of a part is not larger (`SpreadOfPart`). When all goroutines have
read, each revision of a v3 cluster has been read from its own member, so that there the
difference is exact; `UnsetInv` covers the gauge of which no member has a value.

`LatestDataKept` is not inductive: what is deleted next depends on all that are there, and
on their names. `KeptInv` says that a backup that has gone has at least `MaxBackups` names
after its own among all that were made. It holds for any revisions, in whatever order they
come, since a page of a listing has no more names after a file's than all that were made
have. In one length a later name has newer data (`TextOrder`, `NameNewer`), which gives
`LatestDataKept`. While names are in the order of the backups (`InOrder`), the latest one
that has gone was followed by `MaxBackups` that are there, so of the last day none is missing
in the bucket or there are as many as are asked for; and what is counted beyond the
cluster's own are other clusters' files (`CountedFresh`). That finite sets of numbers have a
least and a greatest element is proved from the well-foundedness of `<` on the naturals
(`Least`, `Greatest`).

The key browser is asked over a constant: any set of keys, sequences of bytes that are not
empty (`InspectionsAssumption`). `StoredKeyShown` rests on `FoundIsKey`: of all keys that
begin with a key it is itself the first in the order of etcd (`PrefixFirst`).

### What stays with TLC

The type invariants of `EtcdBackup`, `UserStore` and `ControllerProcess` are proved and
therefore not checked by a run. Every invariant and every action property of the passing
runs is the subject of a theorem, and so are both refinements. Only model-checked are:

- all liveness properties: fairness and `ENABLED` are beyond the prover;
- what `feature_leak` shows, for it is false.

## Disagreements

`feature_leak` is a run, and a `findings` entry quotes the line it disagrees with: a feature
that is disabled after a lost status update keeps its resource, because `Equal` trusts the
recorded status (`inspection.go:180`). The backup feature does the same
(`featureprovider/providers/backup/backup.go:67-72`), which is why `DisabledBackupGone` leaves
out an `EtcdBackup` made while "disabled" was recorded.

The following disagree with a comment or a message of the code as well. They have no run;
each shows in the model as described.

- A cluster submitted again under its name adopts its predecessor's resource, since
  AlreadyExists counts as success (`kstone.go:113-119`), and the garbage collector then
  removes it for good. (`ChildConverges` with deletion and `LastUid = 2`.)
- kstone replaces the `EtcdBackup`, status included, on every reconcile
  (`backup.go:164-175`, `313`), so a one-shot backup is made again and again, although
  `sync.go:81-82` does not process one that has a status. (`OneShotOnce` with a
  specification outside `Periodic`.)
- The same replacement erases the finalizer; the `EtcdBackup` may then go unseen, and its
  runner, which is to stop when it finds no `EtcdBackup` (`sync.go:185-188`), goes on,
  since the `break`s leave the `select` and the retry loop only. (`RunnersEnd`.)
- `EnsureMaxBackup` is to delete the oldest backups (`backup_manager.go:89-90`) but sorts
  names as text, with the revision before the time. A member that lags behind gives a later
  backup a smaller revision (`backup_manager.go:140`), and of revisions 9 and 10 the older
  comes later; the backup just made is then deleted and an older one kept. (`LatestDataKept`
  with the time for the revision in `Newer`, or without `OneLength`.)
- The gauge of a cluster is the number of its backups of the last day
  (`metrics.go:89-94`), but the S3 listing takes the whole bucket (`s3.go:92-98`), other
  clusters' files included. They hide as many missing backups. (`MissingBackupsReported`
  without `foreign` and `Listed = files`.)
- `Run` of a controller waits for workers to finish (`etcdclusters_controller.go:138-141`),
  and the command releases the lease after that (`controller.go:209-214`); in fact
  `OnStoppedLeading` ends the process with `os.Exit(0)` and the lease is released first.
  (`OneLeaderWorks` without the exception for "stopping" and "released".)

Behaviours the models show and no line of the repository speaks of, so that they have no
run of their own:

- A standby replica whose informers lag hands the operator an older specification than it
  already has (two replicas in `management` break `ChildNeverRegresses`).
- Once the operator's resource is gone `Equal` returns NotFound for ever, and nothing makes
  it again.
- An edit of a field `Equal` does not compare never reaches the operator; `ChildConverges`
  therefore speaks of `ViewOf`.
- A cancelled runner goes on ticking and reports failed backups; an `EtcdBackup` that loses
  its interval keeps its runner.
- Key changes between the `Get` and the `Watch`, or while a cancelled watch is opened again,
  never reach the key gauge; a second cluster of a name is never watched.
- While any alarm of a cluster is left, one that was disarmed stays shown, and that of a
  member that has gone stays for ever.
- When signer and verifier read different keys, nobody can log in until a restart.
- Every v3 member is reported with the version and role answer of the first endpoint: when
  that is a learner, or does not answer, no member is shown as the leader.
- While a leader changes, one collection may record two leaders or none, since it asks
  once per member. Once all members recorded have been replaced, the list is never read
  again (`Answering # {}` in `Knowable`).
- Members on one host overwrite each other's gauges of health and alarms: the label is the
  host without the port.
- While the key file is missing, every token is refused.
- An imported etcd whose members' hosts alternate is not monitored: its Service would have
  two ports of one name.

Seen in the code, outside the models: `BackupList` goes on after answering an error
(`router.go:318-322`) and dereferences nil; the directories of TLS files are never removed
(`helper.go:156`); of a `certName` annotation with three parts the clients make an error, while
the backup operator and the monitor use the second (`backup.go:200-202`,
`prometheus.go:314-317`), and with two they drop the namespace; the backup inspection divides by an interval of zero
(`backupcheck.go:83`).

## What is not modelled

- Generated code (deepcopy, clients, informers) and the types of `v1alpha1`, which no
  controller uses.
- The vendored etcd-operator's cluster and restore operators: third-party code kstone does
  not deploy. Of its backup operator everything but the transfer of a snapshot is modelled.
- `BackupList`, `FeatureList` and what the proxy hands on for other resources: they read,
  answer and keep nothing. The dashboard, charts and end-to-end tests.
- Credentials, connections and timeouts of the etcd clients, and `AddMemberWithCmd`, which
  nothing calls.
- Flags, logging and profiling of the commands; the labels of metrics.
- Two keys of one controller at once: they share no state but the queue, which
  `ControllerProcess` models.

## The plan

All components with state of their own are modelled, and every safety property of the runs
is proved. What is left is which part of `LifecycleImplemented` remains with two replicas: a
lifecycle whose deployed specification may go back after a failover.
