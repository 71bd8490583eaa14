-------------------------- MODULE EtcdBackup_proofs --------------------------
(***************************************************************************)
(* Theorems about kstone's backup server and the backup operator, for      *)
(* every number of configurations, EtcdBackups, runners, retries and       *)
(* undelivered events, and every set of faults.                            *)
(***************************************************************************)
EXTENDS EtcdBackupProperties, SequenceTheorems, TLAPS

\* The worker that is about to start a runner has none stored for its EtcdBackup.
StoreInv ==
  /\ ActiveRunnersStored
  /\ pc = "addFinalizer" => store[eb.uid] = 0

\* No copy of the EtcdBackup claims a success without its specification backed up.
Honest(o) == o.status = "ok" => [uid |-> o.uid, spec |-> o.spec] \in made
CopiesHonest ==
  /\ Honest(bak) /\ Honest(cache) /\ Honest(eb)
  /\ \A n \in 1 .. Len(watch) : Honest(watch[n])

\* A runner whose copy is current backs up, or has backed up, what is in the API server.
RunnersRead ==
  \A i \in RunnerIds :
    /\ runners[i].at = "ok" => runners[i].read \in made
    /\ i \in current /\ runners[i].at \in {"backup", "ok", "failed"} =>
         runners[i].read = [uid |-> bak.uid, spec |-> bak.spec]

\* What the operator never changes of an EtcdBackup is the same in the API server, at the
\* end of the watch, and in the worker's copy if that is current.
Same(o, p) == o.uid = p.uid /\ o.spec = p.spec /\ o.deleting = p.deleting
InSync ==
  /\ watch = << >> => Same(cache, bak)
  /\ watch # << >> => Same(watch[Len(watch)], bak)
WorkerRead == worker \in current /\ pc # "idle" => Same(eb, bak)

\* The inductive invariant has three parts.  The first is about the API server, the watch
\* and the copies.
ApiInv ==
  /\ bak \in Backups /\ (bak.deleting => bak.fin) /\ watch \in Seq(Backups)
  /\ current \subseteq Holders
  /\ CopiesHonest /\ RunnersRead /\ InSync /\ WorkerRead

\* The second is about the operator's queue, its worker and its runners.
OperatorInv ==
  /\ cache \in Backups
  /\ dirty \in BOOLEAN /\ delayed \in BOOLEAN /\ retries \in 0 .. MaxRetries
  /\ pc \in {"idle", "addFinalizer", "removeFinalizer", "oneShot", "report"}
  /\ eb \in Backups /\ (shared => pc \in {"oneShot", "report"} /\ eb = cache)
  /\ store \in [Uids -> 0 .. MaxRunners] /\ runners \in [RunnerIds -> Runners]
  /\ made \subseteq [uid : Uids, spec : Specs]
  /\ StoreInv

\* The third is about the user and kstone.
KstoneInv ==
  /\ want \in [gate : BOOLEAN, spec : Specs] /\ created \in Uids
  /\ kpc \in {"idle", "create", "version", "replace", "clean", "record", "recordDisabled"}
  /\ kspec \in Specs /\ kfresh \in BOOLEAN /\ disabled \in BOOLEAN
  /\ calm \in BOOLEAN

IInv == ApiInv /\ OperatorInv /\ KstoneInv

-----------------------------------------------------------------------------
(* The API server *)

\* No EtcdBackup exists at the start.
LEMMA InitInvariant == Init => IInv
<1> SUFFICES ASSUME Init PROVE IInv
  OBVIOUS
<1> USE BackupAssumption DEF BackupAssumption
<1>1. 0 \in Uids /\ 0 \in Specs /\ NoBackup \in Backups /\ NoRunner \in Runners
  BY DEF Uids, Specs, NoBackup, NewBackup, Backups, NoRunner, Runners, Nothing
<1>2. StoreInv /\ RunnersRead /\ WorkerRead
  BY DEF Init, StoreInv, ActiveRunnersStored, Active, RunnersRead, WorkerRead, NoRunner
<1>3. CopiesHonest /\ InSync
  <2>1. Len(watch) = 0 /\ watch \in Seq(Backups)
    BY DEF Init
  <2>2. bak.status = "" /\ cache.status = "" /\ eb.status = ""
    BY DEF Init, NoBackup, NewBackup
  <2>3. CopiesHonest
    <3>1. 1 .. Len(watch) = {}
      BY <2>1
    <3> QED
      BY <3>1, <2>2 DEF CopiesHonest, Honest
  <2>4. InSync
    BY DEF Init, InSync, Same
  <2> QED
    BY <2>3, <2>4
<1>4. ApiInv
  <2>1. bak \in Backups /\ ~ bak.deleting
    BY <1>1 DEF Init, NoBackup, NewBackup
  <2> QED
    BY <1>2, <1>3, <2>1 DEF Init, ApiInv
<1>5. OperatorInv
  BY <1>1, <1>2 DEF Init, OperatorInv
<1>6. KstoneInv
  BY <1>1 DEF Init, KstoneInv
<1> QED
  BY <1>4, <1>5, <1>6 DEF IInv

\* What a write leaves: it changes nothing, or the object that goes to the watch is the
\* one in the API server, and no copy is current any more.
Written(o) ==
  \/ UNCHANGED <<bak, watch, current>>
  \/ bak' = Settled(o) /\ watch' = Append(watch, Settled(o)) /\ current' = {}

\* A step in which no runner comes to a backup, and one in which the worker takes no key.
RunnersQuiet ==
  \A i \in RunnerIds :
    runners'[i].at \in {"backup", "ok", "failed"} =>
      runners'[i].at = runners[i].at /\ runners'[i].read = runners[i].read
WorkerQuiet == UNCHANGED <<eb, pc>> \/ (pc' = "idle" /\ eb' = NoBackup)

\* What the API server settles an EtcdBackup to is one.
LEMMA SettledType ==
  ASSUME NEW o \in Backups
  PROVE  /\ Settled(o) \in Backups /\ (Settled(o).deleting => Settled(o).fin)
         /\ Honest(o) => Honest(Settled(o))
         /\ Settled(o).uid = 0 \/ Settled(o) = o
<1>1. NoBackup \in Backups /\ NoBackup.uid = 0 /\ NoBackup.status = "" /\ ~ NoBackup.deleting
  <2>1. 0 \in Uids /\ 0 \in Specs
    BY BackupAssumption DEF BackupAssumption, Uids, Specs
  <2> QED
    BY <2>1 DEF NoBackup, NewBackup, Backups
<1>2. CASE o.deleting /\ ~ o.fin
  BY <1>1, <1>2 DEF Settled, Honest
<1>3. CASE ~ (o.deleting /\ ~ o.fin)
  BY <1>3 DEF Settled, Honest
<1> QED
  BY <1>2, <1>3

\* A step that writes the EtcdBackup honestly keeps what holds of the API server.
LEMMA WrittenKeeps ==
  ASSUME ApiInv, NEW o \in Backups, Honest(o), Written(o), UNCHANGED <<cache, made>>,
         WorkerQuiet, RunnersQuiet
  PROVE  ApiInv'
<1>1. Honest(eb)'
  <2>1. NoBackup.status = ""
    BY DEF NoBackup, NewBackup
  <2> QED
    BY <2>1 DEF ApiInv, CopiesHonest, Honest, WorkerQuiet
<1>2. CASE UNCHANGED <<bak, watch, current>>
  <2>1. CopiesHonest'
    BY <1>1, <1>2 DEF ApiInv, CopiesHonest, Honest
  <2>2. RunnersRead'
    BY <1>2 DEF ApiInv, RunnersRead, RunnersQuiet
  <2>3. InSync' /\ WorkerRead'
    BY <1>2 DEF ApiInv, InSync, Same, WorkerRead, WorkerQuiet
  <2> QED
    BY <1>2, <2>1, <2>2, <2>3 DEF ApiInv
<1>3. CASE bak' = Settled(o) /\ watch' = Append(watch, Settled(o)) /\ current' = {}
  <2>1. Settled(o) \in Backups /\ (Settled(o).deleting => Settled(o).fin) /\ Honest(Settled(o))
    BY SettledType
  <2>2. /\ watch' \in Seq(Backups) /\ Len(watch') = Len(watch) + 1 /\ Len(watch) \in Nat
        /\ watch'[Len(watch')] = Settled(o)
        /\ \A n \in 1 .. Len(watch) : watch'[n] = watch[n]
    BY <1>3, <2>1 DEF ApiInv
  <2>3. \A n \in 1 .. Len(watch') : n = Len(watch') \/ n \in 1 .. Len(watch)
    BY <2>2
  <2>4. CopiesHonest'
    BY <1>1, <1>3, <2>1, <2>2, <2>3 DEF ApiInv, CopiesHonest, Honest
  <2>5. RunnersRead'
    BY <1>3 DEF ApiInv, RunnersRead, RunnersQuiet
  <2>6. InSync' /\ WorkerRead'
    BY <1>3, <2>2 DEF InSync, Same, WorkerRead
  <2> QED
    BY <1>3, <2>1, <2>2, <2>4, <2>5, <2>6 DEF ApiInv
<1> QED
  BY <1>2, <1>3 DEF Written

\* Both kinds of write are accounted for.
LEMMA WriteWritten ==
  ASSUME NEW o, Write(o) \/ Publish(o)
  PROVE  Written(o)
BY DEF Write, Publish, Written

\* A step that leaves the operator alone keeps its invariant.
LEMMA OperatorKept ==
  ASSUME OperatorInv, UNCHANGED <<cache, dirty, delayed, retries, pc, eb, shared, store, runners, made>>
  PROVE  OperatorInv'
BY DEF OperatorInv, StoreInv, ActiveRunnersStored, Active

-----------------------------------------------------------------------------
(* kstone and the user *)

\* What kstone and the user do with the EtcdBackup.
LEMMA UserInvariant ==
  ASSUME IInv, ToggleGate \/ EditConfig \/ CalmDown
  PROVE  IInv'
<1>1. KstoneInv'
  <2>1. CASE ToggleGate \/ CalmDown
    BY <2>1 DEF IInv, KstoneInv, ToggleGate, CalmDown, kstoneVars
  <2>2. CASE EditConfig
    <3>1. want \in [gate : BOOLEAN, spec : Specs] /\ want.spec + 1 \in Specs
      BY <2>2, BackupAssumption DEF BackupAssumption, IInv, KstoneInv, EditConfig, Specs
    <3> QED
      BY <2>2, <3>1 DEF IInv, KstoneInv, EditConfig, kstoneVars
  <2> QED
    BY <2>1, <2>2
<1>2. UNCHANGED <<bak, current, cache, watch, dirty, delayed, retries, pc, eb, shared, store,
                  runners, made>>
  BY DEF ToggleGate, EditConfig, CalmDown, queueVars, operatorVars
<1>3. OperatorInv'
  BY <1>2, OperatorKept DEF IInv
<1>4. ApiInv'
  BY <1>2 DEF IInv, ApiInv, CopiesHonest, Honest, RunnersRead, InSync, Same, WorkerRead
<1> QED
  BY <1>1, <1>3, <1>4 DEF IInv

\* kstone writes an EtcdBackup without a status, deletes one, or writes nothing.
LEMMA KstoneInvariant ==
  ASSUME IInv, Kstone
  PROVE  IInv'
<1> USE BackupAssumption DEF BackupAssumption
<1>1. KstoneInv'
  <2>1. CASE StartSync
    BY <2>1 DEF IInv, StartSync, KstoneFrame, KstoneInv
  <2>2. CASE CreateEtcdBackup \/ ReadVersion \/ ReplaceEtcdBackup \/ CleanBackup
    BY <2>2 DEF IInv, CreateEtcdBackup, ReadVersion, ReplaceEtcdBackup, CleanBackup, SyncFrame,
       KstoneFrame, KstoneInv, Uids
  <2>3. CASE RecordStatus
    <3>1. disabled' \in BOOLEAN
      BY <2>3 DEF IInv, RecordStatus, KstoneInv
    <3> QED
      BY <2>3, <3>1 DEF IInv, RecordStatus, KstoneFrame, KstoneInv
  <2> QED
    BY <2>1, <2>2, <2>3 DEF Kstone
<1>2. UNCHANGED <<cache, dirty, delayed, retries, pc, eb, shared, store, runners, made>>
  BY DEF Kstone, StartSync, CreateEtcdBackup, ReadVersion, ReplaceEtcdBackup, CleanBackup,
     RecordStatus, SyncFrame, KstoneFrame, queueVars, operatorVars
<1>3. OperatorInv'
  BY <1>2, OperatorKept DEF IInv
<1>4. ApiInv /\ bak \in Backups /\ kspec \in Specs
  BY DEF IInv, ApiInv, KstoneInv
<1>5. CASE /\ UNCHANGED <<bak, watch>>
           /\ current' = current \/ current' = current \cup {kstone}
  <2>1. kstone \notin RunnerIds /\ kstone # worker /\ kstone \in Holders
    BY DEF kstone, RunnerIds, worker, Holders
  <2>2. ApiInv'
    BY <1>2, <1>4, <1>5, <2>1
       DEF ApiInv, CopiesHonest, Honest, RunnersRead, InSync, Same, WorkerRead
  <2> QED
    BY <1>1, <1>3, <2>2 DEF IInv
<1>6. ASSUME NEW o \in Backups, Honest(o), Written(o)
      PROVE  IInv'
  BY <1>1, <1>2, <1>3, <1>4, <1>6, WrittenKeeps DEF IInv, RunnersQuiet, WorkerQuiet
<1>7. CASE CreateEtcdBackup
  <2>1. created + 1 \in Uids => NewBackup(created + 1, kspec) \in Backups
    BY <1>4 DEF NewBackup, Backups
  <2>2. created < LastUid => created + 1 \in Uids
    BY DEF IInv, KstoneInv, Uids
  <2>3. Honest(NewBackup(created + 1, kspec))
    BY DEF Honest, NewBackup
  <2> QED
    BY <1>5, <1>6, <1>7, <2>1, <2>2, <2>3, WriteWritten DEF CreateEtcdBackup, Refused
<1>8. CASE ReplaceEtcdBackup
  <2>1. Replacement \in Backups /\ Honest(Replacement)
    BY <1>4 DEF Replacement, Backups, Honest
  <2> QED
    BY <1>5, <1>6, <1>8, <2>1, WriteWritten DEF ReplaceEtcdBackup, Refused
<1>9. CASE CleanBackup
  <2>1. [bak EXCEPT !.deleting = TRUE] \in Backups
    BY <1>4 DEF Backups
  <2>2. Honest([bak EXCEPT !.deleting = TRUE])
    BY <1>4 DEF ApiInv, CopiesHonest, Honest, Backups
  <2> QED
    BY <1>5, <1>6, <1>9, <2>1, <2>2, WriteWritten DEF CleanBackup, Remove, Refused
<1>10. CASE StartSync \/ ReadVersion \/ RecordStatus
  BY <1>5, <1>10 DEF StartSync, ReadVersion, RecordStatus
<1> QED
  BY <1>7, <1>8, <1>9, <1>10 DEF Kstone

-----------------------------------------------------------------------------
(* The operator's queue *)

\* The informer catches up, and the key is queued.
LEMMA DeliverInvariant ==
  ASSUME IInv, Deliver
  PROVE  IInv'
<1>1. /\ watch \in Seq(Backups) /\ watch # << >>
      /\ cache' = Head(watch) /\ watch' = Tail(watch) /\ dirty' = TRUE /\ shared' = FALSE
      /\ UNCHANGED <<want, created, bak, current, kpc, kspec, kfresh, disabled, delayed, retries, pc, eb, store,
                     runners, made, calm>>
  BY DEF Deliver, IInv, ApiInv, kstoneVars
<1>2. /\ Len(watch) \in Nat \ {0} /\ Head(watch) = watch[1] /\ watch[1] \in Backups
      /\ Tail(watch) \in Seq(Backups) /\ Len(Tail(watch)) = Len(watch) - 1
      /\ \A n \in 1 .. Len(watch) - 1 : Tail(watch)[n] = watch[n + 1]
  BY <1>1
<1>3. CopiesHonest'
  <2>1. \A n \in 1 .. Len(watch) : Honest(watch[n])
    BY DEF IInv, ApiInv, CopiesHonest
  <2>2. Honest(watch[1]) /\ \A n \in 1 .. Len(watch) - 1 : Honest(Tail(watch)[n])
    BY <1>2, <2>1
  <2> QED
    BY <1>1, <1>2, <2>2 DEF IInv, ApiInv, CopiesHonest, Honest
<1>4. InSync'
  <2>1. Same(watch[Len(watch)], bak)
    BY <1>1 DEF IInv, ApiInv, InSync
  <2>2. CASE Len(watch) = 1
    BY <1>1, <1>2, <2>1, <2>2 DEF InSync, Same
  <2>3. CASE Len(watch) > 1
    <3>1. Len(watch) - 1 \in 1 .. Len(watch) - 1 /\ Tail(watch) # << >>
      BY <1>2, <2>3
    <3>2. Tail(watch)[Len(Tail(watch))] = watch[Len(watch)]
      BY <1>2, <3>1
    <3> QED
      BY <1>1, <2>1, <3>1, <3>2 DEF InSync, Same
  <2> QED
    BY <1>2, <2>2, <2>3
<1>5. ApiInv'
  BY <1>1, <1>2, <1>3, <1>4 DEF IInv, ApiInv, RunnersRead, WorkerRead, Same
<1>6. OperatorInv'
  BY <1>1, <1>2 DEF IInv, OperatorInv, StoreInv, ActiveRunnersStored, Active
<1>7. KstoneInv'
  BY <1>1 DEF IInv, KstoneInv
<1> QED
  BY <1>5, <1>6, <1>7 DEF IInv

\* A key comes back from the rate limiter.
LEMMA RequeueInvariant ==
  ASSUME IInv, Requeue
  PROVE  IInv'
<1>1. /\ dirty' = TRUE /\ delayed' = FALSE
      /\ UNCHANGED <<want, created, bak, current, kpc, kspec, kfresh, disabled, cache, watch, retries, pc, eb,
                     shared, store, runners, made, calm>>
  BY DEF Requeue, kstoneVars, operatorVars
<1>2. ApiInv'
  BY <1>1 DEF IInv, ApiInv, CopiesHonest, Honest, RunnersRead, InSync, Same, WorkerRead
<1>3. OperatorInv' /\ KstoneInv'
  BY <1>1 DEF IInv, OperatorInv, KstoneInv, StoreInv, ActiveRunnersStored, Active
<1> QED
  BY <1>2, <1>3 DEF IInv

-----------------------------------------------------------------------------
(* The runners and their store *)

\* The store holds every runner that is not cancelled.
Stored(rs, st) ==
  \A i \in RunnerIds : rs[i].at # "none" /\ ~ rs[i].cancelled => st[rs[i].uid] = i

\* The invariant on the stored runners is the one of the properties.
LEMMA StoredActive == ActiveRunnersStored <=> Stored(runners, store)
BY DEF ActiveRunnersStored, Active, Stored

\* Once its runner is cancelled and forgotten, an EtcdBackup has none that is active.
LEMMA CancelledStored ==
  ASSUME OperatorInv, NEW u \in Uids
  PROVE  /\ Cancelled(u) \in [RunnerIds -> Runners]
         /\ Forgotten(u) \in [Uids -> 0 .. MaxRunners] /\ Forgotten(u)[u] = 0
         /\ Stored(Cancelled(u), Forgotten(u))
         /\ \A i \in RunnerIds : /\ Cancelled(u)[i].at = runners[i].at
                                 /\ Cancelled(u)[i].read = runners[i].read
<1>1. runners \in [RunnerIds -> Runners] /\ store \in [Uids -> 0 .. MaxRunners]
  BY DEF OperatorInv
<1>2. \A i \in RunnerIds :
        /\ Cancelled(u)[i] \in Runners /\ Cancelled(u)[i].at = runners[i].at
        /\ Cancelled(u)[i].read = runners[i].read /\ Cancelled(u)[i].uid = runners[i].uid
        /\ Cancelled(u)[i].cancelled = (runners[i].cancelled \/ i = store[u])
  BY <1>1 DEF Cancelled, Runners
<1>3. Cancelled(u) \in [RunnerIds -> Runners]
  BY <1>2 DEF Cancelled
<1>4. Forgotten(u) \in [Uids -> 0 .. MaxRunners] /\ Forgotten(u)[u] = 0
  BY <1>1, BackupAssumption DEF BackupAssumption, Forgotten
<1>5. Stored(Cancelled(u), Forgotten(u))
  <2> SUFFICES ASSUME NEW i \in RunnerIds, runners[i].at # "none", ~ runners[i].cancelled,
                      i # store[u]
               PROVE  Forgotten(u)[runners[i].uid] = i
    BY <1>2 DEF Stored
  <2>1. store[runners[i].uid] = i /\ runners[i].uid \in Uids
    BY <1>1, StoredActive DEF OperatorInv, StoreInv, Stored, Runners
  <2> QED
    BY <1>1, <2>1 DEF Forgotten
<1> QED
  BY <1>2, <1>3, <1>4, <1>5

\* A runner is started for an EtcdBackup that has none, in a place that is free.
LEMMA StartedStored ==
  ASSUME NEW o \in Backups, NEW rs \in [RunnerIds -> Runners],
         NEW st \in [Uids -> 0 .. MaxRunners], Stored(rs, st), st[o.uid] = 0,
         StartRunner(o, rs, st)
  PROVE  /\ runners' \in [RunnerIds -> Runners] /\ store' \in [Uids -> 0 .. MaxRunners]
         /\ Stored(runners, store)'
         /\ \A i \in RunnerIds : runners'[i] = rs[i] \/ runners'[i].at = "wait"
<1>1. PICK i \in RunnerIds :
        /\ rs[i].at = "none"
        /\ runners' = [rs EXCEPT ![i] = [NoRunner EXCEPT !.at = "wait", !.uid = o.uid,
                                                         !.spec = o.spec]]
        /\ store' = [st EXCEPT ![o.uid] = i]
  BY DEF StartRunner
<1> DEFINE new == [NoRunner EXCEPT !.at = "wait", !.uid = o.uid, !.spec = o.spec]
<1>2. o.uid \in Uids /\ o.spec \in Specs /\ 0 \in Uids /\ 0 \in Specs /\ i \in 1 .. MaxRunners
  <2>1. 0 \in Uids /\ 0 \in Specs
    BY BackupAssumption DEF BackupAssumption, Uids, Specs
  <2> QED
    BY <2>1 DEF Backups, RunnerIds
<1>3. new \in Runners /\ new.uid = o.uid /\ new.at = "wait"
  BY <1>2 DEF NoRunner, Nothing, Runners
<1>4. runners'[i] = new /\ \A j \in RunnerIds \ {i} : runners'[j] = rs[j]
  BY <1>1
<1>5. runners' \in [RunnerIds -> Runners]
  BY <1>1, <1>3
<1>6. /\ store' \in [Uids -> 0 .. MaxRunners] /\ store'[o.uid] = i
      /\ \A u \in Uids \ {o.uid} : store'[u] = st[u]
  BY <1>1, <1>2, BackupAssumption DEF BackupAssumption
<1>7. Stored(runners, store)'
  <2> SUFFICES ASSUME NEW j \in RunnerIds, runners'[j].at # "none", ~ runners'[j].cancelled
               PROVE  store'[runners'[j].uid] = j
    BY DEF Stored
  <2>1. CASE j = i
    BY <1>3, <1>4, <1>6, <2>1
  <2>2. CASE j # i
    <3>1. runners'[j] = rs[j] /\ rs[j].uid \in Uids /\ st[rs[j].uid] = j /\ j # 0
      BY <1>4, <2>2 DEF Stored, Runners, RunnerIds
    <3>2. rs[j].uid # o.uid
      BY <3>1
    <3> QED
      BY <1>6, <3>1, <3>2
  <2> QED
    BY <2>1, <2>2
<1> QED
  BY <1>3, <1>4, <1>5, <1>6, <1>7

-----------------------------------------------------------------------------
(* The worker *)

\* An item is finished: there is no copy any more, and the counter stays below its limit.
LEMMA HandleErrType ==
  ASSUME OperatorInv, NEW err \in BOOLEAN, HandleErr(err)
  PROVE  /\ pc' = "idle" /\ eb' = NoBackup /\ shared' = FALSE
         /\ delayed' \in BOOLEAN /\ retries' \in 0 .. MaxRetries /\ NoBackup \in Backups
<1>1. MaxRetries \in Nat /\ retries \in 0 .. MaxRetries
  BY BackupAssumption DEF BackupAssumption, OperatorInv
<1>2. NoBackup \in Backups
  <2>1. 0 \in Uids /\ 0 \in Specs
    BY BackupAssumption DEF BackupAssumption, Uids, Specs
  <2> QED
    BY <2>1 DEF NoBackup, NewBackup, Backups
<1>3. delayed' \in BOOLEAN
  BY DEF HandleErr
<1>4. retries' \in 0 .. MaxRetries
  BY <1>1 DEF HandleErr
<1> QED
  BY <1>2, <1>3, <1>4 DEF HandleErr

\* The copy a worker takes is current only when the watch has delivered everything.
LEMMA TakenApi ==
  ASSUME ApiInv, UNCHANGED <<bak, cache, watch, made>>, RunnersQuiet,
         current' = (IF watch = << >> THEN current \cup {worker} ELSE current \ {worker}),
         eb' = cache \/ (pc' = "idle" /\ eb' = NoBackup)
  PROVE  ApiInv'
<1>1. worker \in Holders /\ worker \notin RunnerIds
  BY DEF worker, Holders, RunnerIds
<1>2. NoBackup.status = ""
  BY DEF NoBackup, NewBackup
<1>3. CopiesHonest'
  BY <1>2 DEF ApiInv, CopiesHonest, Honest
<1>4. RunnersRead'
  BY <1>1 DEF ApiInv, RunnersRead, RunnersQuiet
<1>5. InSync' /\ WorkerRead'
  BY DEF ApiInv, InSync, Same, WorkerRead
<1> QED
  BY <1>1, <1>3, <1>4, <1>5 DEF ApiInv

\* A worker takes a key, through to the end of processItem.
LEMMA TakeItemInvariant ==
  ASSUME IInv, TakeItem
  PROVE  IInv'
<1>1. /\ UNCHANGED <<bak, cache, watch, made, want, created, kpc, kspec, kfresh, disabled, calm>>
      /\ dirty' = FALSE
      /\ current' = (IF watch = << >> THEN current \cup {worker} ELSE current \ {worker})
  BY DEF TakeItem, WorkerFrame, kstoneVars
<1>2. KstoneInv'
  BY <1>1 DEF IInv, KstoneInv
<1>3. ApiInv /\ OperatorInv /\ cache \in Backups /\ cache.uid \in Uids /\ pc = "idle"
  BY DEF IInv, OperatorInv, Backups, TakeItem
<1>4. ~ shared /\ delayed \in BOOLEAN /\ retries \in 0 .. MaxRetries
  BY <1>3 DEF OperatorInv
\* The runner is cancelled and forgotten, and the worker goes on.
<1>5. ASSUME runners' = Cancelled(cache.uid), store' = Forgotten(cache.uid), eb' = cache,
             pc' \in {"addFinalizer", "removeFinalizer"}, UNCHANGED <<shared, delayed, retries>>
      PROVE  ApiInv' /\ OperatorInv'
  <2>1. RunnersQuiet
    BY <1>3, <1>5, CancelledStored DEF RunnersQuiet
  <2>2. ApiInv'
    BY <1>1, <1>3, <1>5, <2>1, TakenApi
  <2>3. Stored(runners, store)' /\ store'[cache.uid] = 0
    BY <1>3, <1>5, CancelledStored DEF Stored
  <2>4. StoreInv'
    BY <1>5, <2>3 DEF StoreInv, ActiveRunnersStored, Active, Stored
  <2>5. OperatorInv'
    BY <1>1, <1>3, <1>4, <1>5, <2>4, CancelledStored DEF OperatorInv
  <2> QED
    BY <2>2, <2>5
\* The runners stay as they are, or one is started; the item is finished.
<1>6. ASSUME HandleErr(FALSE),
             \/ UNCHANGED <<store, runners>>
             \/ StartRunner(cache, Cancelled(cache.uid), Forgotten(cache.uid))
      PROVE  ApiInv' /\ OperatorInv'
  <2>1. /\ pc' = "idle" /\ eb' = NoBackup /\ shared' = FALSE
        /\ delayed' \in BOOLEAN /\ retries' \in 0 .. MaxRetries /\ NoBackup \in Backups
    BY <1>3, <1>6, HandleErrType
  <2>2. /\ runners' \in [RunnerIds -> Runners] /\ store' \in [Uids -> 0 .. MaxRunners]
        /\ Stored(runners, store)' /\ RunnersQuiet
    <3>1. CASE UNCHANGED <<store, runners>>
      BY <3>1, <1>3, StoredActive DEF OperatorInv, StoreInv, Stored, RunnersQuiet
    <3>2. CASE StartRunner(cache, Cancelled(cache.uid), Forgotten(cache.uid))
      <4>1. /\ Cancelled(cache.uid) \in [RunnerIds -> Runners]
            /\ Forgotten(cache.uid) \in [Uids -> 0 .. MaxRunners]
            /\ Forgotten(cache.uid)[cache.uid] = 0
            /\ Stored(Cancelled(cache.uid), Forgotten(cache.uid))
            /\ \A i \in RunnerIds : /\ Cancelled(cache.uid)[i].at = runners[i].at
                                    /\ Cancelled(cache.uid)[i].read = runners[i].read
        BY <1>3, CancelledStored
      <4>2. /\ runners' \in [RunnerIds -> Runners] /\ store' \in [Uids -> 0 .. MaxRunners]
            /\ Stored(runners, store)'
            /\ \A i \in RunnerIds :
                 runners'[i] = Cancelled(cache.uid)[i] \/ runners'[i].at = "wait"
        BY <1>3, <3>2, <4>1, StartedStored
      <4> QED
        BY <4>1, <4>2 DEF RunnersQuiet
    <3> QED
      BY <1>6, <3>1, <3>2
  <2>3. ApiInv'
    BY <1>1, <1>3, <2>1, <2>2, TakenApi
  <2>4. StoreInv'
    BY <2>1, <2>2 DEF StoreInv, ActiveRunnersStored, Active, Stored
  <2>5. OperatorInv'
    BY <1>1, <1>3, <2>1, <2>2, <2>4 DEF OperatorInv
  <2> QED
    BY <2>3, <2>5
\* A one-shot backup begins with the object in the cache.
<1>7. ASSUME pc' = "oneShot", eb' = cache, shared' = TRUE,
             UNCHANGED <<delayed, retries, store, runners>>
      PROVE  ApiInv' /\ OperatorInv'
  <2>1. ApiInv'
    BY <1>1, <1>3, <1>7, TakenApi DEF RunnersQuiet
  <2>2. OperatorInv'
    BY <1>1, <1>3, <1>7 DEF OperatorInv, StoreInv, ActiveRunnersStored, Active
  <2> QED
    BY <2>1, <2>2
<1>8. ApiInv' /\ OperatorInv'
  BY <1>5, <1>6, <1>7 DEF TakeItem
<1> QED
  BY <1>2, <1>8 DEF IInv

\* What an action of the worker that finishes its item keeps, whether it starts a runner,
\* writes, both or nothing.
LEMMA FinishedInvariant ==
  ASSUME IInv, NEW o \in Backups, Honest(o), Written(o), NEW err \in BOOLEAN, HandleErr(err),
         UNCHANGED <<want, created, kpc, kspec, kfresh, disabled, calm, dirty, cache, made>>,
         \/ UNCHANGED <<store, runners>>
         \/ StartRunner(eb, runners, store) /\ store[eb.uid] = 0
  PROVE  IInv'
<1>1. /\ pc' = "idle" /\ eb' = NoBackup /\ shared' = FALSE
      /\ delayed' \in BOOLEAN /\ retries' \in 0 .. MaxRetries /\ NoBackup \in Backups
  BY HandleErrType DEF IInv
<1>2. /\ runners' \in [RunnerIds -> Runners] /\ store' \in [Uids -> 0 .. MaxRunners]
      /\ Stored(runners, store)' /\ RunnersQuiet
  <2>1. /\ runners \in [RunnerIds -> Runners] /\ store \in [Uids -> 0 .. MaxRunners]
        /\ Stored(runners, store) /\ eb \in Backups
    BY StoredActive DEF IInv, OperatorInv, StoreInv
  <2>2. CASE UNCHANGED <<store, runners>>
    BY <2>1, <2>2 DEF Stored, RunnersQuiet
  <2>3. CASE StartRunner(eb, runners, store) /\ store[eb.uid] = 0
    BY <2>1, <2>3, StartedStored DEF RunnersQuiet
  <2> QED
    BY <2>2, <2>3
<1>3. ApiInv'
  BY <1>1, <1>2, WrittenKeeps DEF IInv, WorkerQuiet
<1>4. StoreInv'
  BY <1>1, <1>2 DEF StoreInv, ActiveRunnersStored, Active, Stored
<1>5. OperatorInv' /\ KstoneInv'
  BY <1>1, <1>2, <1>4 DEF IInv, OperatorInv, KstoneInv
<1> QED
  BY <1>3, <1>5 DEF IInv

\* The finalizer and the runner; the Update carries the worker's own copy.
LEMMA FinalizerInvariant ==
  ASSUME IInv, AddFinalizer \/ RemoveFinalizer
  PROVE  IInv'
<1>1. eb \in Backups /\ Honest(eb) /\ (pc = "addFinalizer" => store[eb.uid] = 0)
  BY DEF IInv, ApiInv, OperatorInv, StoreInv, CopiesHonest
<1>2. \A b \in BOOLEAN : [eb EXCEPT !.fin = b] \in Backups /\ Honest([eb EXCEPT !.fin = b])
  BY <1>1 DEF Backups, Honest
<1>3. UNCHANGED <<want, created, kpc, kspec, kfresh, disabled, calm, dirty, cache, made>>
  BY DEF AddFinalizer, RemoveFinalizer, WorkerFrame, kstoneVars
<1>4. \E b \in BOOLEAN : Written([eb EXCEPT !.fin = b])
  BY WriteWritten DEF AddFinalizer, RemoveFinalizer, WithoutFinalizer, Refused, Written
<1>5. \E err \in BOOLEAN : HandleErr(err)
  BY DEF AddFinalizer, RemoveFinalizer
<1>6. UNCHANGED <<store, runners>> \/ (StartRunner(eb, runners, store) /\ pc = "addFinalizer")
  BY DEF AddFinalizer, RemoveFinalizer
<1> QED
  BY <1>1, <1>2, <1>3, <1>4, <1>5, <1>6, FinishedInvariant

\* A one-shot backup that was made is known as made before its status says so.
LEMMA OneShotInvariant ==
  ASSUME IInv, OneShotBackup
  PROVE  IInv'
<1>1. /\ pc = "oneShot" /\ pc' = "report"
      /\ cache' = (IF shared THEN eb' ELSE cache)
      /\ UNCHANGED <<want, created, kpc, kspec, kfresh, disabled, calm, bak, current, watch, dirty, delayed,
                     retries, shared, store, runners>>
  BY DEF OneShotBackup, WorkerFrame, kstoneVars, queueVars
<1>2. PICK outcome \in {"ok", "failed"} :
        /\ eb' = [eb EXCEPT !.status = outcome]
        /\ made' = IF outcome = "ok" THEN made \cup {[uid |-> eb.uid, spec |-> eb.spec]}
                   ELSE made
  BY DEF OneShotBackup
<1>3. eb \in Backups /\ (shared => eb = cache) /\ ApiInv /\ OperatorInv
  BY DEF IInv, OperatorInv
<1>4. /\ eb' \in Backups /\ eb'.uid = eb.uid /\ eb'.spec = eb.spec
      /\ eb'.deleting = eb.deleting /\ eb'.status = outcome
  BY <1>2, <1>3 DEF Backups
<1>5. /\ made \subseteq made' /\ made' \subseteq [uid : Uids, spec : Specs]
      /\ Honest(eb)'
  <2>1. [uid |-> eb.uid, spec |-> eb.spec] \in [uid : Uids, spec : Specs]
    BY <1>3 DEF Backups
  <2>2. made \subseteq made' /\ made' \subseteq [uid : Uids, spec : Specs]
    BY <1>2, <1>3, <2>1 DEF OperatorInv
  <2>3. outcome = "ok" => [uid |-> eb.uid, spec |-> eb.spec] \in made'
    BY <1>2
  <2> QED
    BY <1>4, <2>2, <2>3 DEF Honest
<1>6. CopiesHonest'
  <2>1. \A o : Honest(o) => (o.status = "ok" => [uid |-> o.uid, spec |-> o.spec] \in made')
    BY <1>5 DEF Honest
  <2>2. Honest(bak)' /\ Honest(cache)'
    BY <1>1, <1>3, <1>5, <2>1 DEF ApiInv, CopiesHonest, Honest
  <2>3. \A n \in 1 .. Len(watch) : Honest(watch[n])'
    BY <1>1, <1>3, <2>1 DEF ApiInv, CopiesHonest, Honest
  <2> QED
    BY <1>1, <1>5, <2>2, <2>3 DEF CopiesHonest
<1>7. RunnersRead'
  BY <1>1, <1>3, <1>5 DEF ApiInv, RunnersRead
<1>8. InSync' /\ WorkerRead'
  BY <1>1, <1>3, <1>4 DEF ApiInv, InSync, WorkerRead, Same
<1>9. ApiInv'
  BY <1>1, <1>3, <1>6, <1>7, <1>8 DEF ApiInv
<1>10. OperatorInv' /\ KstoneInv'
  BY <1>1, <1>3, <1>4, <1>5
     DEF IInv, OperatorInv, KstoneInv, StoreInv, ActiveRunnersStored, Active
<1> QED
  BY <1>9, <1>10 DEF IInv

\* A backup that is taken once is reported.
LEMMA ReportOneShotInvariant ==
  ASSUME IInv, ReportOneShot
  PROVE  IInv'
<1>1. eb \in Backups /\ Honest(eb)
  BY DEF IInv, ApiInv, OperatorInv, CopiesHonest
<1>2. UNCHANGED <<want, created, kpc, kspec, kfresh, disabled, calm, dirty, cache, made, store, runners>>
  BY DEF ReportOneShot, WorkerFrame, kstoneVars
<1>3. Written(eb) /\ HandleErr(FALSE)
  BY WriteWritten DEF ReportOneShot, Refused, Written
<1> QED
  BY <1>1, <1>2, <1>3, FinishedInvariant

-----------------------------------------------------------------------------
(* The runners, and a restart of the operator *)

\* A runner that is changed in place keeps who it is.
LEMMA RunnerKept ==
  ASSUME OperatorInv, NEW i \in RunnerIds, runners' \in [RunnerIds -> Runners],
         runners'[i].uid = runners[i].uid, runners'[i].cancelled = runners[i].cancelled,
         runners[i].at # "none", \A j \in RunnerIds \ {i} : runners'[j] = runners[j],
         made \subseteq made', made' \subseteq [uid : Uids, spec : Specs],
         UNCHANGED <<cache, dirty, delayed, retries, pc, eb, shared, store>>
  PROVE  OperatorInv'
<1>1. ActiveRunnersStored'
  BY DEF OperatorInv, StoreInv, ActiveRunnersStored, Active
<1> QED
  BY <1>1 DEF OperatorInv, StoreInv

\* The ticker of a runner is due.
LEMMA TickInvariant ==
  ASSUME IInv, NEW i \in RunnerIds, Tick(i)
  PROVE  IInv'
<1>1. /\ UNCHANGED <<want, created, kpc, kspec, kfresh, disabled, cache, dirty, delayed, retries, pc, eb, shared,
                     store, calm, bak, watch, made>>
      /\ current' = current \cup {i} /\ runners[i].at = "wait"
      /\ runners' = [runners EXCEPT ![i].at = "backup",
                                    ![i].read = [uid |-> bak.uid, spec |-> bak.spec]]
  BY DEF Tick, RunnerFrame, kstoneVars, queueVars
<1>2. runners \in [RunnerIds -> Runners] /\ bak \in Backups /\ ApiInv /\ OperatorInv
  BY DEF IInv, ApiInv, OperatorInv
<1>3. /\ runners' \in [RunnerIds -> Runners]
      /\ \A j \in RunnerIds \ {i} : runners'[j] = runners[j]
      /\ runners'[i].uid = runners[i].uid /\ runners'[i].cancelled = runners[i].cancelled
      /\ runners'[i].at = "backup" /\ runners'[i].read = [uid |-> bak.uid, spec |-> bak.spec]
  BY <1>1, <1>2 DEF Runners, Backups
<1>4. i # worker /\ i \in Holders
  BY DEF worker, RunnerIds, Holders
<1>5. RunnersRead'
  BY <1>1, <1>2, <1>3 DEF ApiInv, RunnersRead
<1>6. ApiInv'
  BY <1>1, <1>2, <1>4, <1>5 DEF ApiInv, CopiesHonest, Honest, InSync, Same, WorkerRead
<1>7. OperatorInv'
  BY <1>1, <1>2, <1>3, RunnerKept DEF OperatorInv
<1>8. KstoneInv'
  BY <1>1 DEF IInv, KstoneInv
<1> QED
  BY <1>6, <1>7, <1>8 DEF IInv

\* A runner takes a backup, or fails.
LEMMA RunBackupInvariant ==
  ASSUME IInv, NEW i \in RunnerIds, RunBackup(i)
  PROVE  IInv'
<1>1. /\ UNCHANGED <<want, created, kpc, kspec, kfresh, disabled, cache, dirty, delayed, retries, pc, eb, shared,
                     store, calm, bak, watch, current>>
      /\ runners[i].at = "backup"
  BY DEF RunBackup, RunnerFrame, kstoneVars, queueVars
<1>2. PICK outcome \in {"ok", "failed"} :
        /\ runners' = [runners EXCEPT ![i].at = outcome]
        /\ made' = IF outcome = "ok" THEN made \cup {runners[i].read} ELSE made
  BY DEF RunBackup
<1>3. runners \in [RunnerIds -> Runners] /\ ApiInv /\ OperatorInv
  BY DEF IInv, OperatorInv
<1>4. /\ runners' \in [RunnerIds -> Runners]
      /\ \A j \in RunnerIds \ {i} : runners'[j] = runners[j]
      /\ runners'[i].uid = runners[i].uid /\ runners'[i].cancelled = runners[i].cancelled
      /\ runners'[i].at = outcome /\ runners'[i].read = runners[i].read
      /\ runners[i].read \in [uid : Uids, spec : Specs]
  BY <1>2, <1>3 DEF Runners
<1>5. made \subseteq made' /\ made' \subseteq [uid : Uids, spec : Specs]
  BY <1>2, <1>3, <1>4 DEF OperatorInv
<1>6. CopiesHonest'
  BY <1>1, <1>3, <1>5 DEF ApiInv, CopiesHonest, Honest
<1>7. RunnersRead'
  <2>1. runners'[i].at = "ok" => runners'[i].read \in made'
    BY <1>2, <1>4
  <2>2. i \in current => runners'[i].read = [uid |-> bak.uid, spec |-> bak.spec]
    BY <1>1, <1>3, <1>4 DEF ApiInv, RunnersRead
  <2> QED
    BY <1>1, <1>3, <1>4, <1>5, <2>1, <2>2 DEF ApiInv, RunnersRead
<1>8. ApiInv'
  BY <1>1, <1>3, <1>6, <1>7 DEF ApiInv, InSync, Same, WorkerRead
<1>9. OperatorInv'
  BY <1>1, <1>3, <1>4, <1>5, RunnerKept
<1>10. KstoneInv'
  BY <1>1 DEF IInv, KstoneInv
<1> QED
  BY <1>8, <1>9, <1>10 DEF IInv

\* A runner reports on the object it has read, or on none.
LEMMA ReportBackupInvariant ==
  ASSUME IInv, NEW i \in RunnerIds, ReportBackup(i)
  PROVE  IInv'
<1>1. /\ UNCHANGED <<want, created, kpc, kspec, kfresh, disabled, cache, dirty, delayed, retries, pc, eb, shared,
                     store, calm, made>>
      /\ runners[i].at \in {"ok", "failed"}
      /\ runners' = [runners EXCEPT ![i].at = "wait", ![i].read = Nothing]
  BY DEF ReportBackup, RunnerFrame, kstoneVars, queueVars
<1>2. runners \in [RunnerIds -> Runners] /\ bak \in Backups /\ ApiInv /\ OperatorInv
  BY DEF IInv, ApiInv, OperatorInv
<1>3. Nothing \in [uid : Uids, spec : Specs]
  <2>1. 0 \in Uids /\ 0 \in Specs
    BY BackupAssumption DEF BackupAssumption, Uids, Specs
  <2> QED
    BY <2>1 DEF Nothing
<1>4. /\ runners' \in [RunnerIds -> Runners]
      /\ \A j \in RunnerIds \ {i} : runners'[j] = runners[j]
      /\ runners'[i].uid = runners[i].uid /\ runners'[i].cancelled = runners[i].cancelled
      /\ runners'[i].at = "wait"
  BY <1>1, <1>2, <1>3 DEF Runners
<1>5. RunnersQuiet /\ WorkerQuiet
  BY <1>1, <1>4 DEF RunnersQuiet, WorkerQuiet
<1>6. ApiInv'
  <2>1. CASE Refused
    <3>1. Written(bak) /\ Honest(bak)
      BY <2>1, <1>2 DEF Refused, Written, ApiInv, CopiesHonest
    <3> QED
      BY <1>1, <1>2, <1>5, <3>1, WrittenKeeps
  <2>2. CASE Reported(i, runners[i].at)
    <3> DEFINE o == [bak EXCEPT !.status = runners[i].at]
    <3>1. /\ o \in Backups /\ o.uid = bak.uid /\ o.spec = bak.spec
          /\ o.status = runners[i].at
      BY <1>1, <1>2 DEF Backups
    <3>2. Honest(o)
      BY <1>1, <1>2, <2>2, <3>1 DEF Reported, ApiInv, RunnersRead, Honest
    <3>3. Written(o)
      BY <2>2, WriteWritten DEF Reported
    <3> HIDE DEF o
    <3> QED
      BY <1>1, <1>2, <1>5, <3>1, <3>2, <3>3, WrittenKeeps
  <2> QED
    BY <2>1, <2>2 DEF ReportBackup
<1>7. OperatorInv'
  BY <1>1, <1>2, <1>4, RunnerKept DEF OperatorInv
<1>8. KstoneInv'
  BY <1>1 DEF IInv, KstoneInv
<1> QED
  BY <1>6, <1>7, <1>8 DEF IInv

\* The operator ends: its runners are gone, and what it stored with them.
LEMMA RestartInvariant ==
  ASSUME IInv, RestartOperator
  PROVE  IInv'
<1>1. /\ UNCHANGED <<want, created, bak, kpc, kspec, kfresh, disabled, made, calm>>
      /\ cache' = bak /\ watch' = << >> /\ dirty' = (bak.uid # 0) /\ delayed' = FALSE
      /\ retries' = 0 /\ pc' = "idle" /\ eb' = NoBackup /\ shared' = FALSE
      /\ store' = [u \in Uids |-> 0] /\ runners' = [i \in RunnerIds |-> NoRunner]
      /\ current' = current \cap {kstone}
  BY DEF RestartOperator, kstoneVars
<1>2. /\ NoBackup \in Backups /\ NoRunner \in Runners /\ NoRunner.at = "none"
      /\ NoBackup.status = ""
  <2>1. 0 \in Uids /\ 0 \in Specs
    BY BackupAssumption DEF BackupAssumption, Uids, Specs
  <2> QED
    BY <2>1 DEF NoBackup, NewBackup, Backups, NoRunner, Nothing, Runners
<1>3. CopiesHonest'
  <2>1. Len(watch') = 0 /\ 1 .. 0 = {}
    BY <1>1
  <2> QED
    BY <1>1, <1>2, <2>1 DEF IInv, ApiInv, CopiesHonest, Honest
<1>4. RunnersRead' /\ InSync' /\ WorkerRead'
  BY <1>1, <1>2 DEF RunnersRead, InSync, Same, WorkerRead
<1>5. ApiInv'
  BY <1>1, <1>3, <1>4 DEF IInv, ApiInv
<1>6. OperatorInv'
  <2>1. store' \in [Uids -> 0 .. MaxRunners] /\ retries' \in 0 .. MaxRetries
    BY <1>1, BackupAssumption DEF BackupAssumption
  <2>2. StoreInv'
    BY <1>1, <1>2 DEF StoreInv, ActiveRunnersStored, Active
  <2>3. dirty' \in BOOLEAN /\ runners' \in [RunnerIds -> Runners]
    BY <1>1, <1>2
  <2> QED
    BY <1>1, <1>2, <2>1, <2>2, <2>3 DEF IInv, ApiInv, OperatorInv
<1>7. KstoneInv'
  BY <1>1 DEF IInv, KstoneInv
<1> QED
  BY <1>5, <1>6, <1>7 DEF IInv

-----------------------------------------------------------------------------
(* The theorems *)

\* Every step keeps the invariant.
LEMMA NextInvariant == IInv /\ [Next]_vars => IInv'
<1> SUFFICES ASSUME IInv, [Next]_vars PROVE IInv'
  OBVIOUS
<1>1. CASE ToggleGate \/ EditConfig \/ CalmDown
  BY <1>1, UserInvariant
<1>2. CASE Kstone
  BY <1>2, KstoneInvariant
<1>3. CASE Deliver \/ Requeue
  BY <1>3, DeliverInvariant, RequeueInvariant
<1>4. CASE Worker
  BY <1>4, TakeItemInvariant, FinalizerInvariant, OneShotInvariant, ReportOneShotInvariant
     DEF Worker
<1>5. CASE \E i \in RunnerIds : Runner(i)
  BY <1>5, TickInvariant, RunBackupInvariant, ReportBackupInvariant DEF Runner
<1>6. CASE RestartOperator
  BY <1>6, RestartInvariant
<1>7. CASE UNCHANGED vars
  BY <1>7 DEF vars, kstoneVars, queueVars, operatorVars, IInv, ApiInv, OperatorInv, KstoneInv,
     CopiesHonest, Honest, RunnersRead, InSync, Same, WorkerRead, StoreInv,
     ActiveRunnersStored, Active
<1> QED
  BY <1>1, <1>2, <1>3, <1>4, <1>5, <1>6, <1>7 DEF Next

\* The inductive invariant holds in every state.
LEMMA Invariant == Spec => []IInv
BY InitInvariant, NextInvariant, PTL DEF Spec

\* Every variable of kstone's backup server and of the backup operator keeps its type, and
\* an EtcdBackup that is being deleted its finalizer.
THEOREM TypeCorrect == Spec => []TypeOK
<1>1. IInv => TypeOK
  BY DEF IInv, ApiInv, OperatorInv, KstoneInv, TypeOK
<1> QED
  BY <1>1, Invariant, PTL

\* An EtcdBackup never has two runners that are not cancelled, and the one it has can be
\* stopped: backupRunnerStore holds it.
THEOREM RunnersStored == Spec => []ActiveRunnersStored
<1>1. IInv => ActiveRunnersStored
  BY DEF IInv, OperatorInv, StoreInv
<1> QED
  BY <1>1, Invariant, PTL

\* An EtcdBackup whose status is a success was backed up with the specification it has,
\* whoever wrote it when.
THEOREM HonestStatus == Spec => []StatusHonest
<1>1. IInv => StatusHonest
  BY DEF IInv, ApiInv, CopiesHonest, Honest, StatusHonest
<1> QED
  BY <1>1, Invariant, PTL

\* No write of the operator takes back what kstone wrote.
LEMMA OperatorWrites ==
  ASSUME IInv, [Next]_vars, kpc' = kpc, bak' # bak
  PROVE  \/ bak'.uid = 0
         \/ bak'.uid = bak.uid /\ bak'.spec = bak.spec /\ bak'.deleting = bak.deleting
<1> DEFINE Kept == \/ bak'.uid = 0
                   \/ bak'.uid = bak.uid /\ bak'.spec = bak.spec /\ bak'.deleting = bak.deleting
<1>1. bak \in Backups /\ eb \in Backups
  BY DEF IInv, ApiInv, OperatorInv
<1>2. ASSUME NEW o \in Backups, Write(o) \/ Publish(o), Same(o, bak)
      PROVE  Kept
  <2>1. bak' = Settled(o)
    BY <1>2, WriteWritten DEF Written
  <2> QED
    BY <1>2, <2>1, SettledType DEF Same
<1>3. CASE Worker
  <2>1. worker \in current /\ pc # "idle" => Same(eb, bak)
    BY DEF IInv, ApiInv, WorkerRead
  <2>2. \A b \in BOOLEAN : /\ [eb EXCEPT !.fin = b] \in Backups
                           /\ Same(eb, bak) => Same([eb EXCEPT !.fin = b], bak)
    BY <1>1 DEF Backups, Same
  <2>3. CASE AddFinalizer \/ RemoveFinalizer
    <3>1. pc # "idle" /\ worker \in current /\ \E b \in BOOLEAN : Write([eb EXCEPT !.fin = b])
      BY <2>3 DEF AddFinalizer, RemoveFinalizer, WithoutFinalizer, Refused
    <3> QED
      BY <1>2, <2>1, <2>2, <3>1
  <2>4. CASE ReportOneShot
    <3>1. pc # "idle" /\ worker \in current /\ Publish(eb)
      BY <2>4 DEF ReportOneShot, Refused
    <3> QED
      BY <1>1, <1>2, <2>1, <3>1
  <2> QED
    BY <1>3, <2>3, <2>4 DEF Worker, TakeItem, OneShotBackup
<1>4. CASE \E i \in RunnerIds : Runner(i)
  <2>1. PICK i \in RunnerIds : Runner(i)
    BY <1>4
  <2>2. ReportBackup(i) /\ Reported(i, runners[i].at) /\ runners[i].at \in {"ok", "failed"}
    BY <2>1 DEF Runner, Tick, RunBackup, ReportBackup, Refused
  <2>3. /\ [bak EXCEPT !.status = runners[i].at] \in Backups
        /\ Same([bak EXCEPT !.status = runners[i].at], bak)
    BY <1>1, <2>2 DEF Backups, Same
  <2> QED
    BY <1>2, <2>2, <2>3 DEF Reported
<1>5. CASE ~ Worker /\ ~ \E i \in RunnerIds : Runner(i)
  BY <1>5 DEF Next, vars, ToggleGate, EditConfig, CalmDown, Deliver, Requeue, RestartOperator,
     Kstone, StartSync, CreateEtcdBackup, ReadVersion, ReplaceEtcdBackup, CleanBackup, RecordStatus
<1> QED
  BY <1>3, <1>4, <1>5

\* The operator writes whole EtcdBackups to change a finalizer or a status; it never takes
\* back a specification or a deletion, and never brings back one that is gone.
THEOREM SpecKept == Spec => OperatorKeepsSpec
<1>1. ASSUME IInv, [Next]_vars
      PROVE  [kpc' = kpc /\ bak' # bak =>
               \/ bak'.uid = 0
               \/ bak'.uid = bak.uid /\ bak'.spec = bak.spec /\ bak'.deleting = bak.deleting]_vars
  BY <1>1, OperatorWrites
<1> QED
  BY <1>1, Invariant, PTL DEF Spec, OperatorKeepsSpec

\* Between a successful Delete and the write of the status.
DeletedInv == kpc = "recordDisabled" => bak.uid = 0 \/ bak.deleting

\* No step of the operator brings the EtcdBackup back before the status is written.
LEMMA DeletedInvariant ==
  ASSUME IInv, DeletedInv, [Next]_vars
  PROVE  DeletedInv'
<1> SUFFICES ASSUME kpc' = "recordDisabled" PROVE bak'.uid = 0 \/ bak'.deleting
  BY DEF DeletedInv
<1>1. CASE kpc' = kpc
  BY <1>1, OperatorWrites DEF DeletedInv
<1>2. CASE kpc' # kpc
  <2>1. Remove
    BY <1>2 DEF Next, vars, ToggleGate, EditConfig, CalmDown, Deliver, Requeue, RestartOperator,
       kstoneVars, Worker, TakeItem, AddFinalizer, RemoveFinalizer, OneShotBackup, ReportOneShot,
       WorkerFrame, Runner, Tick, RunBackup, ReportBackup, RunnerFrame,
       Kstone, StartSync, CreateEtcdBackup, ReadVersion, ReplaceEtcdBackup, CleanBackup,
       RecordStatus
  <2>2. bak \in Backups
    BY DEF IInv, ApiInv
  <2> DEFINE o == [bak EXCEPT !.deleting = TRUE]
  <2>3. o \in Backups /\ o.deleting
    BY <2>2 DEF Backups
  <2>4. CASE bak.uid = 0
    BY <2>1, <2>4 DEF Remove
  <2>5. CASE Write(o)
    <3>1. (bak' = bak /\ o = bak) \/ bak' = Settled(o)
      BY <2>5 DEF Write, Publish
    <3>2. Settled(o).uid = 0 \/ Settled(o) = o
      BY <2>3, SettledType
    <3> QED
      BY <2>3, <3>1, <3>2
  <2> QED
    BY <2>1, <2>4, <2>5 DEF Remove
<1> QED
  BY <1>1, <1>2

\* The feature is recorded as disabled only when its EtcdBackup is gone or being deleted,
\* whatever the operator has written between the Delete and the status update.
THEOREM DisabledDeleted == Spec => DisabledBackupDeleted
<1>1. Init => DeletedInv
  BY DEF Init, DeletedInv
<1>2. Spec => []DeletedInv
  BY <1>1, Invariant, DeletedInvariant, PTL DEF Spec
<1>3. ASSUME DeletedInv, [Next]_vars
      PROVE  [disabled' /\ ~ disabled => bak.uid = 0 \/ bak.deleting]_vars
  <2> SUFFICES ASSUME disabled', ~ disabled PROVE bak.uid = 0 \/ bak.deleting
    OBVIOUS
  <2>1. kpc = "recordDisabled"
    BY <1>3 DEF Next, vars, ToggleGate, EditConfig, CalmDown, Deliver, Requeue, RestartOperator,
       kstoneVars, Worker, TakeItem, AddFinalizer, RemoveFinalizer, OneShotBackup, ReportOneShot,
       WorkerFrame, Runner, Tick, RunBackup, ReportBackup, RunnerFrame,
       Kstone, StartSync, CreateEtcdBackup, ReadVersion, ReplaceEtcdBackup, CleanBackup,
       RecordStatus, SyncFrame
  <2> QED
    BY <1>3, <2>1 DEF DeletedInv
<1> QED
  BY <1>2, <1>3, PTL DEF Spec, DisabledBackupDeleted
=============================================================================
