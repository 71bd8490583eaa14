------------------------- MODULE ControllerProcess -------------------------
(***************************************************************************)
(* The processes of a kstone controller (cmd/kstone-controller, Run of the *)
(* two controllers): each starts its informers, stands for election on one *)
(* Lease, and as the leader waits for its caches and runs workers on its   *)
(* work queue until a signal stops it or the Lease is lost, which ends the *)
(* process.  The leader's clock starts when it learns that a renewal was   *)
(* made; a candidate's when it sees the Lease change.                      *)
(*                                                                         *)
(* A tick is the RetryPeriod of 5 seconds.  What a reconcile does is in    *)
(* EtcdClusterController and RequestInspection; here it is only known      *)
(* whether it has seen the last change of its object.                      *)
(***************************************************************************)
EXTENDS Integers, FiniteSets

CONSTANTS
  Command,      \* "etcdcluster" or "inspection"
  Processes,    \* the replicas
  Keys,         \* the objects of the controller
  None,         \* no process
  MaxChanges,   \* changes of objects (bound)
  MaxMishaps    \* signals, kills, outages and failing reconciles (bound)

ASSUME ProcessAssumption ==
  /\ Command \in {"etcdcluster", "inspection"}
  /\ None \notin Processes
  /\ MaxChanges \in Nat /\ MaxMishaps \in Nat

\* makeLeaderElectionConfig of the two commands, in ticks.
ClusterElection    == [lease |-> 12, deadline |-> 3, retry |-> 1]
InspectionElection == [lease |-> 12, deadline |-> 3, retry |-> 1]
Election == IF Command = "etcdcluster" THEN ClusterElection ELSE InspectionElection

Threads == 2   \* threadiness

Phases == {"down", "candidate", "leading", "stopping", "released"}

VARIABLES
  holder,     \* the holder the Lease names, or None
  unread,     \* the candidates that have not seen the Lease's last change
  waited,     \* ticks since a candidate last saw it change
  since,      \* ticks since the leader learnt of its last renewal
  renewing,   \* leaders whose renewal is made, but not answered
  phase,
  stopped,    \* the processes that got the first signal: stopCh is closed
  synced,     \* the processes whose caches are filled
  ran,        \* the processes whose workers were started
  outage,     \* the processes that do not reach the API server
  due,        \* objects whose last change no reconcile has dealt with (history)
  unseen,     \* changes on their way to the informer
  queue,      \* the work queue
  work,       \* the keys in the hands of workers, "fresh" when the worker has
              \* seen the last change (history)
  changes, mishaps

NoWork == [k \in Keys |-> "no"]
InHand(p) == {k \in Keys : work[p][k] # "no"}

leaseVars == <<holder, unread, waited, since, renewing>>
workVars  == <<due, unseen, queue, work>>
vars == <<holder, unread, waited, since, renewing, phase, stopped, synced, ran, outage, due,
          unseen, queue, work, changes, mishaps>>

Init ==
  /\ holder = None /\ unread = {} /\ renewing = {}
  /\ waited = [p \in Processes |-> 0] /\ since = [p \in Processes |-> 0]
  /\ phase = [p \in Processes |-> "down"]
  /\ stopped = {} /\ ran = {} /\ outage = {} /\ due = Keys
  /\ synced = {}
  /\ unseen = [p \in Processes |-> {}] /\ queue = [p \in Processes |-> {}]
  /\ work = [p \in Processes |-> NoWork]
  /\ changes = 0 /\ mishaps = 0

Mishap == mishaps < MaxMishaps /\ mishaps' = mishaps + 1

Up == {p \in Processes : phase[p] # "down"}
Leads(p) == phase[p] = "leading"

\* The process ends, and with it its workers, its queue and its caches.
Ends(p) ==
  /\ phase' = [phase EXCEPT ![p] = "down"]
  /\ stopped' = stopped \ {p} /\ ran' = ran \ {p} /\ outage' = outage \ {p}
  /\ renewing' = renewing \ {p} /\ unread' = unread \ {p}
  /\ waited' = [waited EXCEPT ![p] = 0] /\ since' = [since EXCEPT ![p] = 0]
  /\ synced' = synced \ {p}
  /\ unseen' = [unseen EXCEPT ![p] = {}] /\ queue' = [queue EXCEPT ![p] = {}]
  /\ work' = [work EXCEPT ![p] = NoWork]
  /\ UNCHANGED <<holder, due, changes>>

-----------------------------------------------------------------------------
(* Start and end of a process                                              *)

\* Run: clients and informers; the Lease is read for the first time.
Start(p) ==
  /\ phase[p] = "down"
  /\ phase' = [phase EXCEPT ![p] = "candidate"]
  /\ unread' = unread \cup {p}
  /\ UNCHANGED <<holder, waited, since, renewing, stopped, synced, ran, outage, workVars,
                 changes, mishaps>>

\* The informers have listed their objects; the controller's own makes each a key.
Sync(p) ==
  /\ p \in Up \ (synced \cup outage)
  /\ synced' = synced \cup {p}
  /\ unseen' = [unseen EXCEPT ![p] = {}] /\ queue' = [queue EXCEPT ![p] = Keys]
  /\ UNCHANGED <<leaseVars, phase, stopped, ran, outage, due, work, changes, mishaps>>

\* SIGTERM or SIGINT: the first closes stopCh, the second ends the process.
Signal(p) ==
  /\ phase[p] # "down" /\ p \notin stopped
  /\ Mishap
  /\ stopped' = stopped \cup {p}
  /\ UNCHANGED <<leaseVars, phase, synced, ran, outage, workVars, changes>>

SecondSignal(p) == p \in stopped /\ Mishap /\ Ends(p)

Kill(p) == phase[p] # "down" /\ Mishap /\ Ends(p)

\* WaitForCacheSync gives up once stopCh is closed, and the callback calls Fatalf.
Unsynced(p) ==
  /\ phase[p] \in {"leading", "stopping", "released"} /\ p \in stopped \ (ran \cup synced)
  /\ Ends(p) /\ UNCHANGED mishaps

\* Mutant of Stopped: OnStoppedLeading leaves the process as it is.
StoppedGoesOn(p) ==
  /\ phase' = [phase EXCEPT ![p] = "candidate"]
  /\ since' = [since EXCEPT ![p] = 0] /\ unread' = unread \cup {p}
  /\ UNCHANGED <<holder, waited, renewing, stopped, synced, ran, outage, workVars, changes>>

\* OnStoppedLeading: os.Exit, whatever the workers are doing.
Stopped(p) == Ends(p)

Exit(p) ==
  /\ phase[p] = "released" \/ (phase[p] = "candidate" /\ p \in stopped)
  /\ Stopped(p) /\ UNCHANGED mishaps

-----------------------------------------------------------------------------
(* The election (client-go, with the configuration above)                  *)

Others(p) == {q \in Up : q # p}

\* A candidate looks at the Lease, and its clock starts again when that has changed.
Observe(p) ==
  /\ phase[p] = "candidate" /\ p \in unread \ outage
  /\ unread' = unread \ {p} /\ waited' = [waited EXCEPT ![p] = 0]
  /\ UNCHANGED <<holder, since, renewing, phase, stopped, synced, ran, outage, workVars,
                 changes, mishaps>>

\* Mutant of Expired: the lease lasts as long as its holder tries to renew it.
ExpiredAtDeadline(p) == waited[p] >= Election.deadline

\* The holder has not renewed for LeaseDuration, by the candidate's own clock.
Expired(p) == waited[p] >= Election.lease

Acquire(p) ==
  /\ phase[p] = "candidate" /\ p \notin outage \cup stopped
  /\ holder = None \/ (p \notin unread /\ Expired(p))
  /\ holder' = p /\ unread' = (unread \cup Others(p)) \ {p}
  /\ waited' = [waited EXCEPT ![p] = 0]
  /\ phase' = [phase EXCEPT ![p] = "leading"]
  /\ UNCHANGED <<since, renewing, stopped, synced, ran, outage, workVars, changes, mishaps>>

\* The Update of the Lease is made; its answer may come later, or never.
Renew(p) ==
  /\ Leads(p) /\ p \notin outage \cup renewing /\ holder = p
  /\ since[p] >= Election.retry
  /\ renewing' = renewing \cup {p} /\ unread' = unread \cup Others(p)
  /\ UNCHANGED <<holder, waited, since, phase, stopped, synced, ran, outage, workVars,
                 changes, mishaps>>

Renewed(p) ==
  /\ Leads(p) /\ p \in renewing \ outage
  /\ renewing' = renewing \ {p} /\ since' = [since EXCEPT ![p] = 0]
  /\ UNCHANGED <<holder, unread, waited, phase, stopped, synced, ran, outage, workVars,
                 changes, mishaps>>

\* The leader has tried for RenewDeadline, or its context is cancelled.
GivesUp(p) == since[p] >= Election.retry + Election.deadline \/ p \in stopped

StepDown(p) ==
  /\ Leads(p) /\ GivesUp(p)
  /\ phase' = [phase EXCEPT ![p] = "stopping"] /\ renewing' = renewing \ {p}
  /\ UNCHANGED <<holder, unread, waited, since, stopped, synced, ran, outage, workVars,
                 changes, mishaps>>

\* ReleaseOnCancel: the holder is taken out of the Lease, if the API server is there.
Release(p) ==
  /\ phase[p] = "stopping"
  /\ phase' = [phase EXCEPT ![p] = "released"]
  /\ IF p \notin outage /\ holder = p
     THEN holder' = None /\ unread' = unread \cup Others(p)
     ELSE UNCHANGED <<holder, unread>>
  /\ UNCHANGED <<waited, since, renewing, stopped, synced, ran, outage, workVars, changes,
                 mishaps>>

\* Time passes, but whoever reaches the API server looks at the Lease, or renews it,
\* every RetryPeriod, and a leader that does not steps down at its deadline.
Tick ==
  /\ \A p \in unread : phase[p] # "candidate" \/ p \in outage
  /\ \A p \in Processes : Leads(p) =>
       since[p] < (IF p \in outage THEN Election.retry + Election.deadline ELSE Election.retry)
  /\ waited' = [p \in Processes |->
                  IF phase[p] = "candidate" /\ ~ Expired(p) THEN waited[p] + 1 ELSE waited[p]]
  /\ since' = [p \in Processes |-> IF Leads(p) THEN since[p] + 1 ELSE since[p]]
  /\ <<waited, since>>' # <<waited, since>>
  /\ UNCHANGED <<holder, unread, renewing, phase, stopped, synced, ran, outage, workVars,
                 changes, mishaps>>

Lose(p) ==
  /\ phase[p] # "down" /\ p \notin outage
  /\ Mishap
  /\ outage' = outage \cup {p}
  /\ UNCHANGED <<leaseVars, phase, stopped, synced, ran, workVars, changes>>

Return(p) ==
  /\ p \in outage /\ outage' = outage \ {p}
  /\ UNCHANGED <<leaseVars, phase, stopped, synced, ran, workVars, changes, mishaps>>

-----------------------------------------------------------------------------
(* Informer, work queue and workers                                        *)

\* The object is changed, and no reconcile that is running has seen that.
Change(k) ==
  /\ changes < MaxChanges /\ changes' = changes + 1
  /\ due' = due \cup {k}
  /\ unseen' = [p \in Processes |-> IF p \in Up THEN unseen[p] \cup {k} ELSE {}]
  /\ work' = [p \in Processes |->
                IF k \in InHand(p) THEN [work[p] EXCEPT ![k] = "stale"] ELSE work[p]]
  /\ UNCHANGED <<leaseVars, phase, stopped, synced, ran, outage, queue, mishaps>>

\* A work queue that is shut down takes nothing more: Run has returned.
Enqueued(p, k) == IF p \in ran \cap stopped THEN queue[p] ELSE queue[p] \cup {k}

\* The event reaches a cache that has been listed.
Deliver(p, k) ==
  /\ k \in unseen[p] /\ p \in synced \ outage
  /\ unseen' = [unseen EXCEPT ![p] = @ \ {k}]
  /\ queue' = [queue EXCEPT ![p] = Enqueued(p, k)]
  /\ UNCHANGED <<leaseVars, phase, stopped, synced, ran, outage, due, work, changes, mishaps>>

\* The informers' resync of 30 seconds.
Resync(p) ==
  /\ p \in synced
  /\ queue' = [queue EXCEPT ![p] = {k \in Keys : k \in Enqueued(p, k)}]
  /\ UNCHANGED <<leaseVars, phase, stopped, synced, ran, outage, due, unseen, work, changes,
                 mishaps>>

Ready(p) == p \in synced

\* Run, called by OnStartedLeading.
RunWorkers(p) ==
  /\ Leads(p) /\ p \notin ran \cup stopped /\ Ready(p)
  /\ ran' = ran \cup {p}
  /\ UNCHANGED <<leaseVars, phase, stopped, synced, outage, workVars, changes, mishaps>>

\* A worker takes a key no other has; its reconcile reads the cache.
TakeItem(p, k) ==
  /\ p \in ran /\ k \in queue[p] \ InHand(p)
  /\ Cardinality(InHand(p)) < Threads
  /\ queue' = [queue EXCEPT ![p] = @ \ {k}]
  /\ work' = [work EXCEPT ![p][k] = IF k \in unseen[p] THEN "stale" ELSE "fresh"]
  /\ UNCHANGED <<leaseVars, phase, stopped, synced, ran, outage, due, unseen, changes, mishaps>>

\* Mutant of Failed: the key of a reconcile that failed is forgotten.
FailedForgotten(p, k) == queue[p]

\* ProcessWorkQueue: AddRateLimited after an error.
Failed(p, k) == Enqueued(p, k)

Done(p, k) ==
  /\ k \in InHand(p) /\ work' = [work EXCEPT ![p][k] = "no"]
  /\ UNCHANGED <<leaseVars, phase, stopped, synced, ran, outage, unseen, changes>>

Succeed(p, k) ==
  /\ Done(p, k) /\ p \notin outage
  /\ due' = IF work[p][k] = "fresh" THEN due \ {k} ELSE due
  /\ UNCHANGED <<queue, mishaps>>

Fail(p, k) ==
  /\ Done(p, k)
  /\ (p \in outage /\ UNCHANGED mishaps) \/ (p \notin outage /\ Mishap)
  /\ queue' = [queue EXCEPT ![p] = Failed(p, k)]
  /\ UNCHANGED due

-----------------------------------------------------------------------------

\* The command and the election.
Proceed(p) ==
  \/ Sync(p) \/ RunWorkers(p) \/ StepDown(p) \/ Release(p) \/ Unsynced(p) \/ Exit(p)

Stand(p) == Observe(p) \/ Acquire(p)
Stay(p)  == Renew(p) \/ Renewed(p)

Inform(p) == \E k \in Keys : Deliver(p, k)
Work(p)   == \E k \in Keys : TakeItem(p, k) \/ Succeed(p, k)

Disturb(p) ==
  \/ Signal(p) \/ SecondSignal(p) \/ Kill(p) \/ Lose(p)
  \/ \E k \in Keys : Fail(p, k)

Next ==
  \/ \E p \in Processes :
       \/ Proceed(p) \/ Stand(p) \/ Stay(p) \/ Inform(p) \/ Work(p)
       \/ Disturb(p) \/ Start(p) \/ Return(p) \/ Resync(p)
  \/ \E k \in Keys : Change(k)
  \/ Tick

Spec == Init /\ [][Next]_vars

\* Deployments start their pods again, an outage ends, time passes, and a process
\* that is up goes on.  The resync is not needed for what follows.
FairSpec ==
  /\ Spec
  /\ WF_vars(Tick)
  /\ \A p \in Processes :
       /\ WF_vars(Start(p)) /\ WF_vars(Return(p)) /\ WF_vars(Proceed(p))
       /\ WF_vars(Stand(p)) /\ WF_vars(Stay(p))
       /\ WF_vars(Inform(p)) /\ WF_vars(Work(p))

-----------------------------------------------------------------------------

TypeOK ==
  /\ holder \in Processes \cup {None} /\ unread \subseteq Up
  /\ waited \in [Processes -> 0 .. Election.lease]
  /\ since \in [Processes -> 0 .. Election.retry + Election.deadline]
  /\ phase \in [Processes -> Phases]
  /\ renewing \subseteq {p \in Processes : Leads(p)}
  /\ stopped \subseteq Up /\ ran \subseteq Up /\ outage \subseteq Up
  /\ synced \subseteq Up /\ due \subseteq Keys
  /\ unseen \in [Processes -> SUBSET Keys] /\ queue \in [Processes -> SUBSET Keys]
  /\ work \in [Processes -> [Keys -> {"no", "stale", "fresh"}]]
  /\ changes \in 0 .. MaxChanges /\ mishaps \in 0 .. MaxMishaps

(* Two processes never have workers at the same time unless one of them is *)
(* stepping down: a leader that loses the API server gives up before       *)
(* anybody may take its Lease (controller.go:215-218, 227-231).  While it  *)
(* steps down its workers go on, and the next leader may have started.     *)
OneLeaderWorks ==
  \A p, q \in ran : p # q => {phase[p], phase[q]} \cap {"stopping", "released"} # {}

(* A running leader has every object whose last change is not dealt with   *)
(* in its queue, in a worker's hands, or on the way to its informer,       *)
(* whatever its predecessors left undone (util.go:174-195,                 *)
(* etcdclusters_controller.go:126-163).                                    *)
Holds(p, k) == k \in queue[p] \cup unseen[p] \cup InHand(p)
NothingForgotten ==
  \A p \in ran \ stopped : \A k \in due : Holds(p, k)

(* Once changes and mishaps end, a leader deals with every change, though  *)
(* leaders were killed, stopped or cut off in the middle of a reconcile.   *)
ChangesReconciled == <>[](due = {})
=============================================================================
