----------------------- MODULE ControllerProcess_proofs -----------------------
(***************************************************************************)
(* Theorems about the processes of a kstone controller, for every number   *)
(* of replicas and objects, and of signals, kills, outages and errors.     *)
(***************************************************************************)
EXTENDS ControllerProcess, TLAPS

\* Who leads is named by the Lease, and a candidate that has seen the Lease's last
\* change has not waited much longer than the leader has tried to renew it: the leader
\* reaches its deadline before anybody may take the Lease.
LeaseInv ==
  /\ \A p \in Processes : phase[p] \in {"down", "candidate"} => since[p] = 0 /\ p \notin ran
  /\ \A p \in Processes : Leads(p) => holder = p
  /\ \A p \in renewing : since[p] >= 1
  /\ \A p, q \in Processes :
       Leads(p) /\ phase[q] = "candidate" /\ q \notin unread =>
         waited[q] <= IF p \in renewing THEN since[p] - 1 ELSE since[p] + 3

\* A process whose work queue still takes keys has listed its objects before its workers
\* start, holds every object that is due, and will come back to one whose reconcile has
\* not seen the last change.
Serving == {p \in synced : p \notin ran \cap stopped}

QueueInv ==
  /\ ran \subseteq synced
  /\ \A p \in Serving : \A k \in due : Holds(p, k)
  /\ \A p \in Serving : \A k \in Keys : work[p][k] = "stale" => k \in unseen[p] \cup queue[p]

\* The inductive invariant.
IInv == TypeOK /\ LeaseInv /\ QueueInv

\* The two commands configure the same election.
LEMMA ElectionValues ==
  Election.lease = 12 /\ Election.deadline = 3 /\ Election.retry = 1
BY DEF Election, ClusterElection, InspectionElection

-----------------------------------------------------------------------------
(* The initial states, and the end of a process *)

\* No process runs at the start.
LEMMA InitInvariant == Init => IInv
<1> SUFFICES ASSUME Init PROVE IInv
  OBVIOUS
<1> USE ProcessAssumption, ElectionValues DEF ProcessAssumption
<1>1. TypeOK
  BY DEF Init, TypeOK, Phases, NoWork, Leads
<1>2. LeaseInv /\ QueueInv
  BY DEF Init, LeaseInv, QueueInv, Leads, Serving, NoWork
<1> QED
  BY <1>1, <1>2 DEF IInv

\* A process that ends leaves nothing of itself behind but its lease.
LEMMA EndsInvariant ==
  ASSUME IInv, NEW p \in Processes, Ends(p), mishaps' \in 0 .. MaxMishaps
  PROVE  IInv'
<1> USE ElectionValues
<1>1. TypeOK'
  BY DEF IInv, TypeOK, Ends, Phases, NoWork, Leads, Up
<1>2. LeaseInv'
  BY DEF IInv, TypeOK, LeaseInv, Ends, Leads
<1>3. QueueInv'
  <2>1. Serving' \subseteq Serving \ {p}
    BY DEF Serving, Ends
  <2> QED
    BY <2>1 DEF IInv, TypeOK, QueueInv, Ends, Holds, InHand, Serving
<1> QED
  BY <1>1, <1>2, <1>3 DEF IInv

\* The mishaps stay within their bound.
LEMMA MishapType == TypeOK /\ Mishap => mishaps' \in 0 .. MaxMishaps
BY ProcessAssumption DEF ProcessAssumption, TypeOK, Mishap

-----------------------------------------------------------------------------
(* The steps that leave the queues as they are: those of the election, and  *)
(* the signals and outages                                                  *)

\* A queue goes on holding what is due while nothing but the signals changes.
LEMMA QueueKept ==
  ASSUME QueueInv, UNCHANGED <<synced, ran, due, unseen, queue, work>>, stopped \subseteq stopped'
  PROVE  QueueInv'
<1>1. Serving' \subseteq Serving
  BY DEF Serving
<1> QED
  BY <1>1 DEF QueueInv, Holds, InHand

\* A process starts as a candidate.
LEMMA StartInvariant ==
  ASSUME IInv, NEW p \in Processes, Start(p)
  PROVE  IInv'
<1> USE ElectionValues
<1>1. TypeOK'
  BY DEF IInv, TypeOK, Start, Phases, workVars, Leads, Up
<1>2. LeaseInv'
  BY DEF IInv, TypeOK, LeaseInv, Start, Leads
<1>3. QueueInv'
  BY QueueKept DEF IInv, Start, workVars
<1> QED
  BY <1>1, <1>2, <1>3 DEF IInv

\* A signal cancels the context of the process.
LEMMA SignalInvariant ==
  ASSUME IInv, NEW p \in Processes, Signal(p) \/ Lose(p) \/ Return(p)
  PROVE  IInv'
<1>1. mishaps' \in 0 .. MaxMishaps
  BY MishapType DEF IInv, TypeOK, Signal, Lose, Return
<1>2. /\ UNCHANGED <<holder, unread, waited, since, renewing, phase, synced, ran, due, unseen,
                     queue, work, changes>>
      /\ stopped \subseteq stopped' /\ stopped' \subseteq Up /\ outage' \subseteq Up
  BY DEF IInv, TypeOK, Signal, Lose, Return, leaseVars, workVars, Up
<1>3. TypeOK'
  BY <1>1, <1>2 DEF IInv, TypeOK, Leads, Up
<1>4. LeaseInv'
  BY <1>2 DEF IInv, LeaseInv, Leads
<1>5. QueueInv'
  BY <1>2, QueueKept DEF IInv
<1> QED
  BY <1>3, <1>4, <1>5 DEF IInv

\* A candidate looks at the lease.
LEMMA ObserveInvariant ==
  ASSUME IInv, NEW p \in Processes, Observe(p)
  PROVE  IInv'
<1> USE ElectionValues
<1>1. TypeOK'
  BY DEF IInv, TypeOK, Observe, workVars, Leads, Up
<1>2. LeaseInv'
  BY DEF IInv, TypeOK, LeaseInv, Observe, Leads
<1>3. QueueInv'
  BY QueueKept DEF IInv, Observe, workVars
<1> QED
  BY <1>1, <1>2, <1>3 DEF IInv

\* A Lease that is taken has no leader any more.
LEMMA AcquireInvariant ==
  ASSUME IInv, NEW p \in Processes, Acquire(p)
  PROVE  IInv'
<1> USE ElectionValues
<1>1. TypeOK'
  BY DEF IInv, TypeOK, Acquire, Others, Phases, workVars, Leads, Up
<1>2. \A q \in Processes : ~ Leads(q)
  <2> SUFFICES ASSUME NEW q \in Processes, Leads(q)
               PROVE  FALSE
    OBVIOUS
  <2>1. holder = q /\ holder # None
    BY ProcessAssumption DEF ProcessAssumption, IInv, LeaseInv
  <2>2. phase[p] = "candidate" /\ p \notin unread /\ waited[p] >= 12
    BY <2>1 DEF Acquire, Expired
  <2>3. since[q] \in 0 .. 4 /\ waited[p] \in Int
    BY DEF IInv, TypeOK
  <2>4. waited[p] <= IF q \in renewing THEN since[q] - 1 ELSE since[q] + 3
    BY <2>2 DEF IInv, LeaseInv
  <2> QED
    BY <2>2, <2>3, <2>4
<1>3. LeaseInv'
  <2>1. \A q \in Processes : Leads(q)' => q = p /\ holder' = q
    BY <1>2 DEF IInv, TypeOK, Acquire, Leads
  <2>2. \A q \in Processes : phase'[q] = "candidate" => q \in unread'
    BY DEF IInv, TypeOK, Acquire, Others, Up
  <2> QED
    BY <2>1, <2>2 DEF IInv, TypeOK, LeaseInv, Acquire, Leads
<1>4. QueueInv'
  BY QueueKept DEF IInv, Acquire, workVars
<1> QED
  BY <1>1, <1>3, <1>4 DEF IInv

\* A renewal that is made restarts the candidates' clocks; one that is answered the leader's.
LEMMA StayInvariant ==
  ASSUME IInv, NEW p \in Processes, Stay(p)
  PROVE  IInv'
<1> USE ElectionValues
<1>1. TypeOK'
  BY DEF IInv, TypeOK, Stay, Renew, Renewed, Others, workVars, Leads, Up
<1>2. ASSUME Renew(p) PROVE LeaseInv'
  <2>1. \A q \in Processes : phase'[q] = "candidate" => q \in unread'
    BY <1>2 DEF IInv, TypeOK, Renew, Others, Up, Leads
  <2>2. /\ UNCHANGED <<holder, since, phase, ran>>
        /\ renewing' = renewing \cup {p} /\ since[p] >= 1
    BY <1>2 DEF Renew
  <2>3. \A q \in Processes : phase'[q] \in {"down", "candidate"} => since'[q] = 0 /\ q \notin ran'
    BY <2>2 DEF IInv, LeaseInv
  <2>4. \A q \in Processes : Leads(q)' => holder' = q
    BY <2>2 DEF IInv, LeaseInv, Leads
  <2>5. \A q \in renewing' : since'[q] >= 1
    BY <2>2 DEF IInv, LeaseInv
  <2> QED
    BY <2>1, <2>3, <2>4, <2>5 DEF LeaseInv
<1>3. ASSUME Renewed(p) PROVE LeaseInv'
  <2>1. /\ UNCHANGED <<holder, unread, waited, phase, ran>>
        /\ renewing' = renewing \ {p} /\ p \in renewing /\ Leads(p)
    BY <1>3 DEF Renewed
  <2>2. since'[p] = 0 /\ \A q \in Processes \ {p} : since'[q] = since[q]
    BY <1>3 DEF IInv, TypeOK, Renewed
  <2>3. since[p] \in 0 .. 4 /\ waited \in [Processes -> 0 .. 12] /\ renewing \subseteq Processes
    BY DEF IInv, TypeOK
  <2>4. \A q \in Processes : phase[q] = "candidate" /\ q \notin unread =>
          waited[q] <= since[p] - 1
    BY <2>1 DEF IInv, LeaseInv
  <2>5. \A q \in Processes : phase[q] = "candidate" /\ q \notin unread => waited[q] <= 3
    BY <2>3, <2>4
  <2>6. \A q \in Processes : phase'[q] \in {"down", "candidate"} => since'[q] = 0 /\ q \notin ran'
    BY <2>1, <2>2 DEF IInv, LeaseInv
  <2>7. \A q \in renewing' : since'[q] >= 1
    BY <2>1, <2>2, <2>3 DEF IInv, LeaseInv
  <2>8. \A q, o \in Processes :
          Leads(q)' /\ phase'[o] = "candidate" /\ o \notin unread' =>
            waited'[o] <= IF q \in renewing' THEN since'[q] - 1 ELSE since'[q] + 3
    BY <2>1, <2>2, <2>5 DEF IInv, LeaseInv, Leads
  <2>9. \A q \in Processes : Leads(q)' => holder' = q
    BY <2>1 DEF IInv, LeaseInv, Leads
  <2> QED
    BY <2>6, <2>7, <2>8, <2>9 DEF LeaseInv
<1>4. QueueInv'
  BY QueueKept DEF IInv, Stay, Renew, Renewed, workVars
<1> QED
  BY <1>1, <1>2, <1>3, <1>4 DEF IInv, Stay

\* A leader gives up before its lease is over.
LEMMA StepDownInvariant ==
  ASSUME IInv, NEW p \in Processes, StepDown(p) \/ Release(p)
  PROVE  IInv'
<1> USE ElectionValues
<1>1. TypeOK'
  <2>1. CASE StepDown(p)
    BY <2>1 DEF IInv, TypeOK, StepDown, Phases, workVars, Leads, Up
  <2>2. CASE Release(p)
    BY <2>2 DEF IInv, TypeOK, Release, Others, Phases, workVars, Leads, Up
  <2> QED
    BY <2>1, <2>2
<1>2. LeaseInv'
  <2>1. \A q \in Processes : Leads(q)' => Leads(q) /\ q # p
    BY DEF IInv, TypeOK, StepDown, Release, Leads
  <2>2. \A q \in Processes : phase'[q] = "candidate" => phase[q] = "candidate"
    BY DEF IInv, TypeOK, StepDown, Release
  <2>3. \A q \in Processes : Leads(q)' => holder' = q
    BY <2>1 DEF IInv, LeaseInv, StepDown, Release
  <2>4. UNCHANGED <<waited, since, ran>> /\ unread \subseteq unread'
    BY DEF StepDown, Release
  <2>5. renewing' \subseteq renewing /\ \A q \in Processes \ {p} : q \in renewing' <=> q \in renewing
    BY DEF StepDown, Release
  <2>6. \A q \in Processes : phase'[q] \in {"down", "candidate"} => phase'[q] = phase[q]
    BY DEF IInv, TypeOK, StepDown, Release
  <2> QED
    BY <2>1, <2>2, <2>3, <2>4, <2>5, <2>6 DEF IInv, LeaseInv
<1>3. QueueInv'
  BY QueueKept DEF IInv, StepDown, Release, workVars
<1> QED
  BY <1>1, <1>2, <1>3 DEF IInv

\* The clocks of the leader and of the candidates go at the same pace.
LEMMA TickInvariant ==
  ASSUME IInv, Tick
  PROVE  IInv'
<1> USE ElectionValues
<1>1. UNCHANGED <<holder, unread, renewing, phase, stopped, synced, ran, outage, due, unseen,
                  queue, work, changes, mishaps>>
  BY DEF Tick, workVars
<1>2. waited \in [Processes -> 0 .. 12] /\ since \in [Processes -> 0 .. 4]
  BY DEF IInv, TypeOK
<1>3. \A p \in Processes : Leads(p) => since[p] < 4
  <2> SUFFICES ASSUME NEW p \in Processes, Leads(p)
               PROVE  since[p] < 4
    OBVIOUS
  <2>1. since[p] < IF p \in outage THEN 4 ELSE 1
    BY DEF Tick
  <2> QED
    BY <2>1, <1>2
<1>4. waited' = [p \in Processes |-> IF phase[p] = "candidate" /\ ~ (waited[p] >= 12)
                                     THEN waited[p] + 1 ELSE waited[p]]
  BY DEF Tick, Expired
<1>5. since' = [p \in Processes |-> IF Leads(p) THEN since[p] + 1 ELSE since[p]]
  BY DEF Tick
<1>6. waited' \in [Processes -> 0 .. 12]
  BY <1>2, <1>4
<1>7. since' \in [Processes -> 0 .. 4]
  BY <1>2, <1>3, <1>5
<1>8. TypeOK'
  BY <1>1, <1>6, <1>7 DEF IInv, TypeOK, Leads, Up
<1>9. LeaseInv'
  <2>1. \A p \in Processes : phase[p] \in {"down", "candidate"} => since'[p] = 0 /\ p \notin ran
    BY <1>5 DEF IInv, LeaseInv, Leads
  <2>2. \A p \in Processes : Leads(p) => since'[p] = since[p] + 1
    BY <1>5
  <2>3. \A p \in Processes : waited'[p] <= waited[p] + 1
    BY <1>2, <1>4
  <2>4. \A p \in renewing : p \in Processes /\ Leads(p)
    BY DEF IInv, TypeOK
  <2>5. \A p \in renewing : since'[p] >= 1
    BY <2>2, <2>4, <1>2
  <2>6. ASSUME NEW p \in Processes, NEW q \in Processes,
               Leads(p), phase[q] = "candidate", q \notin unread
        PROVE  waited'[q] <= IF p \in renewing THEN since'[p] - 1 ELSE since'[p] + 3
    <3>1. waited[q] <= IF p \in renewing THEN since[p] - 1 ELSE since[p] + 3
      BY <2>6 DEF IInv, LeaseInv
    <3>2. waited'[q] <= waited[q] + 1 /\ since'[p] = since[p] + 1
      BY <2>2, <2>3, <2>6
    <3>3. waited[q] \in Int /\ waited'[q] \in Int /\ since[p] \in Int
      BY <1>2, <1>6
    <3> QED
      BY <3>1, <3>2, <3>3
  <2> QED
    BY <1>1, <2>1, <2>5, <2>6 DEF IInv, LeaseInv, Leads
<1>10. QueueInv'
  BY <1>1, QueueKept DEF IInv
<1> QED
  BY <1>8, <1>9, <1>10 DEF IInv

-----------------------------------------------------------------------------
(* The steps that leave the Lease as it is: those of the informers and the  *)
(* workers                                                                  *)

\* A step that leaves the election alone keeps its invariant.
LEMMA LeaseKept ==
  ASSUME LeaseInv, UNCHANGED <<holder, unread, waited, since, renewing, phase, ran>>
  PROVE  LeaseInv'
BY DEF LeaseInv, Leads

\* The informers of a process list everything.
LEMMA SyncInvariant ==
  ASSUME IInv, NEW p \in Processes, Sync(p)
  PROVE  IInv'
<1>1. TypeOK'
  BY DEF IInv, TypeOK, Sync, leaseVars, Leads, Up
<1>2. LeaseInv'
  BY LeaseKept DEF IInv, Sync, leaseVars
<1>3. QueueInv'
  <2>1. Serving' \subseteq Serving \cup {p}
    BY DEF Serving, Sync
  <2>2. \A k \in due : Holds(p, k)'
    BY DEF IInv, TypeOK, Sync, Holds
  <2>3. \A q \in Serving : \A k \in due : Holds(q, k)'
    BY <2>2 DEF IInv, TypeOK, QueueInv, Sync, Holds, InHand, Serving
  <2>4. \A q \in Serving' : \A k \in Keys :
          work'[q][k] = "stale" => k \in unseen'[q] \cup queue'[q]
    BY <2>1 DEF IInv, TypeOK, QueueInv, Sync, Serving
  <2> QED
    BY <2>1, <2>2, <2>3, <2>4 DEF IInv, QueueInv, Sync
<1> QED
  BY <1>1, <1>2, <1>3 DEF IInv

\* Workers start on a queue that takes keys, after the caches were filled.
LEMMA RunWorkersInvariant ==
  ASSUME IInv, NEW p \in Processes, RunWorkers(p)
  PROVE  IInv'
<1>1. TypeOK'
  BY DEF IInv, TypeOK, RunWorkers, leaseVars, workVars, Leads, Up
<1>2. LeaseInv'
  BY DEF IInv, LeaseInv, RunWorkers, leaseVars, Leads
<1>3. QueueInv'
  <2>1. Serving' \subseteq Serving
    BY DEF Serving, RunWorkers
  <2> QED
    BY <2>1 DEF IInv, QueueInv, RunWorkers, Ready, workVars, Holds, InHand
<1> QED
  BY <1>1, <1>2, <1>3 DEF IInv

\* An object is changed, and its key is due.
LEMMA ChangeInvariant ==
  ASSUME IInv, NEW k \in Keys, Change(k)
  PROVE  IInv'
<1>1. /\ UNCHANGED <<holder, unread, waited, since, renewing, phase, stopped, synced, ran, outage,
                     queue, mishaps>>
      /\ due' = due \cup {k} /\ changes' \in 0 .. MaxChanges
      /\ \A p \in Processes :
           /\ unseen'[p] = IF p \in Up THEN unseen[p] \cup {k} ELSE {}
           /\ work'[p] = IF k \in InHand(p) THEN [work[p] EXCEPT ![k] = "stale"] ELSE work[p]
      /\ unseen' = [p \in Processes |-> unseen'[p]] /\ work' = [p \in Processes |-> work'[p]]
  BY ProcessAssumption DEF ProcessAssumption, IInv, TypeOK, Change, leaseVars
<1>2. \A p \in Processes : unseen'[p] \in SUBSET Keys
  <2>1. \A p \in Processes : unseen[p] \in SUBSET Keys
    BY DEF IInv, TypeOK
  <2> QED
    BY <1>1, <2>1
<1>3. \A p \in Processes : work'[p] \in [Keys -> {"no", "stale", "fresh"}]
  BY <1>1 DEF IInv, TypeOK
<1>4. /\ unseen' \in [Processes -> SUBSET Keys]
      /\ work' \in [Processes -> [Keys -> {"no", "stale", "fresh"}]]
  BY <1>1, <1>2, <1>3
<1>5. TypeOK'
  BY <1>1, <1>4 DEF IInv, TypeOK, Leads, Up
<1>6. LeaseInv'
  BY <1>1, LeaseKept DEF IInv
<1>7. QueueInv'
  <2>1. \A p \in Processes : InHand(p)' = InHand(p)
    BY <1>1 DEF IInv, TypeOK, InHand
  <2>2. Serving' = Serving /\ Serving \subseteq Up /\ Up \subseteq Processes
    BY <1>1 DEF IInv, TypeOK, Serving, Up
  <2>3. \A p \in Serving : unseen'[p] = unseen[p] \cup {k}
    BY <1>1, <2>2
  <2>4. \A p \in Serving : \A j \in due' : Holds(p, j)'
    BY <1>1, <2>1, <2>2, <2>3 DEF IInv, QueueInv, Holds
  <2>5. ASSUME NEW p \in Serving, NEW j \in Keys, work'[p][j] = "stale"
        PROVE  j \in unseen'[p] \cup queue'[p]
    <3>1. j = k \/ work[p][j] = "stale"
      BY <1>1, <2>2, <2>5 DEF IInv, TypeOK
    <3> QED
      BY <3>1, <1>1, <2>3 DEF IInv, QueueInv
  <2> QED
    BY <1>1, <2>2, <2>4, <2>5 DEF IInv, QueueInv
<1> QED
  BY <1>5, <1>6, <1>7 DEF IInv

\* An event moves a key from its way to the informer into the queue, a resync puts every
\* key there: nothing leaves.
LEMMA DeliverInvariant ==
  ASSUME IInv, NEW p \in Processes, NEW k \in Keys, Deliver(p, k) \/ Resync(p)
  PROVE  IInv'
<1>1. /\ UNCHANGED <<holder, unread, waited, since, renewing, phase, stopped, synced, ran, outage,
                     due, work, changes, mishaps>>
  BY DEF Deliver, Resync, leaseVars
<1>2. unseen' \in [Processes -> SUBSET Keys] /\ queue' \in [Processes -> SUBSET Keys]
  <2>1. unseen[p] \subseteq Keys /\ Enqueued(p, k) \subseteq Keys
    BY DEF IInv, TypeOK, Enqueued
  <2>2. {j \in Keys : j \in Enqueued(p, j)} \in SUBSET Keys
    OBVIOUS
  <2>3. Enqueued(p, k) \in SUBSET Keys /\ unseen[p] \ {k} \in SUBSET Keys
    BY <2>1
  <2>4. unseen \in [Processes -> SUBSET Keys] /\ queue \in [Processes -> SUBSET Keys]
    BY DEF IInv, TypeOK
  <2>5. CASE Deliver(p, k)
    BY <2>3, <2>4, <2>5 DEF Deliver
  <2>6. CASE Resync(p)
    BY <2>2, <2>4, <2>6 DEF Resync
  <2> QED
    BY <2>5, <2>6
<1>3. TypeOK'
  BY <1>1, <1>2 DEF IInv, TypeOK, Leads, Up
<1>4. LeaseInv'
  BY <1>1, LeaseKept DEF IInv
<1>5. Serving' = Serving /\ Serving \subseteq Processes
  BY <1>1 DEF IInv, TypeOK, Serving, Up
<1>6. \A q \in Serving : unseen[q] \cup queue[q] \subseteq unseen'[q] \cup queue'[q]
  <2>1. CASE Deliver(p, k)
    BY <2>1, <1>5 DEF IInv, TypeOK, Deliver, Enqueued, Serving
  <2>2. CASE Resync(p)
    BY <2>2, <1>5 DEF IInv, TypeOK, Resync, Enqueued, Serving
  <2> QED
    BY <2>1, <2>2
<1>7. QueueInv'
  BY <1>1, <1>5, <1>6 DEF IInv, QueueInv, Holds, InHand
<1> QED
  BY <1>3, <1>4, <1>7 DEF IInv

\* A worker takes a key, and gives it back or is done with it.
LEMMA TakeItemInvariant ==
  ASSUME IInv, NEW p \in Processes, NEW k \in Keys, TakeItem(p, k)
  PROVE  IInv'
<1>1. /\ UNCHANGED <<holder, unread, waited, since, renewing, phase, stopped, synced, ran, outage,
                     due, unseen, changes, mishaps>>
      /\ queue' = [queue EXCEPT ![p] = @ \ {k}]
      /\ work' = [work EXCEPT ![p][k] = IF k \in unseen[p] THEN "stale" ELSE "fresh"]
  BY DEF TakeItem, leaseVars
<1>2. TypeOK'
  BY <1>1 DEF IInv, TypeOK, Leads, Up
<1>3. LeaseInv'
  BY <1>1, LeaseKept DEF IInv
<1>4. QueueInv'
  <2>1. Serving' = Serving /\ Serving \subseteq Processes
    BY <1>1 DEF IInv, TypeOK, Serving, Up
  <2>2. \A q \in Processes : /\ InHand(q) \subseteq InHand(q)'
                             /\ queue[q] \subseteq queue'[q] \cup InHand(q)'
    BY <1>1 DEF IInv, TypeOK, InHand
  <2>3. \A q \in Serving : \A j \in due : Holds(q, j)'
    BY <1>1, <2>1, <2>2 DEF IInv, QueueInv, Holds
  <2>4. \A q \in Serving : \A j \in Keys :
          work'[q][j] = "stale" => j \in unseen[q] \cup queue'[q]
    BY <1>1, <2>1 DEF IInv, TypeOK, QueueInv
  <2> QED
    BY <1>1, <2>1, <2>3, <2>4 DEF IInv, QueueInv
<1> QED
  BY <1>2, <1>3, <1>4 DEF IInv

\* A reconcile that ends leaves its object to nobody only when it has seen the last
\* change and succeeded.
LEMMA DoneInvariant ==
  ASSUME IInv, NEW p \in Processes, NEW k \in Keys, Succeed(p, k) \/ Fail(p, k)
  PROVE  IInv'
<1>1. /\ UNCHANGED <<holder, unread, waited, since, renewing, phase, stopped, synced, ran, outage,
                     unseen, changes>>
      /\ work' = [work EXCEPT ![p][k] = "no"] /\ k \in InHand(p)
  BY DEF Succeed, Fail, Done, leaseVars
<1>2. mishaps' \in 0 .. MaxMishaps
  BY MishapType DEF IInv, TypeOK, Succeed, Fail
<1>3. due' \subseteq due /\ queue' \in [Processes -> SUBSET Keys]
      /\ \A q \in Processes : queue[q] \subseteq queue'[q]
  <2>1. queue \in [Processes -> SUBSET Keys]
    BY DEF IInv, TypeOK
  <2>2. queue[p] \subseteq Failed(p, k) /\ Failed(p, k) \in SUBSET Keys
    BY <2>1 DEF Failed, Enqueued
  <2>3. queue' = queue \/ queue' = [queue EXCEPT ![p] = Failed(p, k)]
    BY DEF Succeed, Fail
  <2>4. due' \subseteq due
    BY DEF Succeed, Fail
  <2> QED
    BY <2>1, <2>2, <2>3, <2>4
<1>4. TypeOK'
  BY <1>1, <1>2, <1>3 DEF IInv, TypeOK, Leads, Up
<1>5. LeaseInv'
  BY <1>1, LeaseKept DEF IInv
<1>6. Serving' = Serving /\ Serving \subseteq Processes
  BY <1>1 DEF IInv, TypeOK, Serving, Up
<1>7. \A q \in Serving : \A j \in Keys :
        work'[q][j] = "stale" => j \in unseen'[q] \cup queue'[q]
  BY <1>1, <1>3, <1>6 DEF IInv, TypeOK, QueueInv
<1>8. ASSUME NEW q \in Serving, NEW j \in due'
      PROVE  Holds(q, j)'
  <2>1. q \in Processes /\ j \in due /\ Holds(q, j) /\ j \in Keys
    BY <1>3, <1>6 DEF IInv, TypeOK, QueueInv
  <2>2. CASE q # p \/ j # k
    BY <2>1, <2>2, <1>1, <1>3 DEF IInv, TypeOK, Holds, InHand
  <2>3. CASE q = p /\ j = k /\ Succeed(p, k)
    <3>1. work[p][k] = "stale"
      BY <1>1, <2>3 DEF IInv, TypeOK, Succeed, InHand
    <3> QED
      BY <3>1, <2>1, <2>3, <1>1, <1>3 DEF IInv, QueueInv, Holds
  <2>4. CASE q = p /\ j = k /\ Fail(p, k)
    BY <2>1, <2>4 DEF IInv, TypeOK, Fail, Failed, Enqueued, Serving, Holds
  <2> QED
    BY <2>2, <2>3, <2>4
<1>9. QueueInv'
  BY <1>1, <1>6, <1>7, <1>8 DEF IInv, QueueInv
<1> QED
  BY <1>4, <1>5, <1>9 DEF IInv

-----------------------------------------------------------------------------
(* The invariant *)

\* Every step keeps the invariant.
LEMMA NextInvariant == IInv /\ [Next]_vars => IInv'
<1> SUFFICES ASSUME IInv, [Next]_vars PROVE IInv'
  OBVIOUS
<1>1. ASSUME NEW p \in Processes, Proceed(p)
      PROVE  IInv'
  <2>1. CASE Unsynced(p) \/ Exit(p)
    BY <2>1, EndsInvariant DEF IInv, TypeOK, Unsynced, Exit, Stopped
  <2> QED
    BY <1>1, <2>1, SyncInvariant, RunWorkersInvariant, StepDownInvariant DEF Proceed
<1>2. ASSUME NEW p \in Processes, Stand(p) \/ Stay(p) \/ Start(p) \/ Return(p)
      PROVE  IInv'
  BY <1>2, ObserveInvariant, AcquireInvariant, StayInvariant, StartInvariant, SignalInvariant
     DEF Stand
<1>3. ASSUME NEW p \in Processes, Inform(p) \/ Work(p)
      PROVE  IInv'
  BY <1>3, DeliverInvariant, TakeItemInvariant, DoneInvariant DEF Inform, Work
<1>4. ASSUME NEW p \in Processes, Resync(p)
      PROVE  IInv'
  <2>1. CASE Keys = {}
    BY <1>4, <2>1 DEF Resync, Enqueued, leaseVars, IInv, TypeOK, LeaseInv, QueueInv, Leads,
                      Up, Serving, Holds, InHand
  <2>2. CASE Keys # {}
    BY <1>4, <2>2, DeliverInvariant
  <2> QED
    BY <2>1, <2>2
<1>5. ASSUME NEW p \in Processes, Disturb(p)
      PROVE  IInv'
  <2>1. CASE SecondSignal(p) \/ Kill(p)
    BY <2>1, EndsInvariant, MishapType DEF IInv, SecondSignal, Kill
  <2> QED
    BY <1>5, <2>1, SignalInvariant, DoneInvariant DEF Disturb
<1>6. CASE Tick
  BY <1>6, TickInvariant
<1>7. CASE \E k \in Keys : Change(k)
  BY <1>7, ChangeInvariant
<1>8. CASE UNCHANGED vars
  BY <1>8 DEF vars, IInv, TypeOK, LeaseInv, QueueInv, Leads, Up, Serving, Holds, InHand
<1> QED
  BY <1>1, <1>2, <1>3, <1>4, <1>5, <1>6, <1>7, <1>8 DEF Next

\* The inductive invariant holds in every state.
LEMMA Invariant == Spec => []IInv
BY InitInvariant, NextInvariant, PTL DEF Spec

\* Every variable of the processes keeps its type.
THEOREM TypeCorrect == Spec => []TypeOK
<1>1. IInv => TypeOK
  BY DEF IInv
<1> QED
  BY <1>1, Invariant, PTL

\* With the lease, deadline and retry period of the two commands, two replicas never have
\* workers at the same time, but for one that is stepping down.
THEOREM OneLeader == Spec => []OneLeaderWorks
<1>1. IInv => OneLeaderWorks
  <2> SUFFICES ASSUME IInv, NEW p \in ran, NEW q \in ran, p # q,
                      {phase[p], phase[q]} \cap {"stopping", "released"} = {}
               PROVE  FALSE
    BY DEF OneLeaderWorks
  <2>1. p \in Processes /\ q \in Processes
    BY DEF IInv, TypeOK, Up
  <2>2. Leads(p) /\ Leads(q)
    BY <2>1 DEF IInv, TypeOK, LeaseInv, Phases, Leads
  <2> QED
    BY <2>1, <2>2 DEF IInv, LeaseInv
<1> QED
  BY <1>1, Invariant, PTL

\* A running leader has every object that is due in its queue, in a worker's hands, or on
\* the way to its informer.
THEOREM Nothing == Spec => []NothingForgotten
<1>1. IInv => NothingForgotten
  BY DEF IInv, QueueInv, NothingForgotten, Serving
<1> QED
  BY <1>1, Invariant, PTL
=============================================================================
