-------------------------- MODULE RequestInspection --------------------------
(***************************************************************************)
(* The request inspection of kstone-inspection (pkg/inspection/request.go  *)
(* and the controller that runs it, pkg/controllers/etcdinspection): a     *)
(* gauge of the keys in etcd that is set from one Get and then moved by    *)
(* the events of a watch.                                                  *)
(*                                                                         *)
(* The server keeps its watchers, channels and gauge by the name of the    *)
(* cluster.  Clusters are the EtcdClusters of one name, in the namespaces  *)
(* of one Kubernetes; each has its own etcd.                               *)
(***************************************************************************)
EXTENDS Integers, Sequences, FiniteSets

CONSTANTS
  Clusters,     \* the EtcdClusters of the name
  None,         \* no cluster
  Keys,         \* the keys under the watched prefix
  EventBuffer,  \* eventBuffer, the capacity of an event channel
  MaxChanges,   \* changes of keys and tasks (bound)
  MaxBreaks,    \* cancelled watches and restarts (bound)
  Faults        \* which disturbances may happen, see FaultKinds

FaultKinds == {"api", "cancel", "crash"}

ASSUME InspectionAssumption ==
  /\ IsFiniteSet(Clusters) /\ None \notin Clusters /\ IsFiniteSet(Keys)
  /\ EventBuffer \in Nat \ {0} /\ MaxChanges \in Nat /\ MaxBreaks \in Nat
  /\ Faults \subseteq FaultKinds

VARIABLES
  keys,      \* the keys each etcd has
  task,      \* the clusters with an EtcdInspection
  queued,    \* those whose key is in the work queue or its rate limiter
  pc,        \* where a worker is with a cluster
  found,     \* the number of keys its Get found
  watched,   \* the watcher map has an entry for the name
  eventCh,   \* whose channel the eventCh map holds
  loop,      \* the goroutine of Watch
  writes,    \* the channel it writes to
  open,      \* the watches etcd sends events to
  stream,    \* events of a watch the goroutine has not forwarded
  chan,      \* the event channels
  reads,     \* the channel the goroutine of processWatchEvent reads
  gauge,     \* the sum of EtcdKeyTotal of the name
  missed,    \* what changed after the Get and unseen by a watch (history)
  changes, breaks,
  calm       \* keys, tasks and faults have come to rest

workVars == <<task, queued, pc, found>>
mapVars  == <<watched, eventCh>>
pipeVars == <<loop, writes, open, stream, chan, reads>>
vars == <<keys, task, queued, pc, found, watched, eventCh, loop, writes, open, stream,
          chan, reads, gauge, missed, changes, breaks, calm>>

May(fault) == fault \in Faults /\ ~ calm

Kinds == {"create", "update", "delete"}

Started(v) == [x \in Clusters |-> v]

Init ==
  /\ keys = Started({}) /\ task = {} /\ queued = {}
  /\ pc = Started("idle") /\ found = Started(0)
  /\ watched = FALSE /\ eventCh = None
  /\ loop = Started("none") /\ writes = Started(None) /\ open = {}
  /\ stream = Started(<< >>) /\ chan = Started(<< >>) /\ reads = Started("none")
  /\ gauge = 0 /\ missed = Started(0) /\ changes = 0 /\ breaks = 0 /\ calm = FALSE

-----------------------------------------------------------------------------
(* etcd and its users *)

Weight(kind) == IF kind = "create" THEN 1 ELSE IF kind = "delete" THEN -1 ELSE 0

\* The keys have been read for the gauge.
IsRead(x) == pc[x] \notin {"idle", "get"} \/ loop[x] # "none"

\* An event goes to the open watch.  What changes while none is open, and after the
\* worker's Get, is lost.
Change(x, k, kind) ==
  /\ ~ calm /\ changes < MaxChanges /\ changes' = changes + 1
  /\ kind = "create" <=> k \notin keys[x]
  /\ keys' = [keys EXCEPT ![x] = IF kind = "delete" THEN @ \ {k} ELSE @ \cup {k}]
  /\ IF x \in open
     THEN stream' = [stream EXCEPT ![x] = Append(@, kind)] /\ UNCHANGED missed
     ELSE /\ missed' = IF IsRead(x) THEN [missed EXCEPT ![x] = @ + Weight(kind)] ELSE missed
          /\ UNCHANGED stream
  /\ UNCHANGED <<workVars, mapVars, loop, writes, open, chan, reads, gauge, breaks, calm>>

\* etcd cancels a watch, after the events it has sent.
CancelWatch(x) ==
  /\ May("cancel") /\ breaks < MaxBreaks /\ breaks' = breaks + 1
  /\ x \in open /\ open' = open \ {x}
  /\ UNCHANGED <<keys, workVars, mapVars, loop, writes, stream, chan, reads, gauge, missed,
                 changes, calm>>

-----------------------------------------------------------------------------
(* The EtcdInspection and its controller *)

WorkFrame == UNCHANGED <<keys, missed, changes, breaks, calm>>

\* The feature is switched on or off; a deletion has no handler.
ToggleTask(x) ==
  /\ ~ calm /\ changes < MaxChanges /\ changes' = changes + 1
  /\ IF x \in task THEN task' = task \ {x} /\ UNCHANGED queued
                   ELSE task' = task \cup {x} /\ queued' = queued \cup {x}
  /\ UNCHANGED <<keys, pc, found, mapVars, pipeVars, gauge, missed, breaks, calm>>

\* The informer sends every EtcdInspection again.
Resync(x) ==
  /\ x \in task /\ x \notin queued /\ queued' = queued \cup {x}
  /\ UNCHANGED <<task, pc, found, mapVars, pipeVars, gauge>> /\ WorkFrame

\* doClusterInspection and CollectEtcdClusterRequest up to the Get; the watcher map is
\* asked by name.  An error leaves the key in the rate limiter.
TakeTask(x) ==
  /\ x \in queued /\ pc[x] = "idle"
  /\ \/ /\ x \in task /\ ~ watched
        /\ pc' = [pc EXCEPT ![x] = "get"] /\ queued' = queued \ {x}
     \/ (x \in task => watched) /\ queued' = queued \ {x} /\ UNCHANGED pc
     \/ x \in task /\ May("api") /\ UNCHANGED <<queued, pc>>
  /\ UNCHANGED <<task, found, mapVars, pipeVars, gauge>> /\ WorkFrame

\* The Get of all keys.
GetKeys(x) ==
  /\ pc[x] = "get"
  /\ \/ /\ found' = [found EXCEPT ![x] = Cardinality(keys[x])]
        /\ pc' = [pc EXCEPT ![x] = "count"] /\ UNCHANGED queued
     \/ /\ May("api") /\ pc' = [pc EXCEPT ![x] = "idle"] /\ queued' = queued \cup {x}
        /\ UNCHANGED found
  /\ UNCHANGED <<task, mapVars, pipeVars, gauge>> /\ WorkFrame

\* populateClusterTotalKeyMetrics, setEventCh, and Watch, which enters the watcher and
\* starts its goroutine.
StartWatch(x) ==
  /\ pc[x] = "count" /\ pc' = [pc EXCEPT ![x] = "process"]
  /\ gauge' = gauge + found[x] /\ found' = [found EXCEPT ![x] = 0]
  /\ eventCh' = x /\ watched' = TRUE
  /\ loop' = [loop EXCEPT ![x] = "start"]
  /\ UNCHANGED <<task, queued, writes, open, stream, chan, reads>> /\ WorkFrame

\* Mutant of StartProcess: nobody reads the channel.
StartProcessNever(x) ==
  /\ pc[x] = "process" /\ pc' = [pc EXCEPT ![x] = "idle"]
  /\ UNCHANGED <<task, queued, found, mapVars, pipeVars, gauge>> /\ WorkFrame

\* The goroutine of processWatchEvent is started.
StartProcess(x) ==
  /\ pc[x] = "process" /\ pc' = [pc EXCEPT ![x] = "idle"]
  /\ reads' = [reads EXCEPT ![x] = "start"]
  /\ UNCHANGED <<task, queued, found, mapVars, loop, writes, open, stream, chan, gauge>>
  /\ WorkFrame

Worker(x) == TakeTask(x) \/ GetKeys(x) \/ StartWatch(x) \/ StartProcess(x)

-----------------------------------------------------------------------------
(* The goroutine of Watch *)

LoopFrame == UNCHANGED <<keys, workVars, mapVars, reads, gauge, missed, changes, breaks, calm>>

\* watcher.Watch, without a revision: events from now on.
OpenWatch(x) ==
  /\ loop[x] = "start" /\ loop' = [loop EXCEPT ![x] = "opened"]
  /\ open' = open \cup {x}
  /\ UNCHANGED <<writes, stream, chan>> /\ LoopFrame

\* getEventCh of watch: whatever channel the name has now.
PickChannel(x) ==
  /\ loop[x] = "opened" /\ loop' = [loop EXCEPT ![x] = "watching"]
  /\ writes' = [writes EXCEPT ![x] = eventCh]
  /\ UNCHANGED <<open, stream, chan>> /\ LoopFrame

\* Mutant of Forward: an event that finds the channel full is dropped.
ForwardOrDrop(x) ==
  /\ loop[x] = "watching" /\ stream[x] # << >>
  /\ stream' = [stream EXCEPT ![x] = Tail(@)]
  /\ chan' = IF Len(chan[writes[x]]) < EventBuffer
             THEN [chan EXCEPT ![writes[x]] = Append(@, Head(stream[x]))] ELSE chan
  /\ UNCHANGED <<loop, writes, open>> /\ LoopFrame

\* The send blocks while the channel is full.
Forward(x) ==
  /\ loop[x] = "watching" /\ stream[x] # << >> /\ Len(chan[writes[x]]) < EventBuffer
  /\ stream' = [stream EXCEPT ![x] = Tail(@)]
  /\ chan' = [chan EXCEPT ![writes[x]] = Append(@, Head(stream[x]))]
  /\ UNCHANGED <<loop, writes, open>> /\ LoopFrame

\* Mutant of Rewatch: the goroutine ends with its watch.
RewatchNever(x) ==
  /\ loop[x] = "watching" /\ x \notin open /\ stream[x] = << >>
  /\ loop' = [loop EXCEPT ![x] = "ended"]
  /\ UNCHANGED <<writes, open, stream, chan>> /\ LoopFrame

\* The watch was cancelled: a second later it is opened again.
Rewatch(x) ==
  /\ loop[x] = "watching" /\ x \notin open /\ stream[x] = << >>
  /\ loop' = [loop EXCEPT ![x] = "start"]
  /\ UNCHANGED <<writes, open, stream, chan>> /\ LoopFrame

Loop(x) == OpenWatch(x) \/ PickChannel(x) \/ Forward(x) \/ Rewatch(x)

-----------------------------------------------------------------------------
(* The goroutine of processWatchEvent *)

ProcessFrame ==
  UNCHANGED <<keys, workVars, mapVars, loop, writes, open, stream, missed, changes, breaks,
              calm>>

PickReadChannel(x) ==
  /\ reads[x] = "start" /\ reads' = [reads EXCEPT ![x] = eventCh]
  /\ UNCHANGED <<chan, gauge>> /\ ProcessFrame

\* What an event adds to the gauge: ev.IsCreate tells a new key.
Counted(kind) == Weight(kind)

ProcessEvent(x) ==
  /\ reads[x] \in Clusters /\ chan[reads[x]] # << >>
  /\ gauge' = gauge + Counted(Head(chan[reads[x]]))
  /\ chan' = [chan EXCEPT ![reads[x]] = Tail(@)]
  /\ UNCHANGED reads /\ ProcessFrame

Process(x) == PickReadChannel(x) \/ ProcessEvent(x)

-----------------------------------------------------------------------------
\* The process ends, also of itself: two workers in the unlocked maps are a fatal
\* error.  The next one starts with an empty server and all EtcdInspections queued.
Restart ==
  /\ May("crash") /\ breaks < MaxBreaks /\ breaks' = breaks + 1
  /\ queued' = task /\ pc' = Started("idle") /\ found' = Started(0)
  /\ watched' = FALSE /\ eventCh' = None
  /\ loop' = Started("none") /\ writes' = Started(None) /\ open' = {}
  /\ stream' = Started(<< >>) /\ chan' = Started(<< >>) /\ reads' = Started("none")
  /\ gauge' = 0 /\ missed' = Started(0)
  /\ UNCHANGED <<keys, task, changes, calm>>

CalmDown ==
  /\ ~ calm /\ calm' = TRUE
  /\ UNCHANGED <<keys, workVars, mapVars, pipeVars, gauge, missed, changes, breaks>>

Next ==
  \/ \E x \in Clusters :
       \/ \E k \in Keys, kind \in Kinds : Change(x, k, kind)
       \/ CancelWatch(x) \/ ToggleTask(x) \/ Resync(x)
       \/ Worker(x) \/ Loop(x) \/ Process(x)
  \/ Restart \/ CalmDown

\* Goroutines run, and the queue hands out its keys.
Fairness ==
  \A x \in Clusters : WF_vars(Worker(x)) /\ WF_vars(Loop(x)) /\ WF_vars(Process(x))

Spec     == Init /\ [][Next]_vars
FairSpec == Spec /\ Fairness

-----------------------------------------------------------------------------
(* Properties *)

Indices(s, kind) == {i \in DOMAIN s : s[i] = kind}
Net(s) == Cardinality(Indices(s, "create")) - Cardinality(Indices(s, "delete"))

\* The sum of an integer function: its units above zero, less those below.
Units(f) == UNION {{x} \X (1 .. f[x]) : x \in DOMAIN f}
Total(f) == Cardinality(Units(f)) - Cardinality(Units([x \in DOMAIN f |-> 0 - f[x]]))

\* A cluster is counted from the moment its keys are in the gauge; then it should come
\* to this.
IsCounted(x) == loop[x] # "none"
Settled(x)   == IF IsCounted(x) THEN Cardinality(keys[x]) - missed[x] ELSE 0

TypeOK ==
  /\ keys \in [Clusters -> SUBSET Keys] /\ task \subseteq Clusters /\ queued \subseteq Clusters
  /\ pc \in [Clusters -> {"idle", "get", "count", "process"}]
  /\ found \in [Clusters -> 0 .. Cardinality(Keys)]
  /\ watched \in BOOLEAN /\ eventCh \in Clusters \cup {None}
  /\ loop \in [Clusters -> {"none", "start", "opened", "watching", "ended"}]
  /\ \A x \in Clusters : loop[x] = "watching" => writes[x] # None
  /\ writes \in [Clusters -> Clusters \cup {None}] /\ open \subseteq Clusters
  /\ stream \in [Clusters -> Seq(Kinds)] /\ chan \in [Clusters -> Seq(Kinds)]
  /\ \A x \in Clusters : Len(chan[x]) <= EventBuffer
  /\ reads \in [Clusters -> Clusters \cup {"none", "start"}]
  /\ gauge \in Int /\ missed \in [Clusters -> Int]
  /\ changes \in 0 .. MaxChanges /\ breaks \in 0 .. MaxBreaks /\ calm \in BOOLEAN

\* No event of an open watch is lost or counted twice, however the workers and the
\* goroutines of two clusters of the name share the channels: the gauge differs from the
\* number of keys by the events still on their way and by what changed while no watch was
\* open, and by nothing else.
GaugeAccounted ==
  gauge = Total([x \in Clusters |-> Settled(x)])
          - Total([x \in Clusters |-> Net(stream[x])]) - Total([x \in Clusters |-> Net(chan[x])])

\* The invariant of the inspection: types, and the account of the gauge
\* (request.go:162-228).
Inv == TypeOK /\ GaugeAccounted

\* A name with an EtcdInspection has an open watch in the end, whatever watches etcd
\* cancelled and however often the inspection failed.
WatchGoesOn ==
  [](calm => <>[](task # {} => \E x \in Clusters : loop[x] = "watching" /\ x \in open))

\* While one cluster of the name is watched, its gauge comes to the number of its keys,
\* apart from what changed while no watch was open: nothing blocks the channel.
GaugeSettles ==
  [](calm => <>[](\A x \in Clusters :
       {y \in Clusters : IsCounted(y)} = {x} => gauge = Settled(x)))
=============================================================================
