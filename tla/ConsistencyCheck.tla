-------------------------- MODULE ConsistencyCheck --------------------------
(***************************************************************************)
(* The consistency inspection (pkg/inspection/consistency.go with          *)
(* pkg/etcd/stats.go): one goroutine per member asks that member for its   *)
(* revision, its raft index and its number of keys, and the differences    *)
(* between the members become gauges.  The goroutines assign the endpoint  *)
(* of one shared client configuration before they read it again to         *)
(* connect, so a client may lead to another member.                        *)
(*                                                                         *)
(* The revision, the index and the raft indexes of a member are one number *)
(* here; what matters is which member it is asked of.                      *)
(***************************************************************************)
EXTENDS Integers, FiniteSets, FiniteSetsExt

CONSTANTS
  Members,      \* cluster.Status.Members
  MaxNumber,    \* revisions and key counts (bound)
  MaxFailures   \* failing calls (bound)

ASSUME ConsistencyAssumption ==
  /\ IsFiniteSet(Members) /\ Members # {}
  /\ MaxNumber \in Nat /\ MaxFailures \in Nat

Numbers == 0 .. MaxNumber
Metrics == {"keyTotal", "revision", "index", "raft"}
Unset   == -1
Stages  == {"idle", "start", "assigned", "connected", "indexed", "done", "failed"}

VARIABLES
  V2,          \* the members whose version starts with 2
  rev, keys,   \* [Members -> Numbers], what the members hold
  endpoint,    \* cli.Endpoints, shared by the goroutines
  stage,       \* [Members -> Stages], the goroutines
  client,      \* [Members -> Members], the member a goroutine's client leads to
  readRev, readKeys,   \* [Members -> Numbers], what it has read
  running,     \* an inspection is between its Get and its last gauge
  gauge,       \* [Metrics -> Numbers], Unset until the first value
  counted,     \* the last inspection incremented the failure counter
  quiet,       \* nothing was written since the inspection began (history)
  failures     \* failing calls so far

dataVars == <<V2, rev, keys>>
readVars == <<endpoint, stage, client, readRev, readKeys>>
consistencyVars == <<V2, rev, keys, endpoint, stage, client, readRev, readKeys, running, gauge,
                     counted, quiet, failures>>

ConsistencyInit ==
  /\ V2 \in SUBSET Members
  /\ rev \in [Members -> Numbers] /\ keys \in [Members -> Numbers]
  /\ \E m \in Members : endpoint = m /\ client = [n \in Members |-> m]
  /\ stage = [m \in Members |-> "idle"]
  /\ readRev = [m \in Members |-> 0] /\ readKeys = [m \in Members |-> 0]
  /\ running = FALSE /\ gauge = [t \in Metrics |-> Unset] /\ counted = FALSE
  /\ quiet = TRUE /\ failures = 0

\* A call to etcd or to the API server fails.
Fail == failures < MaxFailures /\ failures' = failures + 1

-----------------------------------------------------------------------------

\* A revision is applied by a member, which may add or remove a key.
Apply(m) ==
  /\ rev[m] < MaxNumber
  /\ rev' = [rev EXCEPT ![m] = @ + 1]
  /\ \E k \in Numbers : k - keys[m] \in -1 .. 1 /\ keys' = [keys EXCEPT ![m] = k]
  /\ quiet' = FALSE
  /\ UNCHANGED <<V2, readVars, running, gauge, counted, failures>>

\* GetEtcdClusterInfo, and the loop that starts the goroutines.
Begin ==
  /\ ~ running
  /\ \/ Fail /\ counted' = TRUE /\ UNCHANGED <<stage, running, quiet>>
     \/ /\ running' = TRUE /\ quiet' = TRUE /\ counted' = FALSE
        /\ stage' = [m \in Members |-> "start"] /\ UNCHANGED failures
  /\ UNCHANGED <<dataVars, endpoint, client, readRev, readKeys, gauge>>

\* The goroutine sets the endpoint of the configuration they share.
Assign(m) ==
  /\ stage[m] = "start"
  /\ endpoint' = m
  /\ stage' = [stage EXCEPT ![m] = "assigned"]
  /\ UNCHANGED <<dataVars, client, readRev, readKeys, running, gauge, counted, quiet, failures>>

\* A call of the goroutine that fails ends it; errgroup keeps the error.
Give(m, next) ==
  \/ stage' = [stage EXCEPT ![m] = next] /\ UNCHANGED failures
  \/ stage' = [stage EXCEPT ![m] = "failed"] /\ Fail

\* backend.Init connects to the endpoint the configuration holds now.
Connect(m) ==
  /\ stage[m] = "assigned"
  /\ Give(m, "connected")
  /\ client' = [client EXCEPT ![m] = endpoint]
  /\ UNCHANGED <<dataVars, endpoint, readRev, readKeys, running, gauge, counted, quiet>>

\* Mutant of Asked: the status is asked of whatever the client leads to.
AskedOfClient(m) == client[m]

\* GetIndex: Status of clientv3 dials the endpoint it is given; the v2 keys API
\* knows the client's only.
Asked(m) == IF m \in V2 THEN client[m] ELSE m

GetIndex(m) ==
  /\ stage[m] = "connected"
  /\ Give(m, "indexed")
  /\ readRev' = [readRev EXCEPT ![m] = rev[Asked(m)]]
  /\ UNCHANGED <<dataVars, endpoint, client, readKeys, running, gauge, counted, quiet>>

\* GetTotalKeyNum, and the lock around the values.
GetTotalKeyNum(m) ==
  /\ stage[m] = "indexed"
  /\ Give(m, "done")
  /\ readKeys' = [readKeys EXCEPT ![m] = keys[client[m]]]
  /\ UNCHANGED <<dataVars, endpoint, client, readRev, running, gauge, counted, quiet>>

\* The values of a metric: a v2 member has an index and no revision, and reports
\* raft indexes of 0.
Values(t) ==
  CASE t = "keyTotal" -> {readKeys[m] : m \in Members}
    [] t = "revision" -> {readRev[m] : m \in Members \ V2}
    [] t = "index"    -> {readRev[m] : m \in V2}
    [] t = "raft"     -> {IF m \in V2 THEN 0 ELSE readRev[m] : m \in Members}

Spread(values) == Max(values) - Min(values)

\* Mutant of Complete: the differences are taken from whatever was collected.
CompleteAlways == TRUE

Complete == \A m \in Members : stage[m] = "done"

\* g.Wait returns, and CollectClusterConsistentData sets the gauges or, when a
\* goroutine failed, increments the counter and leaves them as they are.
Finish ==
  /\ running /\ \A m \in Members : stage[m] \in {"done", "failed"}
  /\ gauge' = IF Complete
              THEN [t \in Metrics |-> IF Values(t) = {} THEN gauge[t] ELSE Spread(Values(t))]
              ELSE gauge
  /\ counted' = ~ Complete
  /\ running' = FALSE
  /\ stage' = [m \in Members |-> "idle"]
  /\ readRev' = [m \in Members |-> 0] /\ readKeys' = [m \in Members |-> 0]
  /\ UNCHANGED <<dataVars, endpoint, client, quiet, failures>>

ConsistencyStep ==
  \/ Begin
  \/ Finish
  \/ \E m \in Members : Assign(m) \/ Connect(m) \/ GetIndex(m) \/ GetTotalKeyNum(m)

ConsistencyNext == ConsistencyStep \/ \E m \in Members : Apply(m)
=============================================================================
