------------------------- MODULE Inspections_proofs -------------------------
(***************************************************************************)
(* Theorems about the inspections, the backup files and the key browser,   *)
(* for any number of members, calls, failures, revisions, backups and keys.*)
(***************************************************************************)
EXTENDS InspectionsProperties, FiniteSetTheorems, SequenceTheorems, WellFoundedInduction, TLAPS

-----------------------------------------------------------------------------
(* The key browser *)

\* A question stays as it is, and is answered once.
KeysInv ==
  answer # << >> =>
    /\ asked \in Browser!Questions
    /\ answer = <<Browser!KeyList(asked.content, asked.key, asked.kubernetes)>>

\* While nothing is answered, the key browser is asked one of its questions.
KeysAskedInv == task = "keys" => asked \in Browser!Questions

\* Whatever is asked, the answer is the one of the code.
LEMMA KeysInvariant == Spec => [](KeysInv /\ KeysAskedInv)
<1>1. Init => KeysInv /\ KeysAskedInv
  BY DEF Init, KeysInv, KeysAskedInv, Browser!KeysInit
<1>2. KeysInv /\ KeysAskedInv /\ [Next]_vars => (KeysInv /\ KeysAskedInv)'
  <2> SUFFICES ASSUME KeysInv, KeysAskedInv, [Next]_vars PROVE (KeysInv /\ KeysAskedInv)'
    OBVIOUS
  <2>1. CASE KeysAsked
    BY <2>1 DEF KeysAsked, Browser!EtcdKeyList, KeysInv, KeysAskedInv
  <2>2. CASE UNCHANGED <<keysVars, task>>
    BY <2>2 DEF keysVars, KeysInv, KeysAskedInv
  <2>3. CASE Next /\ ~ KeysAsked
    BY <2>2, <2>3
    DEF Next, ConsistencyRuns, AlarmRuns, HealthyRuns, BackupsGoOn, DataChanges, EtcdChanges,
        MembersCollected, MembersChange
  <2> QED
    BY <2>1, <2>2, <2>3 DEF vars
<1> QED
  BY <1>1, <1>2, PTL DEF Spec

\* Of the keys that begin with a key the key itself comes first.
LEMMA PrefixFirst ==
  ASSUME NEW key \in Seq(Int), NEW k \in Seq(Int),
         Browser!IsPrefix(key, k), Browser!Lexicographic(k, key)
  PROVE  k = key
<1>1. /\ Len(key) \in Nat /\ Len(k) \in Nat /\ Len(key) <= Len(k)
      /\ \A i \in 1 .. Len(key) : key[i] = k[i] /\ key[i] \in Int
  <2>1. /\ Len(key) \in Nat /\ Len(k) \in Nat /\ Len(key) <= Len(k)
        /\ SubSeq(key, 1, Len(key)) = SubSeq(k, 1, Len(key))
    BY DEF Browser!IsPrefix
  <2> QED
    BY <2>1
<1>2. CASE Browser!IsPrefix(k, key)
  <2>1. Len(k) = Len(key)
    BY <1>1, <1>2 DEF Browser!IsPrefix
  <2> QED
    BY <1>1, <2>1
<1>3. CASE \E i \in 1 .. Len(k) : i <= Len(key) /\ k[i] < key[i]
  BY <1>1, <1>3
<1> QED
  BY <1>2, <1>3 DEF Browser!Lexicographic

\* The key browser finds the key it is asked for.
LEMMA FoundIsKey ==
  ASSUME NEW content, NEW key \in DOMAIN content, DOMAIN content \subseteq Seq(Int)
  PROVE  Browser!Found(content, key) = key /\ Browser!IsPrefix(key, key)
<1> DEFINE First(k) == /\ Browser!IsPrefix(key, k)
                       /\ \A l \in DOMAIN content : Browser!IsPrefix(key, l) =>
                            Browser!Lexicographic(k, l)
<1>1. Browser!IsPrefix(key, key)
  BY DEF Browser!IsPrefix
<1>2. First(key)
  BY <1>1 DEF Browser!Lexicographic
<1>3. \A k \in DOMAIN content : First(k) => k = key
  BY <1>1, PrefixFirst
<1>4. Browser!Found(content, key) = CHOOSE k \in DOMAIN content : First(k)
  BY DEF Browser!Found
<1> HIDE DEF First
<1>5. (CHOOSE k \in DOMAIN content : First(k)) = key
  BY <1>2, <1>3
<1> QED
  BY <1>1, <1>4, <1>5

\* Asked for a stored key, the browser shows this key and none it is a prefix of, and of
\* JSON and protobuf values the object (router.go:241-289).
THEOREM KeyShown == Spec => []StoredKeyShown
<1>1. KeysInv => StoredKeyShown
  <2> DEFINE kind  == asked.content[asked.key]
             shown == answer[1]
  <2> SUFFICES ASSUME KeysInv, answer # << >>, asked.key \in DOMAIN asked.content
               PROVE  /\ shown.keys \subseteq {asked.key}
                      /\ shown.keys = {} => asked.kubernetes /\ kind = "text"
                      /\ (asked.kubernetes /\ asked.key # Browser!CompactRevKey
                            /\ kind \in {"json", "proto"}) =>
                           shown.json = "object" /\ shown.forms = {"json", "yaml"}
    BY DEF StoredKeyShown
  <2>1. /\ asked.content \in Browser!Contents /\ asked.kubernetes \in BOOLEAN
        /\ shown = Browser!KeyList(asked.content, asked.key, asked.kubernetes)
    BY DEF KeysInv, Browser!Questions
  <2>2. /\ DOMAIN asked.content \subseteq Seq(Int) /\ kind \in Browser!Kinds
        /\ asked.key # << >>
    <3>1. PICK stored \in SUBSET Stored : asked.content \in [stored -> Browser!Kinds]
      BY <2>1 DEF Browser!Contents
    <3>2. 0 .. 255 \subseteq Int
      OBVIOUS
    <3>3. Stored \subseteq Seq(Int) \ {<< >>}
      BY <3>2, InspectionsAssumption, SeqMonotonic DEF InspectionsAssumption
    <3>4. DOMAIN asked.content = stored /\ asked.key \in stored
      BY <3>1
    <3>5. kind \in Browser!Kinds
      BY <3>1, <3>4
    <3> QED
      BY <3>3, <3>4, <3>5
  <2>3. /\ Browser!Found(asked.content, asked.key) = asked.key
        /\ Browser!IsPrefix(asked.key, asked.key)
    BY <2>2, FoundIsKey
  <2>4. shown = IF ~ asked.kubernetes \/ asked.key = Browser!CompactRevKey
                THEN [code |-> 200, keys |-> {asked.key}, forms |-> {"javascript"},
                      json |-> "none"]
                ELSE IF Browser!Detected(kind) = "none"
                THEN [code |-> 500, keys |-> {}, forms |-> {}, json |-> "none"]
                ELSE [code |-> 200, keys |-> {asked.key},
                      forms |-> Browser!Converted(kind) \cup {"json"},
                      json |-> Browser!JSONOf(kind)]
    BY <2>1, <2>2, <2>3 DEF Browser!KeyList
  <2> HIDE DEF kind, shown
  <2>5. /\ Browser!Detected(kind) = "none" <=> kind = "text"
        /\ kind \in {"json", "proto"} =>
             /\ Browser!JSONOf(kind) = "object"
             /\ Browser!Converted(kind) \cup {"json"} = {"json", "yaml"}
    BY <2>2 DEF Browser!Detected, Browser!JSONOf, Browser!Converted, Browser!Kinds
  <2> QED
    BY <2>4, <2>5
<1> QED
  BY <1>1, KeysInvariant, PTL

-----------------------------------------------------------------------------
(* Greatest and least elements *)

\* A set of numbers that is not empty has a least element, by the order of the naturals.
LEMMA Least ==
  ASSUME NEW n \in Nat, NEW S \in SUBSET (0 .. n), S # {}
  PROVE  \E x \in S : \A y \in S : x <= y
<1>1. S \subseteq Nat
  OBVIOUS
<1>2. PICK x \in S : \A y \in S : <<y, x>> \notin OpToRel(<, Nat)
  BY <1>1, WFMin, NatLessThanWellFounded
<1>3. \A y \in S : ~ (y < x)
  BY <1>1, <1>2 DEF OpToRel
<1> QED
  BY <1>1, <1>3

\* One that is bounded has a greatest.
LEMMA Greatest ==
  ASSUME NEW n \in Nat, NEW S \in SUBSET (0 .. n), S # {}
  PROVE  \E x \in S : \A y \in S : y <= x
<1> DEFINE T == {n - x : x \in S}
<1>1. T \in SUBSET (0 .. n) /\ T # {}
  <2>1. \A x \in S : x \in 0 .. n
    OBVIOUS
  <2>2. \A x \in 0 .. n : n - x \in 0 .. n
    OBVIOUS
  <2> QED
    BY <2>1, <2>2
<1> HIDE DEF T
<1>2. PICK t \in T : \A u \in T : t <= u
  BY <1>1, Least
<1> USE DEF T
<1>3. PICK x \in S : t = n - x
  OBVIOUS
<1>4. \A y \in S : n - x <= n - y
  BY <1>2, <1>3
<1>5. \A y \in S : y \in 0 .. n
  OBVIOUS
<1> HIDE DEF T
<1>6. \A y \in 0 .. n : n - x <= n - y => y <= x
  <2>1. x \in 0 .. n
    BY <1>5
  <2>2. \A a, b \in 0 .. n : n - a <= n - b => b <= a
    OBVIOUS
  <2> QED
    BY <2>1, <2>2
<1> QED
  BY <1>3, <1>4, <1>5, <1>6

-----------------------------------------------------------------------------
(* Consistency *)

\* What a goroutine has read is what the member it asked holds, as long as nobody
\* writes.
ReadInv ==
  running /\ quiet =>
    \A m \in Members :
      /\ stage[m] \in {"indexed", "done"} => readRev[m] = rev[Asked(m)]
      /\ stage[m] = "done" => readKeys[m] = keys[client[m]]

\* A metric no member has stays unset.
UnsetInv ==
  /\ V2 = Members => gauge["revision"] = Unset
  /\ V2 = {} => gauge["index"] = Unset

ConsistencyTypes ==
  /\ V2 \subseteq Members
  /\ rev \in [Members -> Numbers] /\ keys \in [Members -> Numbers]
  /\ endpoint \in Members /\ stage \in [Members -> Stages]
  /\ client \in [Members -> Members]
  /\ readRev \in [Members -> Numbers] /\ readKeys \in [Members -> Numbers]
  /\ {running, counted, quiet} \subseteq BOOLEAN
  /\ gauge \in [Metrics -> Numbers \cup {Unset}] /\ failures \in 0 .. MaxFailures

ConsistencyInv == ConsistencyTypes /\ ReadInv /\ UnsetInv

\* The difference of numbers: that of a part of them is not larger.
LEMMA SpreadOfPart ==
  ASSUME NEW S \in SUBSET Numbers, NEW T \in SUBSET S, T # {}
  PROVE  Spread(T) \in Numbers /\ Spread(S) \in Numbers /\ Spread(T) <= Spread(S)
<1>1. S \in SUBSET (0 .. MaxNumber) /\ T \in SUBSET (0 .. MaxNumber) /\ MaxNumber \in Nat
  BY ConsistencyAssumption DEF ConsistencyAssumption, Numbers
<1>2. Max(T) \in T /\ \A y \in T : Max(T) >= y
  <2>1. \E x \in T : \A y \in T : x >= y
    <3>1. PICK x \in T : \A y \in T : y <= x
      BY <1>1, Greatest
    <3> QED
      BY <1>1, <3>1
  <2> QED
    BY <2>1 DEF Max
<1>3. Min(T) \in T /\ \A y \in T : Min(T) <= y
  BY <1>1, Least DEF Min
<1>4. Max(S) \in S /\ \A y \in S : Max(S) >= y
  <2>1. \E x \in S : \A y \in S : x >= y
    <3>1. PICK x \in S : \A y \in S : y <= x
      BY <1>1, Greatest
    <3> QED
      BY <1>1, <3>1
  <2> QED
    BY <2>1 DEF Max
<1>5. Min(S) \in S /\ \A y \in S : Min(S) <= y
  BY <1>1, Least DEF Min
<1>6. /\ Max(T) \in 0 .. MaxNumber /\ Min(T) \in 0 .. MaxNumber
      /\ Max(S) \in 0 .. MaxNumber /\ Min(S) \in 0 .. MaxNumber
  BY <1>1, <1>2, <1>3, <1>4, <1>5
<1>7. Min(T) <= Max(T) /\ Max(T) <= Max(S) /\ Min(S) <= Min(T)
  BY <1>2, <1>3, <1>4, <1>5, <1>6
<1> HIDE DEF Max, Min
<1> QED
  BY <1>1, <1>6, <1>7 DEF Spread, Numbers

\* What is collected are numbers; of a metric no member has, none.
LEMMA ValuesType ==
  ASSUME ConsistencyTypes, NEW t \in Metrics
  PROVE  /\ Values(t) \in SUBSET Numbers
         /\ V2 = Members => Values("revision") = {}
         /\ V2 = {} => Values("index") = {}
<1>1. 0 \in Numbers
  BY ConsistencyAssumption DEF ConsistencyAssumption, Numbers
<1>2. /\ Values("keyTotal") = {readKeys[m] : m \in Members}
      /\ Values("revision") = {readRev[m] : m \in Members \ V2}
      /\ Values("index") = {readRev[m] : m \in V2}
      /\ Values("raft") = {IF m \in V2 THEN 0 ELSE readRev[m] : m \in Members}
  BY DEF Values
<1>3. V2 \subseteq Members /\ \A m \in Members : readRev[m] \in Numbers /\ readKeys[m] \in Numbers
  BY DEF ConsistencyTypes
<1>4. t \in {"keyTotal", "revision", "index", "raft"}
  BY DEF Metrics
<1>5. CASE t = "keyTotal"
  BY <1>2, <1>3, <1>5
<1>6. CASE t = "revision"
  BY <1>2, <1>3, <1>6
<1>7. CASE t = "index"
  BY <1>2, <1>3, <1>7
<1>8. CASE t = "raft"
  BY <1>1, <1>2, <1>3, <1>8
<1> QED
  BY <1>4, <1>5, <1>6, <1>7, <1>8

\* No inspection runs at the start, and no gauge is set.
LEMMA ConsistencyInitInvariant == ConsistencyInit => ConsistencyInv
<1> SUFFICES ASSUME ConsistencyInit PROVE ConsistencyInv
  OBVIOUS
<1>1. 0 \in Numbers /\ 0 \in 0 .. MaxFailures
  BY ConsistencyAssumption DEF ConsistencyAssumption, Numbers
<1>2. ConsistencyTypes
  BY <1>1 DEF ConsistencyInit, ConsistencyTypes, Stages, Metrics
<1>3. ReadInv /\ UnsetInv
  BY DEF ConsistencyInit, ReadInv, UnsetInv, Metrics
<1> QED
  BY <1>2, <1>3 DEF ConsistencyInv

\* A revision is applied: what was read before is no longer compared.
LEMMA ApplyInvariant ==
  ASSUME ConsistencyInv, NEW m \in Members, Apply(m)
  PROVE  ConsistencyInv'
<1>1. rev[m] + 1 \in Numbers
  BY ConsistencyAssumption
  DEF ConsistencyAssumption, ConsistencyInv, ConsistencyTypes, Numbers, Apply
<1>2. ConsistencyTypes'
  <2>1. rev' \in [Members -> Numbers] /\ keys' \in [Members -> Numbers]
    BY <1>1 DEF ConsistencyInv, ConsistencyTypes, Apply
  <2> QED
    BY <2>1 DEF ConsistencyInv, ConsistencyTypes, Apply, readVars
<1>3. ReadInv' /\ UnsetInv'
  BY DEF ConsistencyInv, ReadInv, UnsetInv, Apply, readVars
<1> QED
  BY <1>2, <1>3 DEF ConsistencyInv

\* An inspection begins: nothing has been read.
LEMMA BeginInvariant ==
  ASSUME ConsistencyInv, Begin
  PROVE  ConsistencyInv'
<1>1. ConsistencyTypes'
  <2>1. stage' \in [Members -> Stages] /\ {running', counted', quiet'} \subseteq BOOLEAN
    BY DEF ConsistencyInv, ConsistencyTypes, Begin, Stages
  <2>2. failures' \in 0 .. MaxFailures
    BY ConsistencyAssumption
    DEF ConsistencyAssumption, ConsistencyInv, ConsistencyTypes, Begin, Fail
  <2> QED
    BY <2>1, <2>2 DEF ConsistencyInv, ConsistencyTypes, Begin, dataVars
<1>2. ReadInv'
  BY DEF ReadInv, Begin
<1>3. UnsetInv'
  BY DEF ConsistencyInv, UnsetInv, Begin, dataVars
<1> QED
  BY <1>1, <1>2, <1>3 DEF ConsistencyInv

\* A call of a goroutine moves it on, or fails.
LEMMA GiveType ==
  ASSUME ConsistencyTypes, NEW m \in Members, NEW next \in Stages, Give(m, next)
  PROVE  /\ stage' \in [Members -> Stages] /\ failures' \in 0 .. MaxFailures
         /\ stage'[m] \in {next, "failed"}
         /\ \A n \in Members : n # m => stage'[n] = stage[n]
<1>1. "failed" \in Stages
  BY DEF Stages
<1> QED
  BY <1>1, ConsistencyAssumption DEF ConsistencyAssumption, ConsistencyTypes, Give, Fail

\* A goroutine reads from the member it asks, and only from that.
LEMMA GoroutineInvariant ==
  ASSUME ConsistencyInv, NEW m \in Members,
         Assign(m) \/ Connect(m) \/ GetIndex(m) \/ GetTotalKeyNum(m)
  PROVE  ConsistencyInv'
<1>1. CASE Assign(m)
  <2>1. ConsistencyTypes'
    BY <1>1 DEF ConsistencyInv, ConsistencyTypes, Assign, dataVars, Stages
  <2>2. ReadInv' /\ UnsetInv'
    BY <1>1
    DEF ConsistencyInv, ConsistencyTypes, ReadInv, UnsetInv, Asked, Assign, dataVars
  <2> QED
    BY <2>1, <2>2 DEF ConsistencyInv
<1>2. CASE Connect(m)
  <2>1. /\ stage' \in [Members -> Stages] /\ failures' \in 0 .. MaxFailures
        /\ stage'[m] \in {"connected", "failed"}
        /\ \A n \in Members : n # m => stage'[n] = stage[n]
    BY <1>2, GiveType DEF ConsistencyInv, Connect, Stages
  <2>2. /\ client' = [client EXCEPT ![m] = endpoint]
        /\ UNCHANGED <<dataVars, endpoint, readRev, readKeys, running, gauge, counted, quiet>>
    BY <1>2 DEF Connect
  <2>3. ConsistencyTypes'
    BY <2>1, <2>2 DEF ConsistencyInv, ConsistencyTypes, dataVars
  <2>4. \A n \in Members : stage'[n] \in {"indexed", "done"} =>
          stage[n] = stage'[n] /\ client'[n] = client[n] /\ Asked(n)' = Asked(n)
    BY <2>1, <2>2 DEF ConsistencyInv, ConsistencyTypes, Asked, dataVars
  <2>5. ReadInv' /\ UnsetInv'
    BY <2>2, <2>4 DEF ConsistencyInv, ReadInv, UnsetInv, dataVars
  <2> QED
    BY <2>3, <2>5 DEF ConsistencyInv
<1>3. CASE GetIndex(m)
  <2>1. /\ stage' \in [Members -> Stages] /\ failures' \in 0 .. MaxFailures
        /\ stage'[m] \in {"indexed", "failed"}
        /\ \A n \in Members : n # m => stage'[n] = stage[n]
    BY <1>3, GiveType DEF ConsistencyInv, GetIndex, Stages
  <2>2. /\ readRev' = [readRev EXCEPT ![m] = rev[Asked(m)]]
        /\ UNCHANGED <<dataVars, endpoint, client, readKeys, running, gauge, counted, quiet>>
    BY <1>3 DEF GetIndex
  <2>3. Asked(m) \in Members /\ \A n \in Members : Asked(n)' = Asked(n)
    BY <2>2 DEF ConsistencyInv, ConsistencyTypes, Asked, dataVars
  <2>4. ConsistencyTypes'
    BY <2>1, <2>2, <2>3 DEF ConsistencyInv, ConsistencyTypes, dataVars
  <2>5. ReadInv' /\ UnsetInv'
    BY <2>1, <2>2, <2>3 DEF ConsistencyInv, ConsistencyTypes, ReadInv, UnsetInv, dataVars
  <2> QED
    BY <2>4, <2>5 DEF ConsistencyInv
<1>4. CASE GetTotalKeyNum(m)
  <2>1. /\ stage' \in [Members -> Stages] /\ failures' \in 0 .. MaxFailures
        /\ stage'[m] \in {"done", "failed"}
        /\ \A n \in Members : n # m => stage'[n] = stage[n]
    BY <1>4, GiveType DEF ConsistencyInv, GetTotalKeyNum, Stages
  <2>2. /\ readKeys' = [readKeys EXCEPT ![m] = keys[client[m]]] /\ stage[m] = "indexed"
        /\ UNCHANGED <<dataVars, endpoint, client, readRev, running, gauge, counted, quiet>>
    BY <1>4 DEF GetTotalKeyNum
  <2>3. \A n \in Members : Asked(n)' = Asked(n)
    BY <2>2 DEF ConsistencyInv, ConsistencyTypes, Asked, dataVars
  <2>4. ConsistencyTypes'
    BY <2>1, <2>2 DEF ConsistencyInv, ConsistencyTypes, dataVars
  <2>5. ReadInv' /\ UnsetInv'
    BY <2>1, <2>2, <2>3 DEF ConsistencyInv, ConsistencyTypes, ReadInv, UnsetInv, dataVars
  <2> QED
    BY <2>4, <2>5 DEF ConsistencyInv
<1> QED
  BY <1>1, <1>2, <1>3, <1>4

\* The gauges are set from numbers, or stay as they are.
LEMMA FinishInvariant ==
  ASSUME ConsistencyInv, Finish
  PROVE  ConsistencyInv'
<1>1. 0 \in Numbers /\ "idle" \in Stages
  BY ConsistencyAssumption DEF ConsistencyAssumption, Numbers, Stages
<1>2. \A t \in Metrics : Values(t) # {} => Spread(Values(t)) \in Numbers
  BY ValuesType, SpreadOfPart DEF ConsistencyInv
<1>3. /\ gauge' \in [Metrics -> Numbers \cup {Unset}]
      /\ \A t \in Metrics : Values(t) = {} => gauge'[t] = gauge[t]
  BY <1>2 DEF ConsistencyInv, ConsistencyTypes, Finish
<1>4. ConsistencyTypes'
  BY <1>1, <1>3 DEF ConsistencyInv, ConsistencyTypes, Finish, dataVars
<1>5. UnsetInv'
  BY <1>3, ValuesType DEF ConsistencyInv, UnsetInv, Finish, dataVars, Metrics
<1> QED
  BY <1>4, <1>5 DEF ConsistencyInv, ReadInv, Finish

\* The consistency inspection keeps its invariant.
LEMMA ConsistencyInvariant ==
  ASSUME ConsistencyInv, ConsistencyNext \/ UNCHANGED consistencyVars
  PROVE  ConsistencyInv'
<1>1. CASE UNCHANGED consistencyVars
  BY <1>1
  DEF consistencyVars, ConsistencyInv, ConsistencyTypes, ReadInv, UnsetInv, Asked
<1>2. CASE ConsistencyNext
  BY <1>2, ApplyInvariant, BeginInvariant, GoroutineInvariant, FinishInvariant
  DEF ConsistencyNext, ConsistencyStep
<1> QED
  BY <1>1, <1>2

-----------------------------------------------------------------------------
(* Alarms and health *)

MetricsTypes ==
  /\ listed \subseteq Nodes /\ alarms \subseteq Alarms /\ healthy \subseteq Nodes
  /\ turns \in 0 .. MaxTurns /\ errors \in 0 .. MaxErrors
  /\ at \in {"idle", "alarm", "healthy"} /\ seen \subseteq Nodes /\ left \subseteq seen
  /\ alarmGauge \subseteq AlarmLabels(Nodes)
  /\ alarmZero \subseteq AlarmLabels(Nodes) \ alarmGauge
  /\ healthGauge \in [Hosts(Nodes) -> {-1, 0, 1}]

\* Everybody is listed and healthy at the start.
LEMMA MetricsInitType == MetricsInit => MetricsTypes
BY MetricsAssumption DEF MetricsAssumption, MetricsInit, MetricsTypes

\* etcd changes by turns.
LEMMA EtcdStepType ==
  ASSUME MetricsTypes, EtcdStep
  PROVE  MetricsTypes'
<1>1. UNCHANGED <<errors, at, seen, left, gaugeVars>> /\ Turn
  BY DEF EtcdStep, Raise, Disarm, Sicken, Recover, Join, Leave
<1>2. turns' \in 0 .. MaxTurns
  BY <1>1, MetricsAssumption DEF MetricsAssumption, MetricsTypes, Turn
<1>3. listed' \subseteq Nodes /\ alarms' \subseteq Alarms /\ healthy' \subseteq Nodes
  BY DEF MetricsTypes, EtcdStep, Raise, Disarm, Sicken, Recover, Join, Leave
<1> QED
  BY <1>1, <1>2, <1>3 DEF MetricsTypes, gaugeVars

\* An alarm is shown or cleared, never both.
LEMMA AlarmStepType ==
  ASSUME MetricsTypes, AlarmStep
  PROVE  MetricsTypes'
<1>1. UNCHANGED etcdVars
  BY DEF AlarmStep, Read, CollectAlarmList
<1>2. errors' \in 0 .. MaxErrors
  BY MetricsAssumption
  DEF MetricsAssumption, MetricsTypes, AlarmStep, Read, CollectAlarmList
<1>3. CASE Read("alarm")
  BY <1>1, <1>2, <1>3 DEF MetricsTypes, Read, etcdVars, gaugeVars
<1>4. CASE CollectAlarmList
  <2>1. /\ RaisedBy(seen, alarms) \subseteq AlarmLabels(Nodes)
        /\ ClearedBy(seen, alarms) \subseteq AlarmLabels(Nodes)
        /\ RaisedBy(seen, alarms) \cap ClearedBy(seen, alarms) = {}
    BY DEF MetricsTypes, RaisedBy, ClearedBy, Alarms, AlarmLabels, Hosts
  <2>2. /\ alarmGauge' \subseteq AlarmLabels(Nodes)
        /\ alarmZero' \subseteq AlarmLabels(Nodes) \ alarmGauge'
    BY <1>4, <2>1 DEF MetricsTypes, CollectAlarmList
  <2> QED
    BY <1>1, <1>2, <1>4, <2>2 DEF MetricsTypes, CollectAlarmList, Done, etcdVars
<1> QED
  BY <1>3, <1>4 DEF AlarmStep

\* A member is asked once.
LEMMA HealthyStepType ==
  ASSUME MetricsTypes, HealthyStep
  PROVE  MetricsTypes'
<1>1. UNCHANGED <<etcdVars, alarmGauge, alarmZero>>
  BY DEF HealthyStep, Read, HealthyDone, CollectMemberHealthy, gaugeVars
<1>2. CASE Read("healthy")
  <2>1. errors' \in 0 .. MaxErrors
    BY <1>2, MetricsAssumption DEF MetricsAssumption, MetricsTypes, Read
  <2> QED
    BY <1>1, <1>2, <2>1 DEF MetricsTypes, Read, etcdVars, gaugeVars
<1>3. CASE HealthyDone
  BY <1>1, <1>3 DEF MetricsTypes, HealthyDone, Done, etcdVars, gaugeVars
<1>4. ASSUME NEW m \in Nodes, CollectMemberHealthy(m) PROVE MetricsTypes'
  <2>1. errors' \in 0 .. MaxErrors
    <3>1. errors' = errors \/ (errors < MaxErrors /\ errors' = errors + 1)
      BY <1>4 DEF CollectMemberHealthy
    <3> QED
      BY <3>1, MetricsAssumption DEF MetricsAssumption, MetricsTypes
  <2>2. healthGauge' \in [Hosts(Nodes) -> {-1, 0, 1}]
    BY <1>4 DEF MetricsTypes, CollectMemberHealthy, Probed
  <2> QED
    BY <1>1, <1>4, <2>1, <2>2 DEF MetricsTypes, CollectMemberHealthy, etcdVars
<1> QED
  BY <1>2, <1>3, <1>4 DEF HealthyStep

-----------------------------------------------------------------------------
(* Backups *)

\* The backups are the cluster's own, and there are finitely many files.
MadeInv ==
  /\ IsFiniteSet(made) /\ IsFiniteSet(foreign)
  /\ \A f \in made : f.path = Own

\* A backup is deleted only when as many as are kept have names that come after its own.
KeptInv == \A f \in made : Cardinality(After(made, f)) < MaxBackups => f \in files

FilesTypes ==
  /\ storage \in {"COS", "S3"} /\ now \in 0 .. LastTick /\ due \in BOOLEAN
  /\ files \subseteq made /\ made \subseteq Files
  /\ foreign \subseteq Files

FilesInv == FilesTypes /\ MadeInv /\ KeptInv

\* There are no backups at the start.
LEMMA FilesInitInvariant == FilesInit => FilesInv
<1> SUFFICES ASSUME FilesInit PROVE FilesInv
  OBVIOUS
<1>1. FilesTypes
  BY BackupFilesAssumption DEF BackupFilesAssumption, FilesInit, FilesTypes
<1>2. MadeInv /\ KeptInv
  BY FS_EmptySet DEF FilesInit, MadeInv, KeptInv
<1> QED
  BY <1>1, <1>2 DEF FilesInv

\* Numbers of equally many digits are in the order of their text.
LEMMA TextOrder ==
  ASSUME NEW m \in 1 .. 99, NEW n \in 1 .. 99, Len(Digits(m)) = Len(Digits(n))
  PROVE  TextBefore(m, n) <=> m < n
<1>1. CASE m < 10
  <2>1. Digits(m) = <<m>> /\ n < 10
    BY <1>1 DEF Digits
  <2>2. Digits(n) = <<n>>
    BY <2>1 DEF Digits
  <2> QED
    BY <2>1, <2>2 DEF TextBefore
<1>2. CASE ~ m < 10
  <2>1. Digits(m) = <<m \div 10, m % 10>> /\ ~ n < 10
    BY <1>2 DEF Digits
  <2>2. Digits(n) = <<n \div 10, n % 10>>
    BY <2>1 DEF Digits
  <2>3. m \in 10 .. 99 /\ n \in 10 .. 99
    BY <1>2, <2>1
  <2>4. TextBefore(m, n) <=> \/ m \div 10 < n \div 10
                             \/ m \div 10 = n \div 10 /\ m % 10 < n % 10
    BY <2>1, <2>2 DEF TextBefore
  <2>5. \A i, j \in 10 .. 99 : i \div 10 < j \div 10 => i < j
    OBVIOUS
  <2>6. \A i, j \in 10 .. 99 : i \div 10 = j \div 10 => (i % 10 < j % 10 <=> i < j)
    OBVIOUS
  <2>7. m \div 10 \in Int /\ n \div 10 \in Int
    OBVIOUS
  <2>8. CASE m \div 10 < n \div 10
    BY <2>3, <2>4, <2>5, <2>8
  <2>9. CASE m \div 10 = n \div 10
    BY <2>3, <2>4, <2>6, <2>9
  <2>10. CASE n \div 10 < m \div 10
    <3>1. n < m
      BY <2>3, <2>5, <2>10
    <3> QED
      BY <2>4, <2>7, <2>10, <3>1
  <2> QED
    BY <2>7, <2>8, <2>9, <2>10
<1> QED
  BY <1>1, <1>2

\* In one length, a backup whose name comes later has newer data.
LEMMA NameNewer ==
  ASSUME NEW f \in Files, NEW g \in Files, Len(Digits(f.rev)) = Len(Digits(g.rev)),
         f.path = Own, g.path = Own, NameBefore(f, g)
  PROVE  Newer(g, f)
<1>1. \A n \in FirstRev .. LastRev : n \in 1 .. 99
  BY BackupFilesAssumption DEF BackupFilesAssumption
<1>2. f.rev \in 1 .. 99 /\ g.rev \in 1 .. 99
  BY <1>1 DEF Files
<1>3. TextBefore(f.rev, g.rev) => f.rev < g.rev
  BY <1>2, TextOrder
<1>4. ~ f.path < g.path
  BY DEF Own
<1>5. f.rev < g.rev \/ (f.rev = g.rev /\ f.at < g.at)
  BY <1>3, <1>4 DEF NameBefore
<1> QED
  BY <1>5 DEF Newer

\* Clock and the other clusters' files disturb nothing.
LEMMA SurroundingsInvariant ==
  ASSUME FilesInv, Tick \/ OthersSave \/ OthersDelete
  PROVE  FilesInv'
<1>1. UNCHANGED <<storage, files, made>>
  BY DEF Tick, OthersSave, OthersDelete
<1>2. KeptInv'
  BY <1>1 DEF FilesInv, KeptInv, After
<1>3. now' \in 0 .. LastTick
  BY BackupFilesAssumption
  DEF BackupFilesAssumption, FilesInv, FilesTypes, Tick, OthersSave, OthersDelete
<1>4. due' \in BOOLEAN
  BY DEF FilesInv, FilesTypes, Tick, OthersSave, OthersDelete
<1>5. foreign' \subseteq Files /\ IsFiniteSet(foreign')
  <2>1. CASE UNCHANGED foreign
    BY <2>1 DEF FilesInv, FilesTypes, MadeInv
  <2>2. CASE OthersSave
    <3>1. PICK path \in Paths \ {Own} :
            foreign' = foreign \cup {[path |-> path, rev |-> FirstRev, at |-> now]}
      BY <2>2 DEF OthersSave
    <3>2. [path |-> path, rev |-> FirstRev, at |-> now] \in Files
      BY BackupFilesAssumption DEF BackupFilesAssumption, FilesInv, FilesTypes, Files
    <3> QED
      BY <3>1, <3>2, FS_AddElement DEF FilesInv, FilesTypes, MadeInv
  <2>3. CASE OthersDelete
    <3>1. foreign' \in SUBSET foreign
      BY <2>3 DEF OthersDelete
    <3> QED
      BY <3>1, FS_Subset DEF FilesInv, FilesTypes, MadeInv
  <2> QED
    BY <2>1, <2>2, <2>3 DEF Tick
<1> QED
  BY <1>1, <1>2, <1>3, <1>4, <1>5 DEF FilesInv, FilesTypes, MadeInv

\* A backup is saved, and what enough names come after may be deleted, whatever its
\* revision, wherever the listing ends and whichever deletion fails.
LEMMA BackupInvariant ==
  ASSUME FilesInv, Backup
  PROVE  FilesInv'
<1>1. /\ UNCHANGED <<storage, now, foreign>> /\ due' \in BOOLEAN
  BY DEF Backup
<1>2. CASE UNCHANGED <<files, made>>
  BY <1>1, <1>2 DEF FilesInv, FilesTypes, MadeInv, KeptInv, After
<1>3. ASSUME NEW rev1 \in FirstRev .. LastRev, NEW failing,
             made' = made \cup {[path |-> Own, rev |-> rev1, at |-> now]},
             files' = Kept(files \cup {[path |-> Own, rev |-> rev1, at |-> now]}, failing)
      PROVE  FilesInv'
  <2> DEFINE new   == [path |-> Own, rev |-> rev1, at |-> now]
             saved == files \cup {new}
  <2>1. new \in Files /\ new.path = Own
    BY BackupFilesAssumption DEF BackupFilesAssumption, FilesInv, FilesTypes, Files, Paths, Own
  <2> HIDE DEF new
  <2>2. made' = made \cup {new} /\ files' = Kept(saved, failing)
    BY <1>3 DEF new
  <2>3. files' \subseteq saved /\ saved \subseteq made'
    BY <2>2 DEF Kept, FilesInv, FilesTypes
  <2>4. FilesTypes'
    BY <1>1, <2>1, <2>2, <2>3 DEF FilesInv, FilesTypes
  <2>5. MadeInv'
    BY <1>1, <2>1, <2>2, FS_AddElement DEF FilesInv, MadeInv
  <2>6. KeptInv'
    <3> SUFFICES ASSUME NEW f \in made', Cardinality(After(made', f)) < MaxBackups
                 PROVE  f \in files'
      BY DEF KeptInv, After
    <3>1. \A part \in SUBSET made' :
            /\ IsFiniteSet(After(part, f)) /\ Cardinality(After(part, f)) \in Nat
            /\ Cardinality(After(part, f)) < MaxBackups
      <4> SUFFICES ASSUME NEW part \in SUBSET made'
                   PROVE  /\ IsFiniteSet(After(part, f)) /\ Cardinality(After(part, f)) \in Nat
                          /\ Cardinality(After(part, f)) < MaxBackups
        OBVIOUS
      <4>1. After(made', f) \in SUBSET made' /\ After(part, f) \in SUBSET After(made', f)
        BY DEF After
      <4>2. IsFiniteSet(After(made', f))
        BY <2>5, <4>1, FS_Subset DEF MadeInv
      <4>3. /\ IsFiniteSet(After(part, f))
            /\ Cardinality(After(part, f)) <= Cardinality(After(made', f))
        BY <4>1, <4>2, FS_Subset
      <4>4. Cardinality(After(part, f)) \in Nat /\ Cardinality(After(made', f)) \in Nat
        BY <4>2, <4>3, FS_CardinalityType
      <4> QED
        BY <4>3, <4>4, BackupFilesAssumption DEF BackupFilesAssumption
    <3>2. f \in saved
      <4>1. CASE f \in made
        <5>1. Cardinality(After(made, f)) < MaxBackups
          BY <2>2, <3>1
        <5> QED
          BY <4>1, <5>1 DEF FilesInv, KeptInv
      <4> QED
        BY <2>2, <4>1
    <3>3. FirstPage(saved) \in SUBSET made'
      BY <2>3 DEF FirstPage
    <3>4. Cardinality(After(FirstPage(saved), f)) < MaxBackups
      BY <3>1, <3>3
    <3> QED
      BY <2>2, <3>2, <3>4 DEF Kept
  <2> QED
    BY <2>4, <2>5, <2>6 DEF FilesInv
<1> QED
  BY <1>2, <1>3 DEF Backup

\* The files are looked at, or left alone.
LEMMA FilesInvariant ==
  ASSUME FilesInv, FilesNext \/ UNCHANGED filesVars
  PROVE  FilesInv'
<1>1. CASE UNCHANGED <<storage, now, due, files, foreign, made>>
  BY <1>1 DEF FilesInv, FilesTypes, MadeInv, KeptInv, After
<1>2. CASE StatBackupFiles
  BY <1>1, <1>2 DEF StatBackupFiles
<1>3. CASE FilesNext /\ ~ StatBackupFiles
  BY <1>3, SurroundingsInvariant, BackupInvariant DEF FilesNext
<1> QED
  BY <1>1, <1>2, <1>3 DEF filesVars

-----------------------------------------------------------------------------
(* The members recorded *)

\* Nothing is recorded before the first collection.
LEMMA RolesInitType == Status!RolesInit => Status!RolesTypeOK
<1> SUFFICES ASSUME Status!RolesInit PROVE Status!RolesTypeOK
  OBVIOUS
<1>1. Status!NoRoles \in [{} -> Status!Roles]
  BY DEF Status!NoRoles
<1>2. /\ recorded \in UNION {[some -> Status!Roles] : some \in SUBSET Servers}
      /\ roles \in UNION {[some -> Status!Roles] : some \in SUBSET found}
  BY <1>1 DEF Status!RolesInit
<1>3. view \in [Servers -> Servers \cup {Status!None}]
  BY DEF Status!RolesInit
<1>4. changes \in 0 .. MaxChanges
  BY InspectionsAssumption DEF InspectionsAssumption, Status!RolesInit
<1> QED
  BY <1>2, <1>3, <1>4 DEF Status!RolesInit, Status!RolesTypeOK

\* What happens to etcd leaves what was collected alone.
LEMMA EtcdChangesType ==
  ASSUME Status!RolesTypeOK, Status!EtcdChanges
  PROVE  Status!RolesTypeOK'
<1>1. /\ changes' = changes + 1 /\ changes < MaxChanges
      /\ UNCHANGED <<provider, backend, recorded, found, roles>>
  BY DEF Status!EtcdChanges, Status!Change, Status!Hear, Status!Stop, Status!Start,
         Status!Join, Status!Promote, Status!Leave
<1>2. changes' \in 0 .. MaxChanges
  BY <1>1, InspectionsAssumption DEF InspectionsAssumption, Status!RolesTypeOK
<1>3. PICK m \in Servers :
        \/ Status!Hear(m) \/ Status!Stop(m) \/ Status!Start(m)
        \/ Status!Join(m) \/ Status!Promote(m) \/ Status!Leave(m)
  BY DEF Status!EtcdChanges
<1>4. /\ members' \in (SUBSET Servers) \ {{}} /\ {learners, up}' \subseteq SUBSET members'
  BY <1>3 DEF Status!Hear, Status!Stop, Status!Start, Status!Join, Status!Promote,
              Status!Leave, Status!RolesTypeOK
<1>5. view' \in [Servers -> Servers \cup {Status!None}]
  BY <1>3 DEF Status!Hear, Status!Stop, Status!Start, Status!Join, Status!Promote,
              Status!Leave, Status!RolesTypeOK
<1> QED
  BY <1>1, <1>2, <1>4, <1>5 DEF Status!RolesTypeOK

\* Each answer gives the member one of the roles.
LEMMA CollectType ==
  ASSUME Status!RolesTypeOK, Status!Collect
  PROVE  Status!RolesTypeOK'
<1>1. Status!NoRoles \in [{} -> Status!Roles]
  BY DEF Status!NoRoles
<1>2. CASE Status!MemberList
  BY <1>2 DEF Status!MemberList, Status!RolesTypeOK, Status!etcdVars
<1>3. CASE Status!Record
  BY <1>1, <1>3 DEF Status!Record, Status!RolesTypeOK, Status!etcdVars
<1>4. ASSUME NEW m \in Servers, Status!Ask(m) PROVE Status!RolesTypeOK'
  <2>1. PICK status :
          roles' = [n \in DOMAIN roles \cup {m} |->
                      IF n = m THEN Status!Role(status, m) ELSE roles[n]]
    BY <1>4 DEF Status!Ask
  <2>2. Status!Role(status, m) \in Status!Roles
    BY DEF Status!Role, Status!Roles
  <2>3. PICK some \in SUBSET found : roles \in [some -> Status!Roles]
    BY DEF Status!RolesTypeOK
  <2>4. roles' \in [some \cup {m} -> Status!Roles] /\ some \cup {m} \in SUBSET found
    BY <1>4, <2>1, <2>2, <2>3 DEF Status!Ask
  <2> QED
    BY <1>4, <2>4 DEF Status!Ask, Status!RolesTypeOK, Status!etcdVars
<1> QED
  BY <1>2, <1>3, <1>4 DEF Status!Collect

\* The types are kept, whatever is collected and whatever happens meanwhile.
LEMMA RolesInvariant ==
  ASSUME Status!RolesTypeOK, Status!Collect \/ Status!EtcdChanges \/ UNCHANGED rolesVars
  PROVE  Status!RolesTypeOK'
<1>1. CASE UNCHANGED rolesVars
  BY <1>1 DEF rolesVars, Status!RolesTypeOK
<1> QED
  BY <1>1, CollectType, EtcdChangesType

-----------------------------------------------------------------------------
(* The invariant *)

IInv == task \in Tasks /\ ConsistencyInv /\ MetricsTypes /\ FilesInv /\ Status!RolesTypeOK

\* The inductive invariant holds in every state.
LEMMA Invariant == Spec => []IInv
<1>1. Init => IInv
  <2> SUFFICES ASSUME Init PROVE IInv
    OBVIOUS
  <2>1. task \in Tasks
    BY DEF Init
  <2> QED
    BY <2>1, ConsistencyInitInvariant, MetricsInitType, FilesInitInvariant, RolesInitType
    DEF Init, IInv
<1>2. IInv /\ [Next]_vars => IInv'
  <2> SUFFICES ASSUME IInv, [Next]_vars PROVE IInv'
    OBVIOUS
  <2>1. UNCHANGED task
    BY DEF Next, KeysAsked, ConsistencyRuns, AlarmRuns, HealthyRuns, BackupsGoOn,
           DataChanges, EtcdChanges, MembersCollected, MembersChange, vars
  <2>2. ConsistencyNext \/ UNCHANGED consistencyVars
    BY DEF Next, KeysAsked, ConsistencyRuns, AlarmRuns, HealthyRuns, BackupsGoOn,
           DataChanges, EtcdChanges, MembersCollected, MembersChange, vars, ConsistencyNext
  <2>3. AlarmStep \/ HealthyStep \/ EtcdStep \/ UNCHANGED metricsVars
    BY DEF Next, KeysAsked, ConsistencyRuns, AlarmRuns, HealthyRuns, BackupsGoOn,
           DataChanges, EtcdChanges, MembersCollected, MembersChange, vars
  <2>4. FilesNext \/ UNCHANGED filesVars
    BY DEF Next, KeysAsked, ConsistencyRuns, AlarmRuns, HealthyRuns, BackupsGoOn,
           DataChanges, EtcdChanges, MembersCollected, MembersChange, vars
  <2>7. Status!Collect \/ Status!EtcdChanges \/ UNCHANGED rolesVars
    BY DEF Next, KeysAsked, ConsistencyRuns, AlarmRuns, HealthyRuns, BackupsGoOn,
           DataChanges, EtcdChanges, MembersCollected, MembersChange, vars
  <2>5. UNCHANGED metricsVars => MetricsTypes'
    BY DEF IInv, metricsVars, MetricsTypes
  <2>6. MetricsTypes'
    BY <2>3, <2>5, AlarmStepType, HealthyStepType, EtcdStepType DEF IInv
  <2> QED
    BY <2>1, <2>2, <2>4, <2>6, <2>7, ConsistencyInvariant, FilesInvariant, RolesInvariant DEF IInv
<1> QED
  BY <1>1, <1>2, PTL DEF Spec

\* Types are kept, and in one length the MaxBackups backups with the newest data are in the
\* bucket, whichever member gave the revisions and whichever deletions failed
\* (backup_manager.go:61-107).
THEOREM LatestBackupStays == Spec => []Inv
<1>1. IInv => Inv
  <2> SUFFICES ASSUME IInv PROVE Inv
    OBVIOUS
  <2>1. TypeOK
    BY DEF IInv, ConsistencyInv, ConsistencyTypes, MetricsTypes, FilesInv, FilesTypes, TypeOK
  <2>2. ASSUME OneLength, NEW f \in made,
               Cardinality({g \in made : Newer(g, f)}) < MaxBackups
        PROVE  f \in files
    <3> DEFINE newer == {g \in made : Newer(g, f)}
    <3>1. newer \in SUBSET made /\ IsFiniteSet(made)
      BY DEF IInv, FilesInv, MadeInv
    <3>2. IsFiniteSet(newer)
      BY <3>1, FS_Subset
    <3>3. After(made, f) \in SUBSET newer
      <4> SUFFICES ASSUME NEW g \in made, NameBefore(f, g) PROVE Newer(g, f)
        BY DEF After
      <4>1. f \in Files /\ g \in Files /\ f.path = Own /\ g.path = Own
        BY DEF IInv, FilesInv, FilesTypes, MadeInv
      <4>2. Len(Digits(f.rev)) = Len(Digits(g.rev))
        BY <2>2 DEF OneLength
      <4> QED
        BY <4>1, <4>2, NameNewer
    <3>4. /\ Cardinality(After(made, f)) <= Cardinality(newer)
          /\ Cardinality(After(made, f)) \in Nat /\ Cardinality(newer) \in Nat
      BY <3>2, <3>3, FS_Subset, FS_CardinalityType
    <3>5. Cardinality(newer) < MaxBackups
      BY <2>2
    <3> HIDE DEF newer
    <3>6. Cardinality(After(made, f)) < MaxBackups
      BY <3>4, <3>5, BackupFilesAssumption DEF BackupFilesAssumption
    <3> QED
      BY <3>6 DEF IInv, FilesInv, KeptInv
  <2> QED
    BY <2>1, <2>2 DEF Inv, LatestDataKept
<1> QED
  BY <1>1, Invariant, PTL

-----------------------------------------------------------------------------
(* What the inspections show *)

\* A complete inspection without writes compares what the members hold.
LEMMA FinishShows ==
  ASSUME ConsistencyInv, Finish, quiet, ~ counted'
  PROVE  /\ gauge'["keyTotal"] <= Spreads(keys)
         /\ gauge'["revision"] <= Spreads(rev)
         /\ gauge'["index"] <= Spreads(rev)
         /\ V2 = {} => gauge'["raft"] = Spreads(rev) /\ gauge'["revision"] = Spreads(rev)
<1>1. \A m \in Members : stage[m] = "done"
  BY DEF Finish, Complete
<1>2. \A m \in Members : readRev[m] = rev[Asked(m)] /\ readKeys[m] = keys[client[m]]
  BY <1>1 DEF ConsistencyInv, ReadInv, Finish
<1>3. gauge' = [t \in Metrics |-> IF Values(t) = {} THEN gauge[t] ELSE Spread(Values(t))]
  BY <1>1 DEF Finish, Complete
<1>4. /\ V2 \subseteq Members /\ Members # {}
      /\ \A m \in Members : Asked(m) \in Members /\ client[m] \in Members
      /\ \A m \in Members \ V2 : Asked(m) = m
  BY ConsistencyAssumption
  DEF ConsistencyAssumption, ConsistencyInv, ConsistencyTypes, Asked
<1> DEFINE revs == {rev[m] : m \in Members}
           sums == {keys[m] : m \in Members}
<1>5. revs \in SUBSET Numbers /\ sums \in SUBSET Numbers /\ revs # {} /\ sums # {}
  BY <1>4 DEF ConsistencyInv, ConsistencyTypes
<1>6. Spreads(rev) = Spread(revs) /\ Spreads(keys) = Spread(sums)
  BY DEF Spreads
<1>7. /\ Values("keyTotal") = {readKeys[m] : m \in Members}
      /\ Values("revision") = {readRev[m] : m \in Members \ V2}
      /\ Values("index") = {readRev[m] : m \in V2}
      /\ Values("raft") = {IF m \in V2 THEN 0 ELSE readRev[m] : m \in Members}
  BY DEF Values
<1>8. /\ Values("keyTotal") \subseteq sums /\ Values("keyTotal") # {}
      /\ Values("revision") \subseteq revs /\ Values("index") \subseteq revs
  BY <1>2, <1>4, <1>7
<1>9. V2 = {} => Values("revision") = revs /\ Values("raft") = revs
  BY <1>2, <1>4, <1>7
<1> HIDE DEF revs, sums
<1>10. Spread(revs) \in Numbers
  BY <1>5, SpreadOfPart
<1>11. gauge'["keyTotal"] <= Spreads(keys)
  BY <1>3, <1>5, <1>6, <1>8, SpreadOfPart DEF Metrics
<1>12. gauge'["revision"] <= Spreads(rev)
  <2>1. CASE Values("revision") = {}
    <3>1. V2 = Members
      BY <1>4, <1>7, <2>1
    <3>2. gauge'["revision"] = Unset
      BY <1>3, <2>1, <3>1 DEF ConsistencyInv, UnsetInv, Metrics
    <3> QED
      BY <1>6, <1>10, <3>2, ConsistencyAssumption DEF ConsistencyAssumption, Numbers, Unset
  <2>2. CASE Values("revision") # {}
    BY <1>3, <1>5, <1>6, <1>8, <2>2, SpreadOfPart DEF Metrics
  <2> QED
    BY <2>1, <2>2
<1>13. gauge'["index"] <= Spreads(rev)
  <2>1. CASE Values("index") = {}
    <3>1. V2 = {}
      BY <1>7, <2>1
    <3>2. gauge'["index"] = Unset
      BY <1>3, <2>1, <3>1 DEF ConsistencyInv, UnsetInv, Metrics
    <3> QED
      BY <1>6, <1>10, <3>2, ConsistencyAssumption DEF ConsistencyAssumption, Numbers, Unset
  <2>2. CASE Values("index") # {}
    BY <1>3, <1>5, <1>6, <1>8, <2>2, SpreadOfPart DEF Metrics
  <2> QED
    BY <2>1, <2>2
<1>14. V2 = {} => gauge'["raft"] = Spreads(rev) /\ gauge'["revision"] = Spreads(rev)
  BY <1>3, <1>5, <1>6, <1>9 DEF Metrics
<1> QED
  BY <1>11, <1>12, <1>13, <1>14

\* An inspection during which nothing is written shows no difference that is not there,
\* wherever the shared configuration led its goroutines (consistency.go:57-103).
THEOREM DifferencesReal == Spec => DifferencesAreReal
<1>1. IInv /\ [Next]_vars =>
        [(running /\ ~running' /\ quiet /\ ~counted') =>
           /\ gauge'["keyTotal"] <= Spreads(keys)
           /\ gauge'["revision"] <= Spreads(rev)
           /\ gauge'["index"] <= Spreads(rev)
           /\ V2 = {} => gauge'["raft"] = Spreads(rev) /\ gauge'["revision"] = Spreads(rev)]_vars
  <2> SUFFICES ASSUME IInv, Next, running, ~ running', quiet, ~ counted'
               PROVE  /\ gauge'["keyTotal"] <= Spreads(keys)
                      /\ gauge'["revision"] <= Spreads(rev)
                      /\ gauge'["index"] <= Spreads(rev)
                      /\ V2 = {} => /\ gauge'["raft"] = Spreads(rev)
                                    /\ gauge'["revision"] = Spreads(rev)
    OBVIOUS
  <2>1. ConsistencyNext \/ UNCHANGED running
    BY DEF Next, KeysAsked, ConsistencyRuns, AlarmRuns, HealthyRuns, BackupsGoOn,
           DataChanges, EtcdChanges, MembersCollected, MembersChange, consistencyVars, ConsistencyNext
  <2>2. Finish
    BY <2>1
    DEF ConsistencyNext, ConsistencyStep, Begin, Assign, Connect, GetIndex, GetTotalKeyNum,
        Apply
  <2> QED
    BY <2>2, FinishShows DEF IInv
<1> QED
  BY <1>1, Invariant, PTL DEF Spec, DifferencesAreReal

\* What the inspection asks for is a number of files that are kept.
LEMMA DesiredType == Desired \in Nat /\ Desired <= MaxBackups /\ MaxBackups \in Nat
<1>1. Day \div Interval \in Nat
  <2>1. \A n \in Nat, k \in Nat \ {0} : n \div k \in Nat
    OBVIOUS
  <2> QED
    BY <2>1, BackupFilesAssumption DEF BackupFilesAssumption
<1> QED
  BY <1>1, BackupFilesAssumption DEF BackupFilesAssumption, Desired

\* The files the listing ends with, up to the first that is older than a day.
CountedFiles(saved) ==
  {f \in saved : \A g \in saved : g = f \/ NameBefore(f, g) => Fresh(g)}

\* They are files of the last day, of this cluster or of another.
LEMMA CountedFresh ==
  ASSUME FilesInv
  PROVE  LET counted1 == Cardinality(CountedFiles(Listed))
             own      == Cardinality(OfLastDay(made))
             others   == Cardinality(OfLastDay(foreign)) IN
         /\ {counted1, own, others} \subseteq Nat
         /\ counted1 <= own + others
<1> DEFINE both == OfLastDay(made) \cup OfLastDay(foreign)
<1>1. OfLastDay(made) \in SUBSET made /\ OfLastDay(foreign) \in SUBSET foreign
  BY DEF OfLastDay
<1>2. IsFiniteSet(OfLastDay(made)) /\ IsFiniteSet(OfLastDay(foreign))
  BY <1>1, FS_Subset DEF FilesInv, MadeInv
<1>3. /\ IsFiniteSet(both)
      /\ Cardinality(both) = Cardinality(OfLastDay(made)) + Cardinality(OfLastDay(foreign))
                               - Cardinality(OfLastDay(made) \cap OfLastDay(foreign))
  BY <1>2, FS_Union
<1>4. /\ Cardinality(OfLastDay(made)) \in Nat /\ Cardinality(OfLastDay(foreign)) \in Nat
      /\ Cardinality(OfLastDay(made) \cap OfLastDay(foreign)) \in Nat
  BY <1>2, FS_Intersection, FS_CardinalityType
<1>5. Listed \subseteq made \cup foreign
  BY DEF FilesInv, FilesTypes, Listed, ListCOS, ListS3, FirstPage
<1>6. \A f \in CountedFiles(Listed) : f \in Listed /\ Fresh(f)
  BY DEF CountedFiles
<1>7. CountedFiles(Listed) \in SUBSET both
  BY <1>5, <1>6 DEF OfLastDay, Fresh
<1> HIDE DEF both
<1>8. /\ Cardinality(CountedFiles(Listed)) \in Nat /\ Cardinality(both) \in Nat
      /\ Cardinality(CountedFiles(Listed)) <= Cardinality(both)
  BY <1>3, <1>7, FS_Subset, FS_CardinalityType
<1> QED
  BY <1>3, <1>4, <1>8

\* The latest of the files that are not kept has been followed by as many as are, all of
\* which are counted.
LEMMA CountedEnough ==
  ASSUME FilesInv, InOrder
  PROVE  \/ CountedFiles(files) = OfLastDay(made)
         \/ Cardinality(CountedFiles(files)) >= MaxBackups
<1>1. /\ files \subseteq made /\ IsFiniteSet(made) /\ now \in 0 .. LastTick
      /\ LastTick \in Nat /\ Day \in Nat
      /\ \A f \in made : f.at \in 0 .. LastTick
  BY BackupFilesAssumption
  DEF BackupFilesAssumption, FilesInv, FilesTypes, MadeInv, Files
<1>2. \A f, g \in made : NameBefore(f, g) <=> f.at < g.at
  BY DEF InOrder
<1>3. \A f, g \in made : Fresh(f) /\ f.at < g.at => Fresh(g)
  <2> SUFFICES ASSUME NEW f \in made, NEW g \in made, Fresh(f), f.at < g.at
               PROVE  Fresh(g)
    OBVIOUS
  <2>1. f.at \in 0 .. LastTick /\ g.at \in 0 .. LastTick /\ now - f.at <= Day
    BY <1>1 DEF Fresh
  <2> QED
    BY <1>1, <2>1 DEF Fresh
<1>4. \A f \in files : f \in CountedFiles(files) <=> Fresh(f)
  BY <1>1, <1>2, <1>3 DEF CountedFiles
<1>5. CountedFiles(files) \subseteq files
  BY DEF CountedFiles
<1>6. CASE \E f \in made : Fresh(f) /\ f \notin files
  <2> DEFINE lost  == {f \in made : f \notin files /\ Fresh(f)}
             times == {f.at : f \in lost}
  <2>1. times \in SUBSET (0 .. LastTick) /\ times # {}
    BY <1>1, <1>6
  <2>2. PICK t \in times : \A u \in times : u <= t
    <3> HIDE DEF times
    <3> QED
      BY <1>1, <2>1, Greatest
  <2>3. PICK z \in lost : z.at = t
    BY <2>2
  <2>4. z \in made /\ z \notin files /\ Fresh(z)
    BY <2>3
  <2>5. \A g \in made : z.at < g.at => g \in files
    <3> SUFFICES ASSUME NEW g \in made, z.at < g.at, g \notin files
                 PROVE  FALSE
      OBVIOUS
    <3>1. g \in lost
      BY <1>3, <2>4
    <3>2. g.at <= z.at
      BY <2>2, <2>3, <3>1
    <3>3. g.at \in 0 .. LastTick /\ z.at \in 0 .. LastTick
      BY <1>1, <2>4
    <3>4. \A a, b \in 0 .. LastTick : ~ (a < b /\ b <= a)
      BY <1>1
    <3> QED
      BY <3>2, <3>3, <3>4
  <2>6. After(made, z) \in SUBSET CountedFiles(files)
    BY <1>2, <1>3, <1>4, <2>4, <2>5 DEF After
  <2>7. IsFiniteSet(CountedFiles(files))
    <3>1. CountedFiles(files) \in SUBSET made
      BY <1>1, <1>5
    <3> QED
      BY <1>1, <3>1, FS_Subset
  <2>8. /\ Cardinality(After(made, z)) <= Cardinality(CountedFiles(files))
        /\ Cardinality(After(made, z)) \in Nat /\ Cardinality(CountedFiles(files)) \in Nat
    BY <2>6, <2>7, FS_Subset, FS_CardinalityType
  <2>9. ~ (Cardinality(After(made, z)) < MaxBackups)
    BY <2>4 DEF FilesInv, KeptInv
  <2> QED
    BY <2>8, <2>9, BackupFilesAssumption DEF BackupFilesAssumption
<1>7. CASE \A f \in made : Fresh(f) => f \in files
  BY <1>1, <1>4, <1>5, <1>7 DEF OfLastDay, Fresh
<1> QED
  BY <1>6, <1>7

\* The inspection hides a missing backup behind other clusters' files only, and with names in
\* order and nothing else listed it reports exactly those that are missing of the last day,
\* although files that were made have been deleted (backupcheck.go:83-90, cos.go:96-123,
\* s3.go:92-122).
THEOREM MissingReported == Spec => MissingBackupsReported
<1>1. IInv /\ [Next]_vars =>
        [stat' # stat =>
           LET saved == Cardinality(OfLastDay(made)) IN
           /\ stat'.failed >= Positive(Desired - saved - Cardinality(OfLastDay(foreign)))
           /\ InOrder /\ Listed = files => stat'.failed = Positive(Desired - saved)]_vars
  <2> SUFFICES ASSUME IInv, Next, stat' # stat
               PROVE  LET saved == Cardinality(OfLastDay(made)) IN
                      /\ stat'.failed >=
                           Positive(Desired - saved - Cardinality(OfLastDay(foreign)))
                      /\ InOrder /\ Listed = files => stat'.failed = Positive(Desired - saved)
    OBVIOUS
  <2>1. StatBackupFiles
    BY DEF Next, KeysAsked, ConsistencyRuns, AlarmRuns, HealthyRuns, BackupsGoOn,
           DataChanges, EtcdChanges, MembersCollected, MembersChange, filesVars, FilesNext, Tick, Backup, OthersSave,
           OthersDelete
  <2> DEFINE count  == Cardinality(CountedFiles(Listed))
             own    == Cardinality(OfLastDay(made))
             others == Cardinality(OfLastDay(foreign))
  <2>2. stat'.failed = Positive(Desired - count)
    BY <2>1 DEF StatBackupFiles, Counted, CountedFiles
  <2>3. count \in Nat /\ own \in Nat /\ others \in Nat /\ count <= own + others
    BY CountedFresh DEF IInv
  <2>4. InOrder /\ Listed = files => count = own \/ count >= MaxBackups
    BY CountedEnough DEF IInv
  <2>5. Listed = files => count <= own
    <3> SUFFICES ASSUME Listed = files PROVE count <= own
      OBVIOUS
    <3>1. \A f \in CountedFiles(files) : f \in files /\ Fresh(f)
      BY DEF CountedFiles
    <3>2. CountedFiles(files) \in SUBSET OfLastDay(made)
      BY <3>1 DEF OfLastDay, Fresh, IInv, FilesInv, FilesTypes
    <3>3. OfLastDay(made) \in SUBSET made /\ IsFiniteSet(made)
      BY DEF OfLastDay, IInv, FilesInv, MadeInv
    <3>4. IsFiniteSet(OfLastDay(made))
      BY <3>3, FS_Subset
    <3> QED
      BY <3>2, <3>4, FS_Subset
  <2> HIDE DEF count, own, others
  <2>6. Positive(Desired - count) >= Positive(Desired - own - others)
    BY <2>3, DesiredType DEF Positive
  <2>7. (count >= MaxBackups /\ count <= own) =>
          Positive(Desired - count) = Positive(Desired - own)
    BY <2>3, DesiredType DEF Positive
  <2> QED
    BY <2>2, <2>4, <2>5, <2>6, <2>7 DEF own, others
<1> QED
  BY <1>1, Invariant, PTL DEF Spec, MissingBackupsReported

=============================================================================
