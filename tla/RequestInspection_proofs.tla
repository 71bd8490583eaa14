----------------------- MODULE RequestInspection_proofs -----------------------
(***************************************************************************)
(* Theorems about the request inspection, for any number of EtcdClusters   *)
(* of one name, of keys and of faults, and any capacity of the event       *)
(* channels.                                                               *)
(***************************************************************************)
EXTENDS RequestInspection, FiniteSetTheorems, TLAPS

\* The server's maps are entered before a goroutine asks them, and a cluster has one
\* goroutine of Watch: none is started for it while its task is still at the Get.
MapInv ==
  /\ watched => eventCh # None
  /\ \A x \in Clusters :
       /\ loop[x] # "none" \/ reads[x] # "none" => watched
       /\ pc[x] = "process" => loop[x] # "none"
       /\ pc[x] \in {"get", "count"} => loop[x] = "none"

\* Only a goroutine of Watch has a watch and events.
LoopInv ==
  \A x \in Clusters :
    /\ x \in open => loop[x] \in {"opened", "watching"}
    /\ loop[x] = "none" => stream[x] = << >>

\* What the Get found is right but for what was missed since.
CountInv ==
  \A x \in Clusters :
    /\ pc[x] = "count" => found[x] = Cardinality(keys[x]) - missed[x]
    /\ ~ IsRead(x) => missed[x] = 0

\* The inductive invariant.
IInv == TypeOK /\ MapInv /\ LoopInv /\ CountInv /\ GaugeAccounted

-----------------------------------------------------------------------------
(* Sums *)

\* The units of one cluster.
LEMMA UnitsOfOne ==
  ASSUME NEW x, NEW n \in Int
  PROVE  /\ IsFiniteSet({x} \X (1 .. n))
         /\ Cardinality({x} \X (1 .. n)) = IF n > 0 THEN n ELSE 0
<1>1. IsFiniteSet({x}) /\ Cardinality({x}) = 1
  BY FS_Singleton
<1>2. IsFiniteSet(1 .. n) /\ Cardinality(1 .. n) = IF 1 > n THEN 0 ELSE n - 1 + 1
  BY FS_Interval
<1>3. /\ IsFiniteSet({x} \X (1 .. n))
      /\ Cardinality({x} \X (1 .. n)) = Cardinality({x}) * Cardinality(1 .. n)
  BY <1>1, <1>2, FS_Product
<1> QED
  BY <1>1, <1>2, <1>3

\* The units of an integer function of the clusters can be counted.
LEMMA UnitsFinite ==
  ASSUME NEW f \in [Clusters -> Int]
  PROVE  IsFiniteSet(Units(f)) /\ Cardinality(Units(f)) \in Nat
<1> DEFINE g == [x \in Clusters |-> {x} \X (1 .. f[x])]
<1>1. {{x} \X (1 .. f[x]) : x \in DOMAIN f} = {g[x] : x \in Clusters}
  OBVIOUS
<1>2. IsFiniteSet({g[x] : x \in Clusters})
  <2>1. g \in Surjection(Clusters, {g[x] : x \in Clusters})
    BY DEF Surjection
  <2> QED
    BY <2>1, FS_Surjection, InspectionAssumption DEF InspectionAssumption
<1>3. \A T \in {g[x] : x \in Clusters} : IsFiniteSet(T)
  <2> SUFFICES ASSUME NEW x \in Clusters PROVE IsFiniteSet(g[x])
    OBVIOUS
  <2>1. f[x] \in Int /\ g[x] = {x} \X (1 .. f[x])
    OBVIOUS
  <2> QED
    BY <2>1, UnitsOfOne
<1>4. IsFiniteSet(Units(f))
  BY <1>1, <1>2, <1>3, FS_UNION DEF Units
<1> QED
  BY <1>4, FS_CardinalityType

\* A new value for one cluster changes the units by its own.
LEMMA UnitsUpdated ==
  ASSUME NEW f \in [Clusters -> Int], NEW x \in Clusters, NEW v \in Int
  PROVE  Cardinality(Units([f EXCEPT ![x] = v])) =
           Cardinality(Units(f)) - (IF f[x] > 0 THEN f[x] ELSE 0) + (IF v > 0 THEN v ELSE 0)
<1> DEFINE rest == UNION {{y} \X (1 .. f[y]) : y \in Clusters \ {x}}
           all(n) == rest \cup ({x} \X (1 .. n))
<1>1. Units(f) = all(f[x])
  BY DEF Units
<1>2. Units([f EXCEPT ![x] = v]) = all(v)
  BY DEF Units
<1>3. IsFiniteSet(rest)
  BY <1>1, UnitsFinite, FS_Subset
<1>4. ASSUME NEW n \in Int
      PROVE  Cardinality(all(n)) = Cardinality(rest) + (IF n > 0 THEN n ELSE 0)
  <2>1. rest \cap ({x} \X (1 .. n)) = {}
    OBVIOUS
  <2>2. Cardinality(rest) \in Nat
    BY <1>3, FS_CardinalityType
  <2>3. Cardinality(all(n)) =
          Cardinality(rest) + Cardinality({x} \X (1 .. n)) - Cardinality(rest \cap ({x} \X (1 .. n)))
    BY <1>3, UnitsOfOne, FS_Union
  <2>4. Cardinality({x} \X (1 .. n)) = IF n > 0 THEN n ELSE 0
    BY UnitsOfOne
  <2>5. Cardinality(rest \cap ({x} \X (1 .. n))) = 0
    BY <2>1, FS_EmptySet
  <2> HIDE DEF rest, all
  <2> QED
    BY <2>2, <2>3, <2>4, <2>5
<1>5. Cardinality(rest) \in Nat
  BY <1>3, FS_CardinalityType
<1> HIDE DEF rest, all
<1> QED
  BY <1>1, <1>2, <1>4, <1>5

\* What makes Total a sum: the sum of no values, and of one value more or less.
LEMMA TotalType ==
  ASSUME NEW f \in [Clusters -> Int]
  PROVE  Total(f) \in Int
<1>1. [x \in DOMAIN f |-> 0 - f[x]] \in [Clusters -> Int]
  OBVIOUS
<1> QED
  BY <1>1, UnitsFinite DEF Total

\* A function that is zero everywhere adds up to zero.
LEMMA TotalOfZeros == Total([x \in Clusters |-> 0]) = 0
<1> DEFINE zeros == [x \in Clusters |-> 0]
<1>1. Units(zeros) = {}
  BY DEF Units
<1>2. [x \in DOMAIN zeros |-> 0 - zeros[x]] = zeros
  <2>1. \A x \in Clusters : zeros[x] = 0 /\ 0 - zeros[x] = 0
    OBVIOUS
  <2> QED
    BY <2>1
<1> QED
  BY <1>1, <1>2, FS_EmptySet DEF Total

\* A sum moves with the one value that changes.
LEMMA TotalUpdated ==
  ASSUME NEW f \in [Clusters -> Int], NEW x \in Clusters, NEW v \in Int
  PROVE  Total([f EXCEPT ![x] = v]) = Total(f) - f[x] + v
<1> DEFINE g == [f EXCEPT ![x] = v]
           minus(h) == [y \in DOMAIN h |-> 0 - h[y]]
<1>1. minus(f) \in [Clusters -> Int] /\ minus(f)[x] = 0 - f[x] /\ 0 - v \in Int
  OBVIOUS
<1>2. minus(g) = [minus(f) EXCEPT ![x] = 0 - v]
  OBVIOUS
<1>3. Cardinality(Units(g)) =
        Cardinality(Units(f)) - (IF f[x] > 0 THEN f[x] ELSE 0) + (IF v > 0 THEN v ELSE 0)
  BY UnitsUpdated
<1>4. Cardinality(Units(minus(g))) =
        Cardinality(Units(minus(f))) - (IF 0 - f[x] > 0 THEN 0 - f[x] ELSE 0)
          + (IF 0 - v > 0 THEN 0 - v ELSE 0)
  BY <1>1, <1>2, UnitsUpdated
<1>5. Cardinality(Units(f)) \in Nat /\ Cardinality(Units(minus(f))) \in Nat
  BY <1>1, UnitsFinite
<1>6. /\ Total(g) = Cardinality(Units(g)) - Cardinality(Units(minus(g)))
      /\ Total(f) = Cardinality(Units(f)) - Cardinality(Units(minus(f)))
  BY DEF Total
<1>7. f[x] \in Int
  OBVIOUS
<1> HIDE DEF g, minus
<1>8. Total(g) = Total(f) - f[x] + v
  BY <1>3, <1>4, <1>5, <1>6, <1>7
<1> QED
  BY <1>8 DEF g

-----------------------------------------------------------------------------
(* What the events of a channel come to *)

\* The events of a kind in a queue can be counted.
LEMMA IndicesFinite ==
  ASSUME NEW s \in Seq(Kinds), NEW kind
  PROVE  IsFiniteSet(Indices(s, kind)) /\ Cardinality(Indices(s, kind)) \in Nat
<1>1. IsFiniteSet(1 .. Len(s))
  BY FS_Interval
<1>2. Indices(s, kind) \subseteq 1 .. Len(s)
  BY DEF Indices
<1> QED
  BY <1>1, <1>2, FS_Subset, FS_CardinalityType

\* What the events of a queue add to the gauge is a number.
LEMMA NetType ==
  ASSUME NEW s \in Seq(Kinds)
  PROVE  Net(s) \in Int
BY IndicesFinite DEF Net

\* An empty queue adds nothing.
LEMMA NetOfNone == << >> \in Seq(Kinds) /\ Net(<< >>) = 0
<1>1. Indices(<< >>, "create") = {} /\ Indices(<< >>, "delete") = {}
  BY DEF Indices
<1>2. Cardinality(Indices(<< >>, "create")) = 0 /\ Cardinality(Indices(<< >>, "delete")) = 0
  BY <1>1, FS_EmptySet
<1> QED
  BY <1>2 DEF Net

\* An event at the end of a queue is one more of its kind.
LEMMA IndicesAppend ==
  ASSUME NEW s \in Seq(Kinds), NEW e \in Kinds, NEW kind \in Kinds
  PROVE  Cardinality(Indices(Append(s, e), kind)) =
           Cardinality(Indices(s, kind)) + (IF e = kind THEN 1 ELSE 0)
<1>1. IsFiniteSet(Indices(s, kind)) /\ Cardinality(Indices(s, kind)) \in Nat
  BY IndicesFinite
<1>2. CASE e = kind
  <2>1. Indices(Append(s, e), kind) = Indices(s, kind) \cup {Len(s) + 1}
    BY <1>2 DEF Indices
  <2>2. Len(s) + 1 \notin Indices(s, kind)
    BY DEF Indices
  <2> QED
    BY <1>1, <1>2, <2>1, <2>2, FS_AddElement
<1>3. CASE e # kind
  <2>1. Indices(Append(s, e), kind) = Indices(s, kind)
    BY <1>3 DEF Indices
  <2> QED
    BY <1>1, <1>3, <2>1
<1> QED
  BY <1>2, <1>3

\* An event at the end of a queue adds its weight.
LEMMA NetAppend ==
  ASSUME NEW s \in Seq(Kinds), NEW e \in Kinds
  PROVE  Net(Append(s, e)) = Net(s) + Weight(e)
<1>1. \A kind \in {"create", "delete"} :
        Cardinality(Indices(Append(s, e), kind)) =
          Cardinality(Indices(s, kind)) + (IF e = kind THEN 1 ELSE 0)
  BY IndicesAppend DEF Kinds
<1>2. \A kind \in {"create", "delete"} : Cardinality(Indices(s, kind)) \in Nat
  BY IndicesFinite
<1> QED
  BY <1>1, <1>2 DEF Net, Weight

\* A non-empty channel is its first event and the rest.
LEMMA IndicesTail ==
  ASSUME NEW s \in Seq(Kinds), s # << >>, NEW kind \in Kinds
  PROVE  Cardinality(Indices(Tail(s), kind)) =
           Cardinality(Indices(s, kind)) - (IF Head(s) = kind THEN 1 ELSE 0)
<1> DEFINE later == Indices(s, kind) \ {1}
           back  == [i \in later |-> i - 1]
<1>1. /\ IsFiniteSet(Indices(s, kind)) /\ Cardinality(Indices(s, kind)) \in Nat
      /\ Len(s) \in Nat \ {0} /\ Head(s) = s[1]
  BY IndicesFinite
<1>2. /\ IsFiniteSet(later)
      /\ Cardinality(later) = Cardinality(Indices(s, kind)) - (IF Head(s) = kind THEN 1 ELSE 0)
  <2>1. 1 \in Indices(s, kind) <=> Head(s) = kind
    BY <1>1 DEF Indices
  <2> QED
    BY <1>1, <2>1, FS_RemoveElement
<1>3. back \in Bijection(later, Indices(Tail(s), kind))
  <2>1. \A i \in later : i \in 2 .. Len(s) /\ s[i] = kind
    BY DEF Indices
  <2>2. \A j \in 1 .. Len(s) - 1 : Tail(s)[j] = s[j + 1]
    OBVIOUS
  <2>3. Len(Tail(s)) = Len(s) - 1 /\ Tail(s) \in Seq(Kinds)
    OBVIOUS
  <2>4. back \in [later -> Indices(Tail(s), kind)]
    BY <1>1, <2>1, <2>2, <2>3 DEF Indices
  <2>5. \A a, b \in later : back[a] = back[b] => a = b
    BY <2>1
  <2>6. \A j \in Indices(Tail(s), kind) : j + 1 \in later /\ back[j + 1] = j
    BY <1>1, <2>2, <2>3 DEF Indices
  <2> HIDE DEF later, back
  <2> QED
    BY <2>4, <2>5, <2>6 DEF Bijection, Injection, Surjection, IsInjective
<1>4. Cardinality(Indices(Tail(s), kind)) = Cardinality(later)
  BY <1>2, <1>3, FS_Bijection DEF ExistsBijection
<1> QED
  BY <1>2, <1>4

\* An event taken from the head of a queue takes its weight with it.
LEMMA NetTail ==
  ASSUME NEW s \in Seq(Kinds), s # << >>
  PROVE  /\ Head(s) \in Kinds /\ Tail(s) \in Seq(Kinds) /\ Len(Tail(s)) = Len(s) - 1
         /\ Net(Tail(s)) = Net(s) - Weight(Head(s))
<1>1. Head(s) \in Kinds /\ Tail(s) \in Seq(Kinds) /\ Len(Tail(s)) = Len(s) - 1
  OBVIOUS
<1>2. \A kind \in {"create", "delete"} :
        Cardinality(Indices(Tail(s), kind)) =
          Cardinality(Indices(s, kind)) - (IF Head(s) = kind THEN 1 ELSE 0)
  BY IndicesTail DEF Kinds
<1>3. \A kind \in {"create", "delete"} : Cardinality(Indices(s, kind)) \in Nat
  BY IndicesFinite
<1>4. Net(Tail(s)) = Net(s) - Weight(Head(s))
  BY <1>2, <1>3 DEF Net, Weight
<1> QED
  BY <1>1, <1>4

-----------------------------------------------------------------------------
(* The account *)

\* The count a cluster should come to is a number.
LEMMA SettledType ==
  ASSUME TypeOK, NEW x \in Clusters
  PROVE  /\ IsFiniteSet(keys[x]) /\ Cardinality(keys[x]) \in 0 .. Cardinality(Keys)
         /\ Settled(x) \in Int
<1>1. IsFiniteSet(Keys) /\ keys[x] \subseteq Keys
  BY InspectionAssumption DEF InspectionAssumption, TypeOK
<1>2. /\ IsFiniteSet(keys[x]) /\ Cardinality(keys[x]) <= Cardinality(Keys)
      /\ Cardinality(keys[x]) \in Nat /\ Cardinality(Keys) \in Nat
  BY <1>1, FS_Subset, FS_CardinalityType
<1> QED
  BY <1>2 DEF Settled, TypeOK

\* A step that concerns one cluster, and one channel, keeps the account if the gauge
\* moves by as much.
LEMMA AccountKept ==
  ASSUME TypeOK, TypeOK', GaugeAccounted, NEW x \in Clusters, NEW y \in Clusters,
         \A z \in Clusters \ {x} : Settled(z)' = Settled(z) /\ stream'[z] = stream[z],
         \A z \in Clusters \ {y} : chan'[z] = chan[z],
         gauge' = gauge + (Settled(x)' - Settled(x)) - (Net(stream'[x]) - Net(stream[x]))
                    - (Net(chan'[y]) - Net(chan[y]))
  PROVE  GaugeAccounted'
<1> DEFINE a == [z \in Clusters |-> Settled(z)]
           b == [z \in Clusters |-> Net(stream[z])]
           c == [z \in Clusters |-> Net(chan[z])]
<1>1. a \in [Clusters -> Int] /\ b \in [Clusters -> Int] /\ c \in [Clusters -> Int]
  BY SettledType, NetType DEF TypeOK
<1>2. Settled(x)' \in Int
  <2>1. IsFiniteSet(Keys) /\ keys'[x] \subseteq Keys /\ missed'[x] \in Int
    BY InspectionAssumption DEF InspectionAssumption, TypeOK
  <2>2. Cardinality(keys'[x]) \in Nat
    BY <2>1, FS_Subset, FS_CardinalityType
  <2> QED
    BY <2>1, <2>2 DEF Settled
<1>3. Net(stream'[x]) \in Int /\ Net(chan'[y]) \in Int
  BY NetType DEF TypeOK
<1>4. a' = [a EXCEPT ![x] = Settled(x)']
  OBVIOUS
<1>5. b' = [b EXCEPT ![x] = Net(stream'[x])] /\ c' = [c EXCEPT ![y] = Net(chan'[y])]
  OBVIOUS
<1>6. Total(a') = Total(a) - Settled(x) + Settled(x)'
  BY <1>1, <1>2, <1>4, TotalUpdated
<1>7. Total(b') = Total(b) - Net(stream[x]) + Net(stream'[x])
  BY <1>1, <1>3, <1>5, TotalUpdated
<1>8. Total(c') = Total(c) - Net(chan[y]) + Net(chan'[y])
  BY <1>1, <1>3, <1>5, TotalUpdated
<1>9. /\ Total(a) \in Int /\ Total(b) \in Int /\ Total(c) \in Int
      /\ Settled(x) \in Int /\ Net(stream[x]) \in Int /\ Net(chan[y]) \in Int
  BY <1>1, TotalType, SettledType, NetType DEF TypeOK
<1>10. gauge = Total(a) - Total(b) - Total(c)
  BY DEF GaugeAccounted
<1>11. gauge' = Total(a') - Total(b') - Total(c')
  <2> HIDE DEF a, b, c
  <2> QED
    BY <1>2, <1>3, <1>6, <1>7, <1>8, <1>9, <1>10
<1> QED
  BY <1>11 DEF GaugeAccounted

\* A step that touches neither what is counted nor an event keeps the account.
LEMMA AccountUntouched ==
  ASSUME UNCHANGED <<keys, missed, stream, chan, gauge>>, GaugeAccounted,
         \A z \in Clusters : loop'[z] = "none" <=> loop[z] = "none"
  PROVE  GaugeAccounted'
<1>1. \A z \in Clusters : Settled(z)' = Settled(z)
  BY DEF Settled, IsCounted
<1> QED
  BY <1>1 DEF GaugeAccounted

\* At the start nothing is counted and nothing is on its way.
LEMMA InitInvariant == Init => IInv
<1> SUFFICES ASSUME Init PROVE IInv
  OBVIOUS
<1>1. TypeOK
  <2>1. 0 \in 0 .. Cardinality(Keys) /\ 0 \in 0 .. MaxChanges /\ 0 \in 0 .. MaxBreaks
    BY InspectionAssumption, FS_CardinalityType DEF InspectionAssumption
  <2>2. << >> \in Seq(Kinds) /\ Len(<< >>) <= EventBuffer
    BY InspectionAssumption DEF InspectionAssumption
  <2>3. /\ stream \in [Clusters -> Seq(Kinds)] /\ chan \in [Clusters -> Seq(Kinds)]
        /\ \A x \in Clusters : Len(chan[x]) <= EventBuffer
    BY <2>2 DEF Init, Started
  <2>4. /\ pc \in [Clusters -> {"idle", "get", "count", "process"}]
        /\ loop \in [Clusters -> {"none", "start", "opened", "watching", "ended"}]
        /\ reads \in [Clusters -> Clusters \cup {"none", "start"}]
        /\ \A x \in Clusters : loop[x] = "none"
    BY DEF Init, Started
  <2>5. /\ found \in [Clusters -> 0 .. Cardinality(Keys)] /\ missed \in [Clusters -> Int]
        /\ writes \in [Clusters -> Clusters \cup {None}] /\ keys \in [Clusters -> SUBSET Keys]
    BY <2>1 DEF Init, Started
  <2>6. /\ task = {} /\ queued = {} /\ watched = FALSE /\ eventCh = None /\ open = {}
        /\ gauge \in Int /\ changes \in 0 .. MaxChanges /\ breaks \in 0 .. MaxBreaks
        /\ calm = FALSE
    BY <2>1 DEF Init
  <2>7. \A x \in Clusters : loop[x] = "watching" => writes[x] # None
    BY <2>4
  <2> QED
    BY <2>3, <2>4, <2>5, <2>6, <2>7 DEF TypeOK
<1>2. MapInv /\ LoopInv
  BY DEF Init, Started, MapInv, LoopInv
<1>3. CountInv
  BY DEF Init, Started, CountInv
<1>4. GaugeAccounted
  <2>1. [x \in Clusters |-> Settled(x)] = [x \in Clusters |-> 0]
    BY DEF Init, Started, Settled, IsCounted
  <2>2. /\ [x \in Clusters |-> Net(stream[x])] = [x \in Clusters |-> 0]
        /\ [x \in Clusters |-> Net(chan[x])] = [x \in Clusters |-> 0]
    BY NetOfNone DEF Init, Started
  <2> QED
    BY <2>1, <2>2, TotalOfZeros DEF GaugeAccounted, Init
<1> QED
  BY <1>1, <1>2, <1>3, <1>4 DEF IInv

-----------------------------------------------------------------------------
(* etcd and its users *)

\* A key is written: the event goes to the open watch, or is noted as missed.
LEMMA ChangeInvariant ==
  ASSUME IInv, NEW x \in Clusters, NEW k \in Keys, NEW kind \in Kinds, Change(x, k, kind)
  PROVE  IInv'
<1> DEFINE now == IF kind = "delete" THEN keys[x] \ {k} ELSE keys[x] \cup {k}
<1>1. /\ keys' = [keys EXCEPT ![x] = now] /\ changes' \in 0 .. MaxChanges
      /\ UNCHANGED <<task, queued, pc, found, watched, eventCh, loop, writes, open, chan,
                     reads, gauge, breaks, calm>>
  BY InspectionAssumption DEF Change, workVars, mapVars, IInv, TypeOK, InspectionAssumption
<1>2. Weight(kind) \in Int
  BY DEF Weight
<1>3. Cardinality(now) = Cardinality(keys[x]) + Weight(kind) /\ Cardinality(keys[x]) \in Nat
  <2>1. IsFiniteSet(keys[x])
    BY SettledType DEF IInv
  <2>2. Cardinality(keys[x]) \in Nat
    BY <2>1, FS_CardinalityType
  <2>3. kind = "create" <=> k \notin keys[x]
    BY DEF Change
  <2>4. CASE kind = "delete"
    BY <2>1, <2>2, <2>3, <2>4, FS_RemoveElement DEF Weight
  <2>5. CASE kind = "create"
    BY <2>1, <2>2, <2>3, <2>5, FS_AddElement DEF Weight
  <2>6. CASE kind = "update"
    <3>1. k \in keys[x] /\ now = keys[x] /\ Weight(kind) = 0
      BY <2>3, <2>6 DEF Weight
    <3> QED
      BY <2>2, <3>1
  <2> QED
    BY <2>4, <2>5, <2>6 DEF Kinds
<1>4. CASE x \in open
  <2>1. stream' = [stream EXCEPT ![x] = Append(stream[x], kind)] /\ missed' = missed
    BY <1>4 DEF Change
  <2>2. stream[x] \in Seq(Kinds)
    BY DEF IInv, TypeOK
  <2>3. TypeOK'
    BY <1>1, <2>1, <2>2 DEF IInv, TypeOK
  <2>4. loop[x] \in {"opened", "watching"}
    BY <1>4 DEF IInv, LoopInv
  <2>5. MapInv' /\ LoopInv'
    BY <1>1, <2>1, <2>4 DEF IInv, TypeOK, MapInv, LoopInv
  <2>6. CountInv'
    BY <1>1, <2>1, <2>4 DEF IInv, TypeOK, MapInv, CountInv, IsRead
  <2>7. /\ Settled(x)' = Settled(x) + Weight(kind)
        /\ \A z \in Clusters \ {x} : Settled(z)' = Settled(z) /\ stream'[z] = stream[z]
    BY <1>1, <1>2, <1>3, <2>1, <2>4 DEF Settled, IsCounted, IInv, TypeOK
  <2>8. /\ Net(stream'[x]) = Net(stream[x]) + Weight(kind) /\ Net(stream[x]) \in Int
        /\ Net(chan[x]) \in Int
    BY <2>1, <2>2, NetAppend, NetType DEF IInv, TypeOK
  <2>9. GaugeAccounted'
    <3>1. TypeOK /\ GaugeAccounted
      BY DEF IInv
    <3>2. Settled(x) \in Int /\ gauge \in Int
      BY <3>1, SettledType DEF TypeOK
    <3>3. gauge' = gauge + (Settled(x)' - Settled(x)) - (Net(stream'[x]) - Net(stream[x]))
                     - (Net(chan'[x]) - Net(chan[x]))
      BY <1>1, <1>2, <2>7, <2>8, <3>2
    <3> QED
      BY <1>1, <2>3, <2>7, <3>1, <3>3, AccountKept
  <2> QED
    BY <2>3, <2>5, <2>6, <2>9 DEF IInv
<1>5. CASE x \notin open
  <2>1. /\ missed' = IF IsRead(x) THEN [missed EXCEPT ![x] = @ + Weight(kind)] ELSE missed
        /\ stream' = stream
    BY <1>5 DEF Change
  <2>2. missed[x] \in Int /\ missed'[x] = IF IsRead(x) THEN missed[x] + Weight(kind) ELSE missed[x]
    BY <2>1 DEF IInv, TypeOK
  <2>3. TypeOK'
    <3>1. missed' \in [Clusters -> Int] /\ keys' \in [Clusters -> SUBSET Keys]
      BY <1>1, <1>2, <2>1 DEF IInv, TypeOK
    <3> QED
      BY <1>1, <2>1, <3>1 DEF IInv, TypeOK
  <2>4. MapInv' /\ LoopInv'
    BY <1>1, <2>1 DEF IInv, MapInv, LoopInv
  <2>5. CountInv'
    <3> SUFFICES ASSUME NEW z \in Clusters
                 PROVE  /\ pc'[z] = "count" => found'[z] = Cardinality(keys'[z]) - missed'[z]
                        /\ ~ IsRead(z)' => missed'[z] = 0
      BY DEF CountInv
    <3>1. CASE z # x
      BY <1>1, <2>1, <3>1 DEF IInv, TypeOK, CountInv, IsRead
    <3>2. CASE z = x
      <4>1. pc[x] = "count" => IsRead(x)
        BY DEF IsRead
      <4>2. IsRead(x)' <=> IsRead(x)
        BY <1>1 DEF IsRead
      <4>3. keys'[x] = now
        BY <1>1 DEF IInv, TypeOK
      <4>4. found[x] \in Int
        BY DEF IInv, TypeOK
      <4> HIDE DEF now
      <4> QED
        BY <1>1, <1>2, <1>3, <2>2, <3>2, <4>1, <4>2, <4>3, <4>4 DEF IInv, CountInv
    <3> QED
      BY <3>1, <3>2
  <2>6. /\ Settled(x)' = Settled(x)
        /\ \A z \in Clusters \ {x} : Settled(z)' = Settled(z) /\ stream'[z] = stream[z]
    <3>1. \A z \in Clusters \ {x} : Settled(z)' = Settled(z) /\ stream'[z] = stream[z]
      BY <1>1, <2>1 DEF Settled, IsCounted, IInv, TypeOK
    <3>2. keys'[x] = now /\ loop'[x] = loop[x] /\ (loop[x] # "none" => IsRead(x))
      BY <1>1 DEF IInv, TypeOK, IsRead
    <3>3. Settled(x)' = Settled(x)
      <4> HIDE DEF now
      <4> QED
        BY <1>2, <1>3, <2>2, <3>2 DEF Settled, IsCounted
    <3> QED
      BY <3>1, <3>3
  <2>7. GaugeAccounted'
    <3>1. TypeOK /\ GaugeAccounted
      BY DEF IInv
    <3>2. Settled(x) \in Int /\ gauge \in Int
      BY <3>1, SettledType DEF TypeOK
    <3>3. Net(stream[x]) \in Int /\ Net(chan[x]) \in Int
      BY <3>1, NetType DEF TypeOK
    <3>4. gauge' = gauge + (Settled(x)' - Settled(x)) - (Net(stream'[x]) - Net(stream[x]))
                     - (Net(chan'[x]) - Net(chan[x]))
      BY <1>1, <2>1, <2>6, <3>2, <3>3
    <3> QED
      BY <1>1, <2>1, <2>3, <2>6, <3>1, <3>4, AccountKept
  <2> QED
    BY <2>3, <2>4, <2>5, <2>7 DEF IInv
<1> QED
  BY <1>4, <1>5

\* etcd cancels a watch: its events are still forwarded.
LEMMA CancelWatchInvariant ==
  ASSUME IInv, NEW x \in Clusters, CancelWatch(x)
  PROVE  IInv'
<1>1. /\ open' = open \ {x} /\ breaks' \in 0 .. MaxBreaks
      /\ UNCHANGED <<keys, task, queued, pc, found, watched, eventCh, loop, writes, stream,
                     chan, reads, gauge, missed, changes, calm>>
  BY InspectionAssumption DEF CancelWatch, workVars, mapVars, IInv, TypeOK, InspectionAssumption
<1>2. TypeOK'
  BY <1>1 DEF IInv, TypeOK
<1>3. MapInv' /\ LoopInv' /\ CountInv'
  BY <1>1 DEF IInv, MapInv, LoopInv, CountInv, IsRead
<1>4. GaugeAccounted'
  BY <1>1, AccountUntouched DEF IInv
<1> QED
  BY <1>2, <1>3, <1>4 DEF IInv

-----------------------------------------------------------------------------
(* The EtcdInspection and its controller *)

\* The feature is switched: only the queue changes.
LEMMA ToggleTaskInvariant ==
  ASSUME IInv, NEW x \in Clusters, ToggleTask(x)
  PROVE  IInv'
<1>1. /\ task' \subseteq Clusters /\ queued' \subseteq Clusters /\ changes' \in 0 .. MaxChanges
      /\ UNCHANGED <<keys, pc, found, watched, eventCh, loop, writes, open, stream, chan,
                     reads, gauge, missed, breaks, calm>>
  BY InspectionAssumption
     DEF ToggleTask, mapVars, pipeVars, IInv, TypeOK, InspectionAssumption
<1>2. TypeOK'
  BY <1>1 DEF IInv, TypeOK
<1>3. MapInv' /\ LoopInv' /\ CountInv'
  BY <1>1 DEF IInv, MapInv, LoopInv, CountInv, IsRead
<1>4. GaugeAccounted'
  BY <1>1, AccountUntouched DEF IInv
<1> QED
  BY <1>2, <1>3, <1>4 DEF IInv

\* The informer sends an EtcdInspection again: only the queue changes.
LEMMA ResyncInvariant ==
  ASSUME IInv, NEW x \in Clusters, Resync(x)
  PROVE  IInv'
<1>1. /\ queued' \subseteq Clusters
      /\ UNCHANGED <<keys, task, pc, found, watched, eventCh, loop, writes, open, stream, chan,
                     reads, gauge, missed, changes, breaks, calm>>
  BY DEF Resync, mapVars, pipeVars, WorkFrame, IInv, TypeOK
<1>2. TypeOK'
  BY <1>1 DEF IInv, TypeOK
<1>3. MapInv' /\ LoopInv' /\ CountInv'
  BY <1>1 DEF IInv, MapInv, LoopInv, CountInv, IsRead
<1>4. GaugeAccounted'
  BY <1>1, AccountUntouched DEF IInv
<1> QED
  BY <1>2, <1>3, <1>4 DEF IInv

\* A worker that starts on a cluster finds no watcher of the name.
LEMMA TakeTaskInvariant ==
  ASSUME IInv, NEW x \in Clusters, TakeTask(x)
  PROVE  IInv'
<1>1. /\ queued' \subseteq Clusters
      /\ \/ pc' = pc
         \/ pc[x] = "idle" /\ ~ watched /\ pc' = [pc EXCEPT ![x] = "get"]
      /\ UNCHANGED <<keys, task, found, watched, eventCh, loop, writes, open, stream, chan,
                     reads, gauge, missed, changes, breaks, calm>>
  BY DEF TakeTask, mapVars, pipeVars, WorkFrame, IInv, TypeOK
<1>2. TypeOK'
  <2>1. pc' \in [Clusters -> {"idle", "get", "count", "process"}]
    BY <1>1 DEF IInv, TypeOK
  <2> QED
    BY <1>1, <2>1 DEF IInv, TypeOK
<1>3. MapInv' /\ LoopInv'
  BY <1>1 DEF IInv, TypeOK, MapInv, LoopInv
<1>4. CountInv'
  BY <1>1 DEF IInv, TypeOK, MapInv, CountInv, IsRead
<1>5. GaugeAccounted'
  BY <1>1, AccountUntouched DEF IInv
<1> QED
  BY <1>2, <1>3, <1>4, <1>5 DEF IInv

\* The Get: from here to the watch a change is missed.
LEMMA GetKeysInvariant ==
  ASSUME IInv, NEW x \in Clusters, GetKeys(x)
  PROVE  IInv'
<1>1. /\ pc[x] = "get" /\ queued' \subseteq Clusters
      /\ UNCHANGED <<keys, task, watched, eventCh, loop, writes, open, stream, chan,
                     reads, gauge, missed, changes, breaks, calm>>
  BY DEF GetKeys, mapVars, pipeVars, WorkFrame, IInv, TypeOK
<1>2. \/ /\ pc' = [pc EXCEPT ![x] = "count"]
         /\ found' = [found EXCEPT ![x] = Cardinality(keys[x])]
      \/ pc' = [pc EXCEPT ![x] = "idle"] /\ found' = found
  BY DEF GetKeys
<1>3. Cardinality(keys[x]) \in 0 .. Cardinality(Keys) /\ Cardinality(keys[x]) \in Int
  BY SettledType DEF IInv
<1>4. loop[x] = "none" /\ missed[x] = 0
  BY <1>1 DEF IInv, MapInv, CountInv, IsRead
<1>5. TypeOK'
  <2>1. found' \in [Clusters -> 0 .. Cardinality(Keys)]
    BY <1>2, <1>3 DEF IInv, TypeOK
  <2>2. pc' \in [Clusters -> {"idle", "get", "count", "process"}]
    BY <1>2 DEF IInv, TypeOK
  <2> QED
    BY <1>1, <2>1, <2>2 DEF IInv, TypeOK
<1>6. MapInv' /\ LoopInv'
  BY <1>1, <1>2, <1>4 DEF IInv, TypeOK, MapInv, LoopInv
<1>7. CountInv'
  <2> SUFFICES ASSUME NEW z \in Clusters
               PROVE  /\ pc'[z] = "count" => found'[z] = Cardinality(keys'[z]) - missed'[z]
                      /\ ~ IsRead(z)' => missed'[z] = 0
    BY DEF CountInv
  <2>1. CASE z # x
    BY <1>1, <1>2, <2>1 DEF IInv, TypeOK, CountInv, IsRead
  <2>2. CASE z = x
    BY <1>1, <1>2, <1>3, <1>4, <2>2 DEF IInv, TypeOK
  <2> QED
    BY <2>1, <2>2
<1>8. GaugeAccounted'
  BY <1>1, AccountUntouched DEF IInv
<1> QED
  BY <1>5, <1>6, <1>7, <1>8 DEF IInv

\* The gauge takes in what the Get found, less what was missed since.
LEMMA StartWatchInvariant ==
  ASSUME IInv, NEW x \in Clusters, StartWatch(x)
  PROVE  IInv'
<1>1. /\ pc[x] = "count" /\ pc' = [pc EXCEPT ![x] = "process"]
      /\ gauge' = gauge + found[x] /\ found' = [found EXCEPT ![x] = 0]
      /\ eventCh' = x /\ watched' = TRUE /\ loop' = [loop EXCEPT ![x] = "start"]
      /\ UNCHANGED <<keys, task, queued, writes, open, stream, chan, reads, missed, changes,
                     breaks, calm>>
  BY DEF StartWatch, WorkFrame
<1>2. /\ loop[x] = "none" /\ found[x] = Cardinality(keys[x]) - missed[x]
      /\ Cardinality(keys[x]) \in 0 .. Cardinality(Keys) /\ missed[x] \in Int
  BY <1>1, SettledType DEF IInv, TypeOK, MapInv, CountInv
<1>3. TypeOK'
  <2>1. 0 \in 0 .. Cardinality(Keys) /\ gauge' \in Int
    BY <1>1, <1>2, InspectionAssumption, FS_CardinalityType
       DEF InspectionAssumption, IInv, TypeOK
  <2> QED
    BY <1>1, <2>1 DEF IInv, TypeOK
<1>4. MapInv' /\ LoopInv'
  BY <1>1, <1>2, InspectionAssumption DEF IInv, TypeOK, MapInv, LoopInv, InspectionAssumption
<1>5. CountInv'
  BY <1>1 DEF IInv, TypeOK, CountInv, IsRead
<1>6. GaugeAccounted'
  <2>1. TypeOK /\ GaugeAccounted
    BY DEF IInv
  <2>2. /\ Settled(x) = 0 /\ Settled(x)' = found[x]
        /\ \A z \in Clusters \ {x} : Settled(z)' = Settled(z) /\ stream'[z] = stream[z]
    BY <1>1, <1>2 DEF Settled, IsCounted, IInv, TypeOK
  <2>3. /\ Net(stream[x]) \in Int /\ Net(chan[x]) \in Int /\ gauge \in Int /\ found[x] \in Int
    BY <1>2, <2>1, NetType DEF TypeOK
  <2>4. gauge' = gauge + (Settled(x)' - Settled(x)) - (Net(stream'[x]) - Net(stream[x]))
                   - (Net(chan'[x]) - Net(chan[x]))
    BY <1>1, <2>2, <2>3
  <2> QED
    BY <1>1, <1>3, <2>1, <2>2, <2>4, AccountKept
<1> QED
  BY <1>3, <1>4, <1>5, <1>6 DEF IInv

\* The goroutine that reads the channel is started.
LEMMA StartProcessInvariant ==
  ASSUME IInv, NEW x \in Clusters, StartProcess(x)
  PROVE  IInv'
<1>1. /\ pc[x] = "process" /\ pc' = [pc EXCEPT ![x] = "idle"]
      /\ reads' = [reads EXCEPT ![x] = "start"]
      /\ UNCHANGED <<keys, task, queued, found, watched, eventCh, loop, writes, open, stream,
                     chan, gauge, missed, changes, breaks, calm>>
  BY DEF StartProcess, mapVars, WorkFrame
<1>2. loop[x] # "none"
  BY <1>1 DEF IInv, MapInv
<1>3. TypeOK'
  BY <1>1 DEF IInv, TypeOK
<1>4. MapInv' /\ LoopInv'
  BY <1>1, <1>2 DEF IInv, TypeOK, MapInv, LoopInv
<1>5. CountInv'
  BY <1>1, <1>2 DEF IInv, TypeOK, CountInv, IsRead
<1>6. GaugeAccounted'
  BY <1>1, AccountUntouched DEF IInv
<1> QED
  BY <1>3, <1>4, <1>5, <1>6 DEF IInv

-----------------------------------------------------------------------------
(* The goroutines of Watch and of processWatchEvent *)

\* The watch opens: from here on no change is missed.
LEMMA OpenWatchInvariant ==
  ASSUME IInv, NEW x \in Clusters, OpenWatch(x)
  PROVE  IInv'
<1>1. /\ loop[x] = "start" /\ loop' = [loop EXCEPT ![x] = "opened"] /\ open' = open \cup {x}
      /\ UNCHANGED <<keys, task, queued, pc, found, watched, eventCh, writes, stream, chan,
                     reads, gauge, missed, changes, breaks, calm>>
  BY DEF OpenWatch, LoopFrame, workVars, mapVars
<1>2. TypeOK'
  BY <1>1 DEF IInv, TypeOK
<1>3. MapInv' /\ LoopInv'
  BY <1>1 DEF IInv, TypeOK, MapInv, LoopInv
<1>4. CountInv'
  BY <1>1 DEF IInv, TypeOK, CountInv, IsRead
<1>5. GaugeAccounted'
  <2>1. \A z \in Clusters : loop'[z] = "none" <=> loop[z] = "none"
    BY <1>1 DEF IInv, TypeOK
  <2> QED
    BY <1>1, <2>1, AccountUntouched DEF IInv
<1> QED
  BY <1>2, <1>3, <1>4, <1>5 DEF IInv

\* The watching goroutine looks its channel up under the name.
LEMMA PickChannelInvariant ==
  ASSUME IInv, NEW x \in Clusters, PickChannel(x)
  PROVE  IInv'
<1>1. /\ loop[x] = "opened" /\ loop' = [loop EXCEPT ![x] = "watching"]
      /\ writes' = [writes EXCEPT ![x] = eventCh]
      /\ UNCHANGED <<keys, task, queued, pc, found, watched, eventCh, open, stream, chan,
                     reads, gauge, missed, changes, breaks, calm>>
  BY DEF PickChannel, LoopFrame, workVars, mapVars
<1>2. eventCh # None
  BY <1>1 DEF IInv, MapInv
<1>3. TypeOK'
  BY <1>1, <1>2 DEF IInv, TypeOK
<1>4. MapInv' /\ LoopInv'
  BY <1>1 DEF IInv, TypeOK, MapInv, LoopInv
<1>5. CountInv'
  BY <1>1 DEF IInv, TypeOK, CountInv, IsRead
<1>6. GaugeAccounted'
  <2>1. \A z \in Clusters : loop'[z] = "none" <=> loop[z] = "none"
    BY <1>1 DEF IInv, TypeOK
  <2> QED
    BY <1>1, <2>1, AccountUntouched DEF IInv
<1> QED
  BY <1>3, <1>4, <1>5, <1>6 DEF IInv

\* An event is on its way in the stream or in the channel, whichever channel that is.
LEMMA ForwardInvariant ==
  ASSUME IInv, NEW x \in Clusters, Forward(x)
  PROVE  IInv'
<1> DEFINE y == writes[x]
           e == Head(stream[x])
<1>1. /\ loop[x] = "watching" /\ stream[x] # << >> /\ Len(chan[y]) < EventBuffer
      /\ stream' = [stream EXCEPT ![x] = Tail(stream[x])]
      /\ chan' = [chan EXCEPT ![y] = Append(chan[y], e)]
      /\ UNCHANGED <<keys, task, queued, pc, found, watched, eventCh, loop, writes, open,
                     reads, gauge, missed, changes, breaks, calm>>
  BY DEF Forward, LoopFrame, workVars, mapVars
<1>2. y \in Clusters /\ stream[x] \in Seq(Kinds) /\ chan[y] \in Seq(Kinds)
  BY <1>1 DEF IInv, TypeOK
<1>3. /\ e \in Kinds /\ Tail(stream[x]) \in Seq(Kinds)
      /\ Net(Tail(stream[x])) = Net(stream[x]) - Weight(e)
      /\ Net(Append(chan[y], e)) = Net(chan[y]) + Weight(e)
  BY <1>1, <1>2, NetTail, NetAppend
<1>4. /\ stream'[x] = Tail(stream[x]) /\ chan'[y] = Append(chan[y], e)
      /\ chan'[y] \in Seq(Kinds) /\ Len(chan'[y]) <= EventBuffer
  BY <1>1, <1>2, <1>3, InspectionAssumption DEF IInv, TypeOK, InspectionAssumption
<1> HIDE DEF y, e
<1>5. TypeOK'
  <2>1. /\ stream' \in [Clusters -> Seq(Kinds)] /\ chan' \in [Clusters -> Seq(Kinds)]
    BY <1>1, <1>2, <1>3, <1>4 DEF IInv, TypeOK
  <2>2. \A z \in Clusters : Len(chan'[z]) <= EventBuffer
    BY <1>1, <1>2, <1>4 DEF IInv, TypeOK
  <2> QED
    BY <1>1, <2>1, <2>2 DEF IInv, TypeOK
<1>6. MapInv' /\ CountInv'
  BY <1>1 DEF IInv, MapInv, CountInv, IsRead
<1>7. LoopInv'
  BY <1>1 DEF IInv, TypeOK, LoopInv
<1>8. GaugeAccounted'
  <2>1. TypeOK /\ GaugeAccounted
    BY DEF IInv
  <2>2. /\ Settled(x)' = Settled(x)
        /\ \A z \in Clusters \ {x} : Settled(z)' = Settled(z) /\ stream'[z] = stream[z]
    BY <1>1 DEF Settled, IsCounted, IInv, TypeOK
  <2>3. \A z \in Clusters \ {y} : chan'[z] = chan[z]
    BY <1>1 DEF IInv, TypeOK
  <2>4. /\ Net(stream[x]) \in Int /\ Net(chan[y]) \in Int /\ Weight(e) \in Int
        /\ gauge \in Int /\ Settled(x) \in Int
    <3>1. Net(stream[x]) \in Int /\ Net(chan[y]) \in Int
      BY <1>2, NetType
    <3>2. Settled(x) \in Int
      BY <2>1, SettledType
    <3> QED
      BY <2>1, <3>1, <3>2 DEF TypeOK, Weight
  <2>5. gauge' = gauge + (Settled(x)' - Settled(x)) - (Net(stream'[x]) - Net(stream[x]))
                   - (Net(chan'[y]) - Net(chan[y]))
    BY <1>1, <1>3, <1>4, <2>2, <2>4
  <2> QED
    BY <1>2, <1>5, <2>1, <2>2, <2>3, <2>5, AccountKept
<1> QED
  BY <1>5, <1>6, <1>7, <1>8 DEF IInv

\* A cancelled watch is opened again once its events are forwarded.
LEMMA RewatchInvariant ==
  ASSUME IInv, NEW x \in Clusters, Rewatch(x)
  PROVE  IInv'
<1>1. /\ loop[x] = "watching" /\ loop' = [loop EXCEPT ![x] = "start"] /\ x \notin open
      /\ UNCHANGED <<keys, task, queued, pc, found, watched, eventCh, writes, open, stream,
                     chan, reads, gauge, missed, changes, breaks, calm>>
  BY DEF Rewatch, LoopFrame, workVars, mapVars
<1>2. TypeOK'
  BY <1>1 DEF IInv, TypeOK
<1>3. MapInv' /\ LoopInv'
  BY <1>1 DEF IInv, TypeOK, MapInv, LoopInv
<1>4. CountInv'
  BY <1>1 DEF IInv, TypeOK, CountInv, IsRead
<1>5. GaugeAccounted'
  <2>1. \A z \in Clusters : loop'[z] = "none" <=> loop[z] = "none"
    BY <1>1 DEF IInv, TypeOK
  <2> QED
    BY <1>1, <2>1, AccountUntouched DEF IInv
<1> QED
  BY <1>2, <1>3, <1>4, <1>5 DEF IInv

\* The reading goroutine looks its channel up under the name.
LEMMA PickReadChannelInvariant ==
  ASSUME IInv, NEW x \in Clusters, PickReadChannel(x)
  PROVE  IInv'
<1>1. /\ reads[x] = "start" /\ reads' = [reads EXCEPT ![x] = eventCh]
      /\ UNCHANGED <<keys, task, queued, pc, found, watched, eventCh, loop, writes, open,
                     stream, chan, gauge, missed, changes, breaks, calm>>
  BY DEF PickReadChannel, ProcessFrame, workVars, mapVars
<1>2. watched /\ eventCh \in Clusters
  BY <1>1 DEF IInv, TypeOK, MapInv
<1>3. TypeOK'
  BY <1>1, <1>2 DEF IInv, TypeOK
<1>4. MapInv' /\ LoopInv' /\ CountInv'
  BY <1>1, <1>2 DEF IInv, MapInv, LoopInv, CountInv, IsRead
<1>5. GaugeAccounted'
  BY <1>1, AccountUntouched DEF IInv
<1> QED
  BY <1>3, <1>4, <1>5 DEF IInv

\* An event leaves its channel for the gauge.
LEMMA ProcessEventInvariant ==
  ASSUME IInv, NEW x \in Clusters, ProcessEvent(x)
  PROVE  IInv'
<1> DEFINE y == reads[x]
           e == Head(chan[y])
<1>1. /\ y \in Clusters /\ chan[y] # << >>
      /\ gauge' = gauge + Weight(e) /\ chan' = [chan EXCEPT ![y] = Tail(chan[y])]
      /\ UNCHANGED <<keys, task, queued, pc, found, watched, eventCh, loop, writes, open,
                     stream, reads, missed, changes, breaks, calm>>
  BY DEF ProcessEvent, Counted, ProcessFrame, workVars, mapVars
<1>2. chan[y] \in Seq(Kinds) /\ Len(chan[y]) <= EventBuffer /\ Weight(e) \in Int
  BY <1>1 DEF IInv, TypeOK, Weight
<1>3. /\ Tail(chan[y]) \in Seq(Kinds) /\ Len(Tail(chan[y])) = Len(chan[y]) - 1
      /\ Net(Tail(chan[y])) = Net(chan[y]) - Weight(e)
  BY <1>1, <1>2, NetTail
<1>4. chan'[y] = Tail(chan[y])
  BY <1>1 DEF IInv, TypeOK
<1> HIDE DEF y, e
<1>5. TypeOK'
  <2>1. chan' \in [Clusters -> Seq(Kinds)]
    BY <1>1, <1>3 DEF IInv, TypeOK
  <2>2. \A z \in Clusters : Len(chan'[z]) <= EventBuffer
    <3>1. Len(chan'[y]) <= EventBuffer
      BY <1>2, <1>3, <1>4, InspectionAssumption DEF InspectionAssumption
    <3> QED
      BY <1>1, <3>1 DEF IInv, TypeOK
  <2>3. gauge' \in Int
    BY <1>1, <1>2 DEF IInv, TypeOK
  <2> QED
    BY <1>1, <2>1, <2>2, <2>3 DEF IInv, TypeOK
<1>6. MapInv' /\ LoopInv' /\ CountInv'
  BY <1>1 DEF IInv, MapInv, LoopInv, CountInv, IsRead
<1>7. GaugeAccounted'
  <2>1. TypeOK /\ GaugeAccounted
    BY DEF IInv
  <2>2. \A z \in Clusters : Settled(z)' = Settled(z) /\ stream'[z] = stream[z]
    BY <1>1 DEF Settled, IsCounted
  <2>3. \A z \in Clusters \ {y} : chan'[z] = chan[z]
    BY <1>1 DEF IInv, TypeOK
  <2>4. /\ Net(stream[x]) \in Int /\ Net(chan[y]) \in Int /\ gauge \in Int /\ Settled(x) \in Int
    BY <1>1, <1>2, <2>1, NetType, SettledType DEF TypeOK
  <2>5. gauge' = gauge + (Settled(x)' - Settled(x)) - (Net(stream'[x]) - Net(stream[x]))
                   - (Net(chan'[y]) - Net(chan[y]))
    BY <1>1, <1>2, <1>3, <1>4, <2>2, <2>4
  <2> QED
    BY <1>1, <1>5, <2>1, <2>2, <2>3, <2>5, AccountKept
<1> QED
  BY <1>5, <1>6, <1>7 DEF IInv

-----------------------------------------------------------------------------
(* Restarts, and the theorem *)

\* The process ends: gauge, maps and goroutines are gone together.
LEMMA RestartInvariant ==
  ASSUME IInv, Restart
  PROVE  IInv'
<1>1. /\ queued' = task /\ breaks' \in 0 .. MaxBreaks
      /\ pc' = Started("idle") /\ found' = Started(0)
      /\ watched' = FALSE /\ eventCh' = None
      /\ loop' = Started("none") /\ writes' = Started(None) /\ open' = {}
      /\ stream' = Started(<< >>) /\ chan' = Started(<< >>) /\ reads' = Started("none")
      /\ gauge' = 0 /\ missed' = Started(0)
      /\ UNCHANGED <<keys, task, changes, calm>>
  BY InspectionAssumption DEF Restart, IInv, TypeOK, InspectionAssumption
<1>2. TypeOK'
  <2>1. 0 \in 0 .. Cardinality(Keys)
    BY InspectionAssumption, FS_CardinalityType DEF InspectionAssumption
  <2>2. << >> \in Seq(Kinds) /\ Len(<< >>) <= EventBuffer
    BY InspectionAssumption DEF InspectionAssumption
  <2>3. /\ stream' \in [Clusters -> Seq(Kinds)] /\ chan' \in [Clusters -> Seq(Kinds)]
        /\ \A x \in Clusters : Len(chan'[x]) <= EventBuffer
    BY <1>1, <2>2 DEF Started
  <2>4. /\ pc' \in [Clusters -> {"idle", "get", "count", "process"}]
        /\ loop' \in [Clusters -> {"none", "start", "opened", "watching", "ended"}]
        /\ reads' \in [Clusters -> Clusters \cup {"none", "start"}]
        /\ \A x \in Clusters : loop'[x] = "none"
    BY <1>1 DEF Started
  <2>5. /\ found' \in [Clusters -> 0 .. Cardinality(Keys)] /\ missed' \in [Clusters -> Int]
        /\ writes' \in [Clusters -> Clusters \cup {None}]
    BY <1>1, <2>1 DEF Started
  <2>6. \A x \in Clusters : loop'[x] = "watching" => writes'[x] # None
    BY <2>4
  <2>7. /\ keys' \in [Clusters -> SUBSET Keys] /\ task' \subseteq Clusters
        /\ queued' \subseteq Clusters /\ changes' \in 0 .. MaxChanges /\ calm' \in BOOLEAN
        /\ breaks' \in 0 .. MaxBreaks
    BY <1>1 DEF IInv, TypeOK
  <2>8. watched' \in BOOLEAN /\ eventCh' \in Clusters \cup {None}
    BY <1>1
  <2>9. open' \subseteq Clusters /\ gauge' \in Int
    BY <1>1
  <2> QED
    BY <2>3, <2>4, <2>5, <2>6, <2>7, <2>8, <2>9 DEF TypeOK
<1>3. MapInv' /\ LoopInv'
  BY <1>1 DEF Started, MapInv, LoopInv
<1>4. CountInv'
  BY <1>1 DEF Started, CountInv
<1>5. GaugeAccounted'
  <2>1. [x \in Clusters |-> Settled(x)]' = [x \in Clusters |-> 0]
    BY <1>1 DEF Started, Settled, IsCounted
  <2>2. /\ [x \in Clusters |-> Net(stream[x])]' = [x \in Clusters |-> 0]
        /\ [x \in Clusters |-> Net(chan[x])]' = [x \in Clusters |-> 0]
    BY <1>1, NetOfNone DEF Started
  <2> QED
    BY <1>1, <2>1, <2>2, TotalOfZeros DEF GaugeAccounted
<1> QED
  BY <1>2, <1>3, <1>4, <1>5 DEF IInv

\* A step that only calms the environment down breaks nothing.
LEMMA UntouchedInvariant ==
  ASSUME IInv, calm' \in BOOLEAN,
         UNCHANGED <<keys, task, queued, pc, found, watched, eventCh, loop, writes, open,
                     stream, chan, reads, gauge, missed, changes, breaks>>
  PROVE  IInv'
<1>1. TypeOK'
  BY DEF IInv, TypeOK
<1>2. MapInv' /\ LoopInv' /\ CountInv'
  BY DEF IInv, MapInv, LoopInv, CountInv, IsRead
<1>3. GaugeAccounted'
  BY AccountUntouched DEF IInv
<1> QED
  BY <1>1, <1>2, <1>3 DEF IInv

\* Every step keeps the invariant.
LEMMA NextInvariant ==
  ASSUME IInv, [Next]_vars
  PROVE  IInv'
<1>1. ASSUME NEW x \in Clusters, NEW k \in Keys, NEW kind \in Kinds, Change(x, k, kind)
      PROVE  IInv'
  BY <1>1, ChangeInvariant
<1>2. ASSUME NEW x \in Clusters,
             CancelWatch(x) \/ ToggleTask(x) \/ Resync(x) \/ Worker(x) \/ Loop(x) \/ Process(x)
      PROVE  IInv'
  BY <1>2, CancelWatchInvariant, ToggleTaskInvariant, ResyncInvariant, TakeTaskInvariant,
     GetKeysInvariant, StartWatchInvariant, StartProcessInvariant, OpenWatchInvariant,
     PickChannelInvariant, ForwardInvariant, RewatchInvariant, PickReadChannelInvariant,
     ProcessEventInvariant DEF Worker, Loop, Process
<1>3. CASE Restart
  BY <1>3, RestartInvariant
<1>4. CASE CalmDown \/ UNCHANGED vars
  <2>1. calm' \in BOOLEAN
    BY <1>4 DEF CalmDown, vars, IInv, TypeOK
  <2>2. UNCHANGED <<keys, task, queued, pc, found, watched, eventCh, loop, writes, open,
                    stream, chan, reads, gauge, missed, changes, breaks>>
    BY <1>4 DEF CalmDown, vars, workVars, mapVars, pipeVars
  <2> QED
    BY <2>1, <2>2, UntouchedInvariant
<1> QED
  BY <1>1, <1>2, <1>3, <1>4 DEF Next

\* However many clusters of one name the workers and goroutines of the inspection share
\* its channels for, every event of an open watch is in the gauge once, or still on its
\* way (request.go:162-228).
THEOREM EveryEventCounted == Spec => []Inv
<1>1. IInv => Inv
  BY DEF IInv, Inv
<1> QED
  BY <1>1, InitInvariant, NextInvariant, PTL DEF Spec
=============================================================================
