----------------------------- MODULE MemberRoles -----------------------------
(***************************************************************************)
(* How the status of an EtcdCluster gets its members and their roles       *)
(* (GetRuntimeEtcdMembers, called by Status of both providers): the member *)
(* list is asked of the endpoints recorded last, then one status call is   *)
(* made for each listed member - to the member itself in the v2 API, to    *)
(* the first endpoint, whatever member it is about, in v3.  The leader may *)
(* change and members may come and go between any two calls.               *)
(*                                                                         *)
(* A member that has published no client URL is passed over, as if it were *)
(* not listed.                                                             *)
(***************************************************************************)
EXTENDS Integers, FiniteSets, FiniteSetsExt

CONSTANTS
  Servers,      \* numbers: etcd lists its members in the order of their ids
  Size,         \* Spec.Size
  MaxChanges    \* what may happen to etcd (bound)

None  == -1
Roles == {"leader", "follower", "learner", "unknown"}

VARIABLES
  provider, backend,   \* of the EtcdCluster
  members, learners,   \* etcd's membership
  up,                  \* the members that answer kstone
  view,                \* [Servers -> Servers or None], who each takes for the leader
  changes,
  recorded,            \* Status.Members: a role for each member that is recorded
  found,               \* MemberList of the running collection, {} when none runs
  roles                \* the roles it has appended

etcdVars == <<members, learners, up, view>>
rolesVars == <<provider, backend, members, learners, up, view, changes, recorded, found, roles>>

NoRoles == [m \in {} |-> "unknown"]

RolesInit ==
  /\ provider \in {"imported", "kstone"} /\ backend \in {"v2", "v3"}
  /\ members \in (SUBSET Servers) \ {{}} /\ learners = {} /\ up = members
  /\ \E l \in members : view = [m \in Servers |-> l]
  /\ changes = 0 /\ recorded = NoRoles /\ found = {} /\ roles = NoRoles

-----------------------------------------------------------------------------
(* etcd *)

Change ==
  /\ changes < MaxChanges /\ changes' = changes + 1
  /\ UNCHANGED <<provider, backend, recorded, found, roles>>

\* m hears of a leader, or of none.
Hear(m) ==
  /\ Change
  /\ \E l \in (members \ learners) \cup {None} : view' = [view EXCEPT ![m] = l]
  /\ UNCHANGED <<members, learners, up>>

Stop(m) ==
  /\ Change /\ m \in up /\ up' = up \ {m}
  /\ UNCHANGED <<members, learners, view>>

Start(m) ==
  /\ Change /\ m \in members /\ up' = up \cup {m}
  /\ UNCHANGED <<members, learners, view>>

Join(m) ==
  /\ Change /\ m \notin members
  /\ members' = members \cup {m} /\ up' = up \cup {m}
  /\ learners' \in {learners, learners \cup {m}}
  /\ view' = [view EXCEPT ![m] = None]

Promote(m) ==
  /\ Change /\ m \in learners /\ learners' = learners \ {m}
  /\ UNCHANGED <<members, up, view>>

Leave(m) ==
  /\ Change /\ m \in members /\ members # {m}
  /\ members' = members \ {m} /\ up' = up \ {m} /\ learners' = learners \ {m}
  /\ UNCHANGED view

EtcdChanges ==
  \E m \in Servers : Hear(m) \/ Stop(m) \/ Start(m) \/ Join(m) \/ Promote(m) \/ Leave(m)

-----------------------------------------------------------------------------
(* The collection *)

\* GetStorageMemberEndpoints: the members recorded, or else the address of the service,
\* behind which is any member.
Endpoints == IF DOMAIN recorded = {} THEN members ELSE DOMAIN recorded

\* A learner refuses to list the members in the v3 API, and the client asks another.
Answering == {n \in Endpoints \cap up : n \in learners => backend = "v2"}

\* MemberList, of any endpoint that answers; when none does Status keeps the members.
MemberList ==
  /\ found = {} /\ Answering # {}
  /\ found' = members
  /\ UNCHANGED <<provider, backend, etcdVars, changes, recorded, roles>>

Failed == [ok |-> FALSE, learner |-> FALSE, leader |-> None]

\* What member n says, also of a member that is not n.
StatusOf(n) ==
  IF n \in up
  THEN [ok |-> TRUE, learner |-> n \in learners, leader |-> view[n]]
  ELSE Failed

\* V2.Status knows no learners.
StatusV2(m) == {[StatusOf(m) EXCEPT !.learner = FALSE]}

\* Endpoints[0].
StatusV3(m) ==
  IF DOMAIN recorded = {} THEN {StatusOf(n) : n \in members} ELSE {StatusOf(Min(DOMAIN recorded))}

\* Mutant of Status: v3 asks the member itself.
StatusOwn(m) == IF backend = "v2" THEN StatusV2(m) ELSE {StatusOf(m)}

\* GetEtcdClientProvider: no storage backend means v3.
Status(m) == IF backend = "v2" THEN StatusV2(m) ELSE StatusV3(m)

Role(status, m) ==
  IF ~ status.ok THEN "unknown" ELSE IF status.learner THEN "learner"
  ELSE IF status.leader = m THEN "leader" ELSE "follower"

Ask(m) ==
  /\ m \in found \ DOMAIN roles
  /\ \E status \in Status(m) :
       roles' = [n \in DOMAIN roles \cup {m} |-> IF n = m THEN Role(status, m) ELSE roles[n]]
  /\ UNCHANGED <<provider, backend, etcdVars, changes, recorded, found>>

\* The imported provider records what it got, the kstone provider a list of the right length.
Record ==
  /\ found # {} /\ DOMAIN roles = found
  /\ recorded' = IF provider = "kstone" /\ Cardinality(found) # Size THEN recorded ELSE roles
  /\ found' = {} /\ roles' = NoRoles
  /\ UNCHANGED <<provider, backend, etcdVars, changes>>

\* One step of Status, which comes back with every reconcile; its calls have timeouts.
Collect == MemberList \/ Record \/ \E m \in Servers : Ask(m)

-----------------------------------------------------------------------------

\* The variables of the collection and of etcd.
RolesTypeOK ==
  /\ provider \in {"imported", "kstone"} /\ backend \in {"v2", "v3"}
  /\ members \in (SUBSET Servers) \ {{}} /\ {learners, up} \subseteq SUBSET members
  /\ view \in [Servers -> Servers \cup {None}] /\ changes \in 0 .. MaxChanges
  /\ recorded \in UNION {[some -> Roles] : some \in SUBSET Servers}
  /\ found \subseteq Servers
  /\ roles \in UNION {[some -> Roles] : some \in SUBSET found}

\* The members that answer agree on the leader, and what kstone asks can say so.
Knowable(leader) ==
  /\ leader \in members /\ \A m \in up : view[m] = leader
  /\ Answering # {}
  /\ provider = "kstone" => Cardinality(members) = Size
  /\ IF backend = "v2" THEN leader \in up ELSE Min(members) \in up \ learners

(* Once etcd stays as it is, its members agree on the leader, and one of   *)
(* the endpoints recorded is left, the status lists the members there are  *)
(* and shows that leader alone - on v3 also when kstone cannot reach it,   *)
(* and although a collection may record two leaders, or learners only,     *)
(* while the leader changes or the first endpoint is gone                  *)
(* (clusterprovider/helper.go:39-50, 88-141; versions/v3/client.go:57).    *)
RolesSettle ==
  \A leader \in Servers :
    <>[]Knowable(leader) =>
      <>[](DOMAIN recorded = members /\ {m \in DOMAIN recorded : recorded[m] = "leader"} = {leader})
=============================================================================
