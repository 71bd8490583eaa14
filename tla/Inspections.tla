----------------------------- MODULE Inspections -----------------------------
(***************************************************************************)
(* The inspections of the etcdinspection controller that keep nothing      *)
(* between two runs: an EtcdInspection says which one to run, and the      *)
(* controller runs it again every resync (doInspectionTask).  They share   *)
(* no state, so a behaviour follows one EtcdInspection - or, when task is  *)
(* "keys", one call of kstone-api's key browser, and when it is "members", *)
(* the reconciles that record the members of one EtcdCluster.              *)
(***************************************************************************)
EXTENDS ConsistencyCheck, MemberMetrics, BackupFiles

CONSTANTS
  Tasks,    \* what is followed
  Stored,   \* the keys that may be stored in etcd, see KeyBrowser
  Servers, Size, MaxChanges   \* see MemberRoles

\* Keys are sequences of bytes; etcd stores nothing under an empty one.
ASSUME InspectionsAssumption ==
  /\ Tasks \subseteq {"consistency", "alarm", "healthy", "backupcheck", "keys", "members"}
  /\ Stored \subseteq Seq(0 .. 255) \ {<< >>}
  /\ Servers \subseteq Nat /\ IsFiniteSet(Servers) /\ {Size, MaxChanges} \subseteq Nat

VARIABLES
  task,            \* InspectionType of the EtcdInspection, "keys" or "members"
  asked, answer,   \* what the key browser is asked and says, see KeyBrowser
  provider, backend, members, learners, up, view, changes, recorded, found, roles
                   \* see MemberRoles

Browser == INSTANCE KeyBrowser

Status  == INSTANCE MemberRoles

keysVars == <<asked, answer>>
rolesVars == <<provider, backend, members, learners, up, view, changes, recorded, found, roles>>
vars == <<consistencyVars, metricsVars, filesVars, keysVars, rolesVars, task>>

NoQuestion == [content |-> << >>, key |-> << >>, kubernetes |-> FALSE]

Init ==
  /\ task \in Tasks
  /\ IF task = "keys" THEN Browser!KeysInit ELSE asked = NoQuestion /\ answer = << >>
  /\ Status!RolesInit
  /\ task # "members" =>
       /\ <<provider, backend>> = <<"kstone", "v3">> /\ members = Servers
       /\ view = [m \in Servers |-> CHOOSE l \in Servers : TRUE]
  /\ ConsistencyInit /\ MetricsInit /\ FilesInit
  /\ task # "consistency" => V2 = {} /\ \A m \in Members : rev[m] = 0 /\ keys[m] = 0
  /\ task # "backupcheck" => storage = "COS"
  /\ endpoint = CHOOSE m \in Members : TRUE

ConsistencyRuns ==
  /\ task = "consistency" /\ ConsistencyStep
  /\ UNCHANGED <<metricsVars, filesVars, keysVars, rolesVars, task>>

AlarmRuns ==
  /\ task = "alarm" /\ AlarmStep
  /\ UNCHANGED <<consistencyVars, filesVars, keysVars, rolesVars, task>>

HealthyRuns ==
  /\ task = "healthy" /\ HealthyStep
  /\ UNCHANGED <<consistencyVars, filesVars, keysVars, rolesVars, task>>

BackupsGoOn ==
  /\ task = "backupcheck" /\ FilesNext
  /\ UNCHANGED <<consistencyVars, metricsVars, keysVars, rolesVars, task>>

DataChanges ==
  /\ task = "consistency" /\ \E m \in Members : Apply(m)
  /\ UNCHANGED <<metricsVars, filesVars, keysVars, rolesVars, task>>

EtcdChanges ==
  /\ task \in {"alarm", "healthy"} /\ EtcdStep
  /\ UNCHANGED <<consistencyVars, filesVars, keysVars, rolesVars, task>>

KeysAsked ==
  /\ task = "keys" /\ Browser!EtcdKeyList
  /\ UNCHANGED <<consistencyVars, metricsVars, filesVars, rolesVars, task>>

MembersCollected ==
  /\ task = "members" /\ Status!Collect
  /\ UNCHANGED <<consistencyVars, metricsVars, filesVars, keysVars, task>>

MembersChange ==
  /\ task = "members" /\ Status!EtcdChanges
  /\ UNCHANGED <<consistencyVars, metricsVars, filesVars, keysVars, task>>

Next ==
  \/ ConsistencyRuns \/ AlarmRuns \/ HealthyRuns \/ BackupsGoOn \/ DataChanges \/ EtcdChanges
  \/ KeysAsked \/ MembersCollected \/ MembersChange

Runs == ConsistencyRuns \/ AlarmRuns \/ HealthyRuns \/ MembersCollected

\* The resync brings inspections and reconciles back for ever, and each comes to its end:
\* the calls it makes have timeouts.  A behaviour has one of the four.
Spec == Init /\ [][Next]_vars
FairSpec == Spec /\ WF_vars(Runs)
=============================================================================
