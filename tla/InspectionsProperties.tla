------------------------ MODULE InspectionsProperties ------------------------
(***************************************************************************)
(* What the gauges of the inspections, the bucket of the backups and the   *)
(* key browser must show.                                                  *)
(***************************************************************************)
EXTENDS Inspections

TypeOK ==
  /\ task \in Tasks /\ V2 \subseteq Members
  /\ rev \in [Members -> Numbers] /\ keys \in [Members -> Numbers]
  /\ endpoint \in Members /\ stage \in [Members -> Stages]
  /\ client \in [Members -> Members]
  /\ readRev \in [Members -> Numbers] /\ readKeys \in [Members -> Numbers]
  /\ {running, counted, quiet} \subseteq BOOLEAN
  /\ gauge \in [Metrics -> Numbers \cup {Unset}] /\ failures \in 0 .. MaxFailures
  /\ listed \subseteq Nodes /\ alarms \subseteq Alarms /\ healthy \subseteq Nodes
  /\ turns \in 0 .. MaxTurns /\ errors \in 0 .. MaxErrors
  /\ at \in {"idle", "alarm", "healthy"} /\ seen \subseteq Nodes /\ left \subseteq seen
  /\ alarmGauge \subseteq AlarmLabels(Nodes) /\ alarmZero \subseteq AlarmLabels(Nodes) \ alarmGauge
  /\ healthGauge \in [Hosts(Nodes) -> {-1, 0, 1}]
  /\ storage \in {"COS", "S3"} /\ now \in 0 .. LastTick /\ due \in BOOLEAN
  /\ files \subseteq made /\ made \subseteq Files /\ foreign \subseteq Files
  /\ Status!RolesTypeOK

-----------------------------------------------------------------------------
(* Consistency *)

Spreads(f) == Spread({f[m] : m \in Members})

(* Although the goroutines share one client configuration and a client may *)
(* lead to any of the members, an inspection during which nothing is       *)
(* written never shows a difference that is not there, and the difference  *)
(* of the revisions of a v3 cluster is exact.  The raft gauge of members   *)
(* of both storage versions is not included (consistency.go:57-103).       *)
DifferencesAreReal ==
  [][(running /\ ~ running' /\ quiet /\ ~ counted') =>
        /\ gauge'["keyTotal"] <= Spreads(keys)
        /\ gauge'["revision"] <= Spreads(rev)
        /\ gauge'["index"] <= Spreads(rev)
        /\ V2 = {} => gauge'["raft"] = Spreads(rev) /\ gauge'["revision"] = Spreads(rev)]_vars

(* Once members of one storage version stop changing and calls stop        *)
(* failing, the gauge of the revisions says how far they are apart, and    *)
(* the last inspection is not counted as failed (consistency.go:107-147).  *)
DifferencesSettle ==
  task = "consistency" /\ V2 = {} => <>[](gauge["revision"] = Spreads(rev) /\ ~ counted)

-----------------------------------------------------------------------------
(* Alarms and health *)

(* Once members and alarms stay as they are, every alarm of a listed       *)
(* member is shown for its host, and when there is none, none is shown for *)
(* the host of a listed member (alarm.go:54-68).  While any alarm is left, *)
(* one that was disarmed may stay shown, and that of a host no listed      *)
(* member is on stays for ever.                                            *)
AlarmsSettle ==
  task = "alarm" =>
    <>[](/\ RaisedBy(listed, alarms) \subseteq alarmGauge
         /\ alarms = {} => alarmGauge \cap AlarmLabels(listed) = {})

(* Once members and their health stay as they are, the gauge of a host     *)
(* whose listed members are all healthy, or all sick, says so              *)
(* (healthy.go:45-56).  Members that differ overwrite each other's gauge:  *)
(* the label is the host without the port (clusterprovider/helper.go:106). *)
HealthSettles ==
  task = "healthy" =>
    <>[](\A h \in Hosts(listed) :
           LET there == {m \in listed : HostOf[m] = h} IN
           /\ there \subseteq healthy => healthGauge[h] = 1
           /\ there \cap healthy = {} => healthGauge[h] = 0)

(* Both gauges of the members follow etcd in the end (alarm.go:36-81,      *)
(* healthy.go:32-58).                                                      *)
MetricsSettle == AlarmsSettle /\ HealthSettles

-----------------------------------------------------------------------------
(* Backups *)

OfLastDay(saved) == {f \in saved : now - f.at <= Day}

\* The names of the backups are in the order in which they were made.
InOrder   == \A f, g \in made : NameBefore(f, g) <=> f.at < g.at
OneLength == \A f, g \in made : Len(Digits(f.rev)) = Len(Digits(g.rev))

(* The inspection counts nothing but files of the last day that somebody   *)
(* has made, so it hides a missing backup only behind another cluster's    *)
(* file.  As long as the names are in order and the listing is the         *)
(* cluster's own and complete, it reports exactly those the policy asks    *)
(* for and the last day has not seen, although most files are deleted      *)
(* before the day is over (backupcheck.go:83-90, cos.go:96-123,            *)
(* s3.go:92-122).                                                          *)
MissingBackupsReported ==
  [][stat' # stat =>
       LET saved == Cardinality(OfLastDay(made)) IN
       /\ stat'.failed >= Positive(Desired - saved - Cardinality(OfLastDay(foreign)))
       /\ InOrder /\ Listed = files => stat'.failed = Positive(Desired - saved)]_vars

\* The data of g is newer than that of f.
Newer(g, f) == g.rev > f.rev \/ (g.rev = f.rev /\ g.at > f.at)

(* While the revisions have equally many digits, the MaxBackups backups    *)
(* with the newest data are in the bucket, whichever member gave the       *)
(* revisions and whichever deletions failed or were cut off by a page      *)
(* (backup_manager.go:61-107).  It is data that is kept, not the time of   *)
(* the backup: one of a member that lags behind may be deleted at once.    *)
LatestDataKept ==
  OneLength =>
    \A f \in made : Cardinality({g \in made : Newer(g, f)}) < MaxBackups => f \in files

(* The invariant of the inspections: types, and what retention keeps       *)
(* (backup_manager.go:61-107).                                             *)
Inv == TypeOK /\ LatestDataKept

-----------------------------------------------------------------------------
(* The key browser *)

(* Asked for a key that is stored, the browser shows that key and no other *)
(* it is a prefix of; it fails only for a value of a Kubernetes cluster    *)
(* that is neither JSON nor protobuf, and shows every object of a known    *)
(* type as that object (router.go:241-289).                                *)
StoredKeyShown ==
  (answer # << >> /\ asked.key \in DOMAIN asked.content) =>
    LET kind  == asked.content[asked.key]
        shown == answer[1] IN
    /\ shown.keys \subseteq {asked.key}
    /\ shown.keys = {} => asked.kubernetes /\ kind = "text"
    /\ (asked.kubernetes /\ asked.key # Browser!CompactRevKey /\ kind \in {"json", "proto"}) =>
         shown.json = "object" /\ shown.forms = {"json", "yaml"}

-----------------------------------------------------------------------------
(* The members recorded *)

(* The leader etcd's members agree on is in the end the only one the       *)
(* status shows (clusterprovider/helper.go:88-141).                        *)
MembersSettle == task = "members" => Status!RolesSettle
=============================================================================
