----------------------------- MODULE BackupFiles -----------------------------
(***************************************************************************)
(* The backup files of one cluster: the periodic runner of the backup      *)
(* operator writes one each interval and deletes all but the MaxBackups    *)
(* whose names come last as text (EnsureMaxBackup), and kstone's backup    *)
(* inspection counts those of the last day from the end of a listing       *)
(* (StatBackupFiles, Stat).  A name is the path, the revision without      *)
(* leading zeros, and the time.                                            *)
(*                                                                         *)
(* Other clusters may keep their files in the same bucket, under paths of  *)
(* their own; no other cluster's path begins with this one's.              *)
(***************************************************************************)
EXTENDS Integers, Sequences, FiniteSets

CONSTANTS
  Day,         \* OneDaySeconds, in ticks
  Interval,    \* BackupIntervalInSecond, in ticks
  MaxBackups,
  PageSize,    \* how many names a storage lists at once
  FirstRev, LastRev,   \* revisions, at most two digits long (bound)
  LastTick,    \* the clock runs 0..LastTick (bound)
  MaxForeign   \* files of other clusters there are at a time (bound)

ASSUME BackupFilesAssumption ==
  /\ Interval \in Nat \ {0} /\ Day \in Nat /\ MaxBackups \in Nat \ {0}
  /\ PageSize \in Nat
  /\ FirstRev \in Nat \ {0} /\ LastRev \in FirstRev .. 99 /\ LastTick \in Nat
  /\ MaxForeign \in Nat

\* The paths of the bucket, in the order of their text.
Own   == 1
Paths == {0, Own, 2}

Files == [path : Paths, rev : FirstRev .. LastRev, at : 0 .. LastTick]

VARIABLES
  storage,   \* StorageType of the backup configuration
  now,
  due,       \* the runner's ticker has fired
  files,     \* the cluster's files in the bucket
  foreign,   \* those of other clusters
  made,      \* every backup that succeeded (history)
  stat       \* EtcdBackupFiles, EtcdFailedBackupFiles, and a bit that tells two runs apart

filesVars == <<storage, now, due, files, foreign, made, stat>>

NoStat == [actual |-> 0, failed |-> 0, run |-> FALSE]

FilesInit ==
  /\ storage \in {"COS", "S3"}
  /\ now = 0 /\ due = TRUE
  /\ files = {} /\ foreign = {} /\ made = {} /\ stat = NoStat

Digits(n) == IF n < 10 THEN <<n>> ELSE <<n \div 10, n % 10>>

\* "_" comes after the digits, so a shorter number comes after one it begins.
TextBefore(m, n) ==
  LET a == Digits(m)  b == Digits(n) IN
  \/ a[1] < b[1]
  \/ a[1] = b[1] /\ Len(a) > Len(b)
  \/ a[1] = b[1] /\ Len(a) = 2 /\ Len(b) = 2 /\ a[2] < b[2]

\* Mutant of NameBefore: the older of two files comes later.
NameAfter(f, g) == f.at > g.at

NameBefore(f, g) ==
  \/ f.path < g.path
  \/ f.path = g.path /\ TextBefore(f.rev, g.rev)
  \/ f.path = g.path /\ f.rev = g.rev /\ f.at < g.at

Before(saved, f) == {g \in saved : NameBefore(g, f)}
After(saved, f)  == {g \in saved : NameBefore(f, g)}

-----------------------------------------------------------------------------

\* One request lists the names that come first.
FirstPage(saved) == {f \in saved : Cardinality(Before(saved, f)) < PageSize}

\* EnsureMaxBackup: of the names in reverse order all after the first MaxBackups are
\* deleted, up to one whose Delete fails.
Kept(saved, failing) ==
  {f \in saved : f \in FirstPage(saved) =>
     LET position == Cardinality(After(FirstPage(saved), f)) IN
     position < MaxBackups \/ position >= failing}

Tick ==
  /\ now < LastTick /\ ~ due
  /\ now' = now + 1 /\ due' = (now' % Interval = 0)
  /\ UNCHANGED <<storage, files, foreign, made, stat>>

\* SaveSnap and EnsureMaxBackup, each of which may fail.  The revision is that of whichever
\* member the one endpoint, a Service, leads to, and the read is serializable: the member
\* may lag behind by any number of the revisions etcd has written.
Backup ==
  /\ due /\ due' = FALSE
  /\ \/ UNCHANGED <<files, made>>
     \/ \E rev \in FirstRev .. LastRev :
          LET new == [path |-> Own, rev |-> rev, at |-> now] IN
          /\ made' = made \cup {new}
          /\ \E failing \in 0 .. Cardinality(files) + 1 :
               files' = Kept(files \cup {new}, failing)
  /\ UNCHANGED <<storage, now, foreign, stat>>

\* Another cluster saves or deletes a backup.  Its revision makes no difference, and in
\* COS none of it does, where only the path is listed.
OthersSave ==
  /\ storage = "S3" /\ Cardinality(foreign) < MaxForeign
  /\ \E path \in Paths \ {Own} :
       foreign' = foreign \cup {[path |-> path, rev |-> FirstRev, at |-> now]}
  /\ UNCHANGED <<storage, now, due, files, made, stat>>

OthersDelete ==
  /\ \E f \in foreign : foreign' = foreign \ {f}
  /\ UNCHANGED <<storage, now, due, files, made, stat>>

Fresh(f) == now - f.at <= Day

\* StorageCOS.List asks for the path, once.
ListCOS == FirstPage(files)

\* StorageS3.List goes through all pages, and asks for the whole bucket.
ListS3 == files \cup foreign

Listed == IF storage = "COS" THEN ListCOS ELSE ListS3

\* Stat goes through the listing from its end and stops at the first file that is
\* older than a day.
Counted(listed) ==
  Cardinality({f \in listed : \A g \in listed : g = f \/ NameBefore(f, g) => Fresh(g)})

\* Mutant of Desired: the number is not capped by what is kept at all.
DesiredUncapped == Day \div Interval

Desired == IF Day \div Interval > MaxBackups THEN MaxBackups ELSE Day \div Interval

Positive(n) == IF n < 0 THEN 0 ELSE n

\* A StatBackupFiles that fails leaves the gauges as they are.
StatBackupFiles ==
  /\ LET counted == Counted(Listed) IN
       stat' = [actual |-> counted, failed |-> Positive(Desired - counted),
               run |-> ~ stat.run]
  /\ UNCHANGED <<storage, now, due, files, foreign, made>>

FilesNext == Tick \/ Backup \/ OthersSave \/ OthersDelete \/ StatBackupFiles
=============================================================================
