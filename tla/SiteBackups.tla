------------------------------ MODULE SiteBackups ------------------------------
(***************************************************************************)
(* A site's backups and the scripts that meet around them: the nightly      *)
(* backup (scripts/backup.sh), a restore (scripts/restore.sh) with its      *)
(* safety backup, an upgrade (scripts/upgrade.sh) with its own, and the     *)
(* hourly sync that starts the website (scripts/run-sync.sh).               *)
(*                                                                          *)
(* Each script is a shell process of its own.  They share the database, the *)
(* website, the files of backups/ and one marker file that a restore keeps  *)
(* while it works; they look at the marker once, at their start.            *)
(***************************************************************************)
EXTENDS Naturals, FiniteSetsExt

CONSTANTS
  Entry,       \* what people save on the site
  Keep,        \* OPENH2O_BACKUP_KEEP
  MaxBackups,  \* bound: backups begun; a restore begun before the last makes its own
  MaxFaults    \* bound: commands that fail of themselves, and restarts of the server

ASSUME KeepAssumption == Keep \in Nat
ASSUME SiteBoundsAssumption == MaxBackups \in Nat /\ MaxFaults \in Nat

VARIABLES
  db,        \* the database: how much of it is built, and the records it holds
  web,       \* the website runs
  dumps,     \* the database dumps in backups/
  media,     \* the stamps of the media archives in backups/
  recorded,  \* the stamp last-backup.json names
  marker,    \* .restore-in-progress is there
  job,       \* the backup.sh each script runs
  restore, upgrade, sync,
  stamps,    \* the last stamp given
  since,     \* history: records saved after the safety backup's snapshot
  gone,      \* history: the records the restore under way dropped
  broken,    \* history: a restore left the database incomplete
  early,     \* history: who looked for the marker before it was there
  loose,     \* history: an early script started the website
  faults     \* what is left of the bound

site == <<db, web>>
files == <<dumps, media, recorded>>
history == <<since, gone, broken, early, loose>>
siteVars == <<site, files, marker, job, restore, upgrade, sync, stamps, history, faults>>

Owner == {"schedule", "restore", "upgrade"}
JobOff == [pc |-> "off", stamp |-> 0, state |-> "bare", rows |-> {}, stray |-> FALSE,
           alone |-> TRUE]
FirstDump == [stamp |-> 0, state |-> "whole", rows |-> {}, stray |-> FALSE]
RestoreOff == [pc |-> "off", file |-> FirstDump, named |-> 0]
UpgradeOff == [pc |-> "off", looked |-> {}, named |-> 0, skipped |-> FALSE]

Stamp == 0 .. MaxBackups
Built == {"bare", "tables", "whole"}
Dump == [stamp : Stamp, state : Built, rows : SUBSET Entry, stray : BOOLEAN]
Job == [pc : {"off", "dump", "dumping", "killed", "media", "record", "done"},
        stamp : Stamp, state : Built, rows : SUBSET Entry, stray : BOOLEAN, alone : BOOLEAN]
Restore == [pc : {"off", "safety", "stop", "drop", "load", "fill", "start", "wait"},
            file : Dump, named : Stamp]
Upgrade == [pc : {"off", "backup", "name", "build"}, looked : SUBSET Entry, named : Stamp,
            skipped : BOOLEAN]

SiteTypeOK ==
  /\ db \in [state : Built, rows : SUBSET Entry]
  /\ dumps \subseteq Dump
  /\ media \subseteq Stamp /\ recorded \in Stamp /\ stamps \in Stamp
  /\ job \in [Owner -> Job]
  /\ restore \in Restore
  /\ upgrade \in Upgrade
  /\ sync \in {"off", "passed"}
  /\ web \in BOOLEAN /\ marker \in BOOLEAN /\ broken \in BOOLEAN /\ loose \in BOOLEAN
  /\ since \subseteq Entry /\ gone \subseteq Entry
  /\ early \subseteq {"schedule", "upgrade", "sync"}
  /\ faults \in 0 .. MaxFaults

\* A site in use, with one good backup of the day before anything was saved.
SiteInit ==
  /\ db = [state |-> "whole", rows |-> {}]
  /\ web = TRUE
  /\ dumps = {FirstDump}
  /\ media = {0}
  /\ recorded = 0
  /\ marker = FALSE
  /\ job = [o \in Owner |-> JobOff]
  /\ restore = RestoreOff
  /\ upgrade = UpgradeOff
  /\ sync = "off"
  /\ stamps = 0
  /\ since = {} /\ gone = {}
  /\ broken = FALSE /\ early = {} /\ loose = FALSE
  /\ faults = MaxFaults

\* A record saved on the website.
Save(r) ==
  /\ web
  /\ db.state = "whole"
  /\ r \notin db.rows
  /\ db' = [db EXCEPT !.rows = @ \cup {r}]
  /\ since' = IF marker THEN since \cup {r} ELSE {}
  /\ UNCHANGED <<web, files, marker, job, restore, upgrade, sync, stamps, gone, broken,
                 early, loose, faults>>

-----------------------------------------------------------------------------
(* backup.sh *)

\* Whether the script that runs this backup has come to it.
Called(o) ==
  CASE o = "schedule" -> TRUE
    [] o = "restore" -> restore.pc = "safety"
    [] o = "upgrade" -> upgrade.pc = "backup"

StartNow(o) ==
  /\ stamps < MaxBackups \/ o = "restore"
  /\ stamps' = stamps + 1
  /\ job' = [p \in Owner |->
               IF p = o
               THEN [JobOff EXCEPT !.pc = "dump", !.stamp = stamps',
                                   !.alone = o = "schedule" \/
                                             \A q \in Owner : job[q].pc = "off"]
               ELSE [job[p] EXCEPT !.alone = p = "schedule" \/ (@ /\ job[p].pc = "off")]]
  /\ UNCHANGED <<site, files, marker, restore, upgrade, sync, history, faults>>

BeginUnmarked(o) == Called(o) /\ job[o].pc = "off" /\ StartNow(o)

\* The marker makes it skip, and skipping is no failure (exit 0).  A restore's own
\* safety backup ignores the marker.
BeginBackup(o) ==
  /\ Called(o)
  /\ job[o].pc = "off"
  /\ \/ (~marker \/ o = "restore") /\ StartNow(o)
     \/ /\ marker /\ o = "upgrade"
        /\ upgrade' = [upgrade EXCEPT !.pc = "name", !.skipped = TRUE]
        /\ UNCHANGED <<site, files, marker, job, restore, sync, stamps, history, faults>>

\* pg_dump reads the database as it is at its start.
DumpBegins(o) ==
  /\ job[o].pc = "dump"
  /\ job' = [job EXCEPT ![o].pc = "dumping", ![o].state = db.state,
                         ![o].rows = db.rows,
                         ![o].stray = o \in early \/ broken]
  /\ since' = IF o = "restore" THEN {} ELSE since
  /\ UNCHANGED <<site, files, marker, restore, upgrade, sync, stamps, gone, broken, early,
                 loose, faults>>

\* The dump lists no fewer tables than the database has now.
ListsEnough(o) == job[o].state # "bare" \/ db.state = "bare"

\* The dump is read back and takes its name.
ReadBack(o) ==
  /\ job[o].pc = "dumping"
  /\ ListsEnough(o)
  /\ dumps' = dumps \cup {[stamp |-> job[o].stamp, state |-> job[o].state,
                           rows |-> job[o].rows, stray |-> job[o].stray]}
  /\ job' = [job EXCEPT ![o].pc = "media", ![o].state = "bare", ![o].rows = {},
                         ![o].stray = FALSE]
  /\ UNCHANGED <<site, media, recorded, marker, restore, upgrade, sync, stamps, history,
                 faults>>

\* The uploaded files are read inside the web container.
ArchiveMedia(o) ==
  /\ job[o].pc = "media"
  /\ web
  /\ media' = media \cup {job[o].stamp}
  /\ job' = [job EXCEPT ![o].pc = "record"]
  /\ UNCHANGED <<site, dumps, recorded, marker, restore, upgrade, sync, stamps, history,
                 faults>>

\* Back to the script that called it, if one did.
Ends(o) == [job EXCEPT ![o] = IF o = "schedule" THEN JobOff
                                    ELSE [job[o] EXCEPT !.pc = "done"]]

\* prune: the newest Keep of the stamps stay.
OneFewer(S) == {s \in S : Cardinality({t \in S : t > s}) < Keep - 1}
Newest(S) == {s \in S : Cardinality({t \in S : t > s}) < Keep}

\* last-backup.json is written, then old files go.  A safety backup deletes none: the
\* file to restore may be the oldest kept.
KeepRecord(o) ==
  /\ job[o].pc = "record"
  /\ recorded' = job[o].stamp
  /\ IF o = "restore"
     THEN UNCHANGED <<dumps, media>>
     ELSE /\ dumps' = {d \in dumps : d.stamp \in Newest({e.stamp : e \in dumps})}
          /\ media' = Newest(media)
  /\ job' = Ends(o)
  /\ early' = early \ ({o} \cap {"schedule"})
  /\ UNCHANGED <<site, marker, restore, upgrade, sync, stamps, since, gone, broken, loose,
                 faults>>

\* The marker goes however a restore ends.
RestoreEnds ==
  /\ restore' = RestoreOff
  /\ marker' = FALSE
  /\ broken' = (db.state # "whole")
  /\ early' = {} /\ since' = {} /\ gone' = {} /\ loose' = FALSE

\* A step that cannot succeed, or fails for a reason of its own.
Cannot(o) ==
  \/ job[o].pc = "killed"
  \/ job[o].pc = "dumping" /\ ~ListsEnough(o)
  \/ job[o].pc = "media" /\ ~web

\* fail: the run's own files are removed.  The upgrade and the restore that called it
\* stop with nothing changed; the restore's marker goes with it.
BackupFails(o) ==
  /\ \/ Cannot(o) /\ UNCHANGED faults
     \/ /\ job[o].pc \in {"dump", "dumping", "media", "record"}
        /\ faults > 0 /\ faults' = faults - 1
  /\ dumps' = {d \in dumps : d.stamp # job[o].stamp}
  /\ media' = media \ {job[o].stamp}
  /\ job' = [job EXCEPT ![o] = JobOff]
  /\ IF o = "restore"
     THEN RestoreEnds
     ELSE /\ early' = early \ {o}
          /\ UNCHANGED <<marker, restore, since, gone, broken, loose>>
  /\ upgrade' = IF o = "upgrade" THEN UpgradeOff ELSE upgrade
  /\ UNCHANGED <<site, recorded, sync, stamps>>

-----------------------------------------------------------------------------
(* restore.sh *)

RestoreAt(pc) == restore.pc = pc
RestoreGoes(pc) == restore' = [restore EXCEPT !.pc = pc]

\* It refuses while a marker is there, and makes its own.
BeginRestore(d) ==
  /\ RestoreAt("off")
  /\ ~marker
  /\ stamps < MaxBackups
  /\ marker' = TRUE
  /\ restore' = [pc |-> "safety", file |-> d, named |-> 0]
  /\ early' = {o \in {"schedule"} : job[o].pc # "off"}
              \cup (IF upgrade.pc # "off" THEN {"upgrade"} ELSE {})
              \cup (IF sync # "off" THEN {"sync"} ELSE {})
  /\ upgrade' = [upgrade EXCEPT !.looked = {}]
  /\ UNCHANGED <<site, files, job, sync, stamps, since, gone, broken, loose, faults>>

Readable == restore.file \in dumps

\* The safety backup is named from last-backup.json, and the file to restore is
\* looked for again.
NameSafety ==
  /\ RestoreAt("safety")
  /\ job["restore"].pc = "done"
  /\ IF Readable
     THEN /\ restore' = [restore EXCEPT !.pc = "stop", !.named = recorded]
          /\ UNCHANGED <<marker, job, history>>
     ELSE RestoreEnds /\ job' = [job EXCEPT !["restore"] = JobOff]
  /\ UNCHANGED <<site, files, upgrade, sync, stamps, faults>>

StopWeb ==
  /\ RestoreAt("stop")
  /\ web' = FALSE
  /\ loose' = FALSE
  /\ RestoreGoes("drop")
  /\ UNCHANGED <<db, files, marker, job, upgrade, sync, stamps, since, gone, broken, early,
                 faults>>

\* Every other connection is ended, a dump's too, and an empty database is made.
DropDatabase ==
  /\ RestoreAt("drop")
  /\ gone' = db.rows
  /\ db' = [state |-> "bare", rows |-> {}]
  /\ job' = [o \in Owner |-> IF job[o].pc = "dumping" THEN [job[o] EXCEPT !.pc = "killed"]
                                                      ELSE job[o]]
  /\ RestoreGoes("load")
  /\ broken' = FALSE
  /\ UNCHANGED <<web, files, marker, upgrade, sync, stamps, since, early, loose, faults>>

\* pg_restore opens the file and makes the tables, which must not be there yet.
LoadTables ==
  /\ RestoreAt("load")
  /\ Readable
  /\ db.state = "bare"
  /\ db' = [db EXCEPT !.state = "tables"]
  /\ RestoreGoes("fill")
  /\ UNCHANGED <<web, files, marker, job, upgrade, sync, stamps, history, faults>>

\* pg_restore fills them with what the file holds.
LoadRows ==
  /\ RestoreAt("fill")
  /\ db' = [state |-> restore.file.state, rows |-> restore.file.rows]
  /\ broken' = (restore.file.state # "whole")
  /\ RestoreGoes("start")
  /\ UNCHANGED <<web, files, marker, job, upgrade, sync, stamps, since, gone, early, loose,
                 faults>>

\* The website's entrypoint migrates: in an empty database it makes the tables.
WebStarts ==
  /\ web' = TRUE
  /\ db' = IF db.state = "bare" THEN [db EXCEPT !.state = "tables"] ELSE db

StartWeb ==
  /\ RestoreAt("start")
  /\ WebStarts
  /\ RestoreGoes("wait")
  /\ UNCHANGED <<files, marker, job, upgrade, sync, stamps, history, faults>>

\* The website is healthy.
RestoreFinishes ==
  /\ RestoreAt("wait")
  /\ RestoreEnds
  /\ job' = [job EXCEPT !["restore"] = JobOff]
  /\ UNCHANGED <<site, files, upgrade, sync, stamps, faults>>

\* stopped: a command fails, of itself or because the file is gone or the tables are
\* there.
RestoreStops ==
  /\ \/ restore.pc \in {"stop", "drop", "load", "fill", "start", "wait"}
        /\ faults > 0 /\ faults' = faults - 1
     \/ RestoreAt("load") /\ ~(Readable /\ db.state = "bare") /\ UNCHANGED faults
  /\ RestoreEnds
  /\ job' = [job EXCEPT !["restore"] = JobOff]
  /\ UNCHANGED <<site, files, upgrade, sync, stamps>>

-----------------------------------------------------------------------------
(* upgrade.sh, run-sync.sh, the server and the people *)

\* It refuses while a marker is there.
UpgradeLooks ==
  /\ upgrade.pc = "off"
  /\ ~marker
  /\ stamps < MaxBackups
  /\ upgrade' = [UpgradeOff EXCEPT !.pc = "backup", !.looked = db.rows]
  /\ UNCHANGED <<site, files, marker, job, restore, sync, stamps, history, faults>>

\* The backup it may have to send people to is named from last-backup.json.
UpgradeNames ==
  /\ upgrade.pc \in {"backup", "name"}
  /\ job["upgrade"].pc = "done" \/ upgrade.skipped
  /\ upgrade' = [upgrade EXCEPT !.pc = "build", !.named = recorded]
  /\ UNCHANGED <<site, files, marker, job, restore, sync, stamps, history, faults>>

\* docker compose up --build, which may fail.
UpgradeEnds ==
  /\ upgrade' = UpgradeOff
  /\ job' = [job EXCEPT !["upgrade"] = JobOff]
  /\ early' = early \ {"upgrade"}

UpgradeBuilds ==
  /\ upgrade.pc = "build"
  /\ WebStarts
  /\ UpgradeEnds
  /\ loose' = (loose \/ "upgrade" \in early)
  /\ UNCHANGED <<files, marker, restore, sync, stamps, since, gone, broken, faults>>

UpgradeStops ==
  /\ upgrade.pc = "build"
  /\ faults > 0 /\ faults' = faults - 1
  /\ UpgradeEnds
  /\ UNCHANGED <<site, files, marker, restore, sync, stamps, since, gone, broken, loose>>

SyncLooks ==
  /\ sync = "off"
  /\ ~marker
  /\ sync' = "passed"
  /\ UNCHANGED <<site, files, marker, job, restore, upgrade, stamps, history, faults>>

\* docker compose up -d, which changes nothing where all runs.
SyncUps ==
  /\ sync = "passed"
  /\ sync' = "off"
  /\ IF web THEN UNCHANGED site ELSE WebStarts
  /\ loose' = (loose \/ (~web /\ "sync" \in early))
  /\ early' = early \ {"sync"}
  /\ UNCHANGED <<files, marker, job, restore, upgrade, stamps, since, gone, broken, faults>>

\* The server restarts: every script is gone, and no trap of theirs has run.  A
\* website that ran runs again, one that was stopped stays stopped.
Reboot ==
  /\ faults > 0 /\ faults' = faults - 1
  /\ job' = [o \in Owner |-> JobOff]
  /\ restore' = RestoreOff
  /\ upgrade' = UpgradeOff
  /\ sync' = "off"
  /\ early' = {} /\ since' = {} /\ gone' = {}
  /\ UNCHANGED <<site, files, marker, stamps, broken, loose>>

\* A person deletes the marker of a restore that was cut off.
DeleteMarker ==
  /\ marker
  /\ RestoreAt("off")
  /\ marker' = FALSE
  /\ broken' = (broken \/ db.state # "whole")
  /\ UNCHANGED <<site, files, job, restore, upgrade, sync, stamps, since, gone, early, loose, faults>>

BackupStep(o) ==
  \/ BeginBackup(o) \/ DumpBegins(o) \/ ReadBack(o) \/ ArchiveMedia(o) \/ KeepRecord(o)
  \/ BackupFails(o)

RestoreStep ==
  \/ \E d \in dumps : BeginRestore(d)
  \/ NameSafety \/ StopWeb \/ DropDatabase \/ LoadTables \/ LoadRows \/ StartWeb
  \/ RestoreFinishes \/ RestoreStops

SiteNext ==
  \/ \E r \in Entry : Save(r)
  \/ \E o \in Owner : BackupStep(o)
  \/ RestoreStep
  \/ UpgradeLooks \/ UpgradeNames \/ UpgradeBuilds \/ UpgradeStops
  \/ SyncLooks \/ SyncUps
  \/ Reboot \/ DeleteMarker

SiteSpec == SiteInit /\ [][SiteNext]_siteVars

-----------------------------------------------------------------------------
(* Properties *)

\* While a restore replaces the database nobody starts the website on it or keeps a
\* dump of it, half-built: only a script that had looked for the marker before it was
\* made can, and anyone can once a restore has failed, for the marker is gone then
\* and a half-built dump can be restored (restore.sh, backup.sh, run-sync.sh).
HalfBuiltLeftAlone ==
  /\ \A d \in dumps : d.state # "whole" => d.stray
  /\ web /\ db.state # "whole" => broken \/ loose

\* A backup somebody is told of is there.  last-backup.json names a dump and an
\* archive that are on disk; once a restore has dropped the records, the safety
\* backup holds each but those saved after its snapshot, and is the one the restore
\* names unless another backup was under way; the backup an upgrade names holds what
\* the site held when the upgrade began, with the same exception and unless a restore
\* began since (backup.sh, restore.sh, upgrade.sh).
ToldBackupsHold ==
  /\ recorded \in media /\ \E d \in dumps : d.stamp = recorded
  /\ restore.pc \in {"load", "fill", "start", "wait"} =>
       /\ \E d \in dumps : d.stamp = job["restore"].stamp /\ gone \subseteq d.rows \cup since
       /\ job["restore"].alone => restore.named = job["restore"].stamp
  /\ upgrade.pc = "build" /\ ~upgrade.skipped /\ job["upgrade"].alone =>
       \E d \in dumps : d.stamp = upgrade.named /\ upgrade.looked \subseteq d.rows
=============================================================================
