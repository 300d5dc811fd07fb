-------------------------------- MODULE Backup ---------------------------------
(***************************************************************************)
(* The nightly backup (docker/backup.sh), running while attachments are    *)
(* uploaded and removed, and the health report the application shows of it *)
(* (system.controller.ts).                                                 *)
(*                                                                         *)
(* pg_dump reads one snapshot of the rows; tar reads the files one after   *)
(* the other.  The script runs under set -e: a command outside a condition *)
(* that fails ends it where it stands.                                     *)
(***************************************************************************)
EXTENDS AttachmentStore, Naturals, Sequences

CONSTANTS Keep,      \* nights an archive is kept (30 in the script)
          LastNight  \* bound

VARIABLES
  pc,       \* the statement the script is at
  night,    \* the night of the latest run, which stamps its two archives
  status,   \* STATUS
  dumps,    \* local ledger-hq-*.dump.age: [night, content, whole]
  archives, \* local ledger-hq-*.files.tar.age, likewise
  remote,   \* <<kind, night>> of what rclone copied
  unread,   \* what tar has still to read
  health,   \* SystemHealth: [night, status], oldest first
  failed    \* the nights on which something failed (for the properties only)

backupVars == <<storeVars, pc, night, status, dumps, archives, remote, unread, health, failed>>

Archive(content, whole) == [night |-> night, content |-> content, whole |-> whole]

BackupInit ==
  /\ StoreInit
  /\ pc = "asleep" /\ night = 0 /\ status = "OK"
  /\ dumps = {} /\ archives = {} /\ remote = {} /\ unread = {} /\ health = <<>> /\ failed = {}

Fail == status' = "FAILED" /\ failed' = failed \cup {night}
Goto(next) == pc' = next

\* cron: the next night begins when the script of the last one is over.
Start ==
  /\ pc = "asleep" /\ night < LastNight
  /\ night' = night + 1 /\ status' = "OK" /\ Goto("dump")
  /\ UNCHANGED <<storeVars, dumps, archives, remote, unread, health, failed>>

\* pg_dump | age: the archive is there from its first byte on, whole at the end.
StartDump ==
  /\ pc = "dump" /\ Goto("dumping")
  /\ dumps' = dumps \cup {Archive(rows, FALSE)}
  /\ UNCHANGED <<storeVars, night, status, archives, remote, unread, health, failed>>

Tonight(a) == a.night = night

\* Variant: the old dumps are pruned although tonight's failed.
EndDumpAndPrune ==
  /\ pc = "dumping" /\ Goto("prune dumps")
  /\ \/ dumps' = {[d EXCEPT !.whole = @ \/ Tonight(d)] : d \in dumps} /\ UNCHANGED <<status, failed>>
     \/ dumps' = {d \in dumps : ~Tonight(d)} /\ Fail
  /\ UNCHANGED <<storeVars, night, archives, remote, unread, health>>

EndDump ==
  /\ pc = "dumping"
  /\ \/ /\ dumps' = {[d EXCEPT !.whole = @ \/ Tonight(d)] : d \in dumps}
        /\ Goto("prune dumps") /\ UNCHANGED <<status, failed>>
     \/ dumps' = {d \in dumps : ~Tonight(d)} /\ Goto("tar") /\ Fail
  /\ UNCHANGED <<storeVars, night, archives, remote, unread, health>>

\* find -mtime +30 -delete, on a night whose dump succeeded.
Recent(all) == {a \in all : a.night + Keep >= night}

PruneDumps ==
  /\ pc = "prune dumps" /\ Goto("copy dump")
  /\ dumps' = Recent(dumps)
  /\ UNCHANGED <<storeVars, night, status, archives, remote, unread, health, failed>>

\* Variant: without || STATUS="FAILED" after rclone.
CopyUnwatched(kind, from, next) ==
  /\ pc = from /\ Goto(next)
  /\ \/ remote' = remote \cup {<<kind, night>>}
     \/ UNCHANGED remote
  /\ UNCHANGED <<storeVars, night, status, failed, dumps, archives, unread, health>>

Copy(kind, from, next) ==
  /\ pc = from /\ Goto(next)
  /\ \/ remote' = remote \cup {<<kind, night>>} /\ UNCHANGED <<status, failed>>
     \/ Fail /\ UNCHANGED remote
  /\ UNCHANGED <<storeVars, night, dumps, archives, unread, health>>

CopyDump  == Copy("dump", "copy dump", "tar")
CopyFiles == Copy("files", "copy files", "record")

\* tar | age: the directory as it is listed, then a file at a time, if it is still there.
StartTar ==
  /\ pc = "tar" /\ Goto("taring")
  /\ archives' = archives \cup {Archive({}, FALSE)}
  /\ unread' = files
  /\ UNCHANGED <<storeVars, night, status, dumps, remote, health, failed>>

ReadFile(a) ==
  /\ pc = "taring" /\ a \in unread
  /\ unread' = unread \ {a}
  /\ archives' = {[x EXCEPT !.content = IF Tonight(x) THEN @ \cup ({a} \cap files) ELSE @] : x \in archives}
  /\ UNCHANGED <<storeVars, pc, night, status, dumps, remote, health, failed>>

\* Variant: without pipefail, a tar that stops half way looks like one that ended.
EndTarAnywhere ==
  /\ pc = "taring" /\ Goto("prune files")
  /\ archives' = {[x EXCEPT !.whole = @ \/ Tonight(x)] : x \in archives}
  /\ unread' = {}
  /\ UNCHANGED <<storeVars, night, status, failed, dumps, remote, health>>

EndTar ==
  /\ pc = "taring"
  /\ \/ /\ unread = {} /\ Goto("prune files")
        /\ archives' = {[x EXCEPT !.whole = @ \/ Tonight(x)] : x \in archives}
        /\ UNCHANGED <<status, failed>>
     \/ archives' = {x \in archives : ~Tonight(x)} /\ Goto("record") /\ Fail
  /\ unread' = {}
  /\ UNCHANGED <<storeVars, night, dumps, remote, health>>

PruneFiles ==
  /\ pc = "prune files" /\ Goto("copy files")
  /\ archives' = Recent(archives)
  /\ UNCHANGED <<storeVars, night, status, dumps, remote, unread, health, failed>>

\* The INSERT into SystemHealth.
Record ==
  /\ pc = "record" /\ Goto("asleep")
  /\ health' = Append(health, [night |-> night, status |-> status])
  /\ UNCHANGED <<storeVars, night, status, dumps, archives, remote, unread, failed>>

\* set -e at a find or at the INSERT that fails, a lost host: the script ends here.
Die ==
  /\ pc \in {"dumping", "prune dumps", "taring", "prune files", "record"} /\ Goto("asleep")
  /\ failed' = failed \cup {night}
  /\ unread' = {}
  /\ UNCHANGED <<storeVars, night, status, dumps, archives, remote, health>>

\* The application meanwhile.
Application ==
  /\ StoreNext
  /\ UNCHANGED <<pc, night, status, dumps, archives, remote, unread, health, failed>>

BackupNext ==
  \/ Start \/ StartDump \/ EndDump \/ PruneDumps \/ CopyDump
  \/ StartTar \/ (\E a \in Attachment : ReadFile(a)) \/ EndTar \/ PruneFiles \/ CopyFiles
  \/ Record \/ Die \/ Application

BackupSpec == BackupInit /\ [][BackupNext]_backupVars

-------------------------------------------------------------------------------
(* healthReport *)

\* Variant: ordered by runAt, ascending.
Earliest == health[1]

Latest == health[Len(health)]
\* The run of failures that ends the history (the controller looks 30 back).
ConsecutiveFailures ==
  Len(health) - (CHOOSE n \in 0..Len(health) :
                   /\ n > 0 => health[n].status # "FAILED"
                   /\ \A i \in (n + 1)..Len(health) : health[i].status = "FAILED")

ReportOK == Len(health) > 0 /\ Latest.status = "OK"

-------------------------------------------------------------------------------
(* Properties *)

BackupTypeOK ==
  /\ ListedIsStored
  /\ \A a \in dumps \cup archives : a.night \in 1..night /\ a.content \subseteq Attachment
  /\ \A i \in DOMAIN health : health[i].status \in {"OK", "FAILED"}
  /\ ConsecutiveFailures = 0 => Len(health) = 0 \/ ReportOK

\* However many nights fail, and however old the archives get, the pruning never takes the last
\* dump that can be restored, nor the last archive of the files.
AnArchiveIsKept ==
  [][/\ (\E d \in dumps : d.whole) => \E d \in dumps' : d.whole
     /\ (\E x \in archives : x.whole) => \E x \in archives' : x.whole]_backupVars

\* When the report says OK, that night's two archives are on the remote, and here too while they
\* are not old; a failure of either half is not covered by the success of the other.
OkMeansBothCopied ==
  ReportOK =>
    /\ {<<"dump", Latest.night>>, <<"files", Latest.night>>} \subseteq remote
    /\ Latest.night + Keep >= night =>
         /\ \E d \in dumps : d.whole /\ d.night = Latest.night
         /\ \E x \in archives : x.whole /\ x.night = Latest.night

\* A document that is listed from before the dump until the end is in both archives of the night,
\* whatever is uploaded and removed around it while tar reads.
UndisturbedIsWhole ==
  \A d \in dumps, x \in archives :
    d.night = night /\ x.night = night /\ d.whole /\ x.whole
      => d.content \cap rows \subseteq x.content

\* backup.sh:36: the two artifacts share a stamp "on purpose", since only different stamps
\* "describe different moments" and produce orphan rows when restored.
PairDescribesOneMoment ==
  \A d \in dumps, x \in archives : d.night = x.night /\ d.whole /\ x.whole => d.content \subseteq x.content

\* backup.sh:2: the script records its own outcome "so the application can show a failing backup
\* instead of failing silently".
FailureIsShown == pc = "asleep" /\ night \in failed => ~ReportOK
===============================================================================
