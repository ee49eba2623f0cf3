------------------------------- MODULE Backups -------------------------------
(***************************************************************************)
(* The backups of one tenant (services/backup_service.ts,                  *)
(* backup_retention_service.ts, commands/tenant_backups_run.ts and         *)
(* tenant_backup.ts, jobs/backup_tenant.ts): archives on disk and in S3,   *)
(* and the list of them, kept in Redis and in a sidecar file. Archives are *)
(* numbered in the order of their timestamps.                              *)
(***************************************************************************)
EXTENDS Naturals, Sequences, FiniteSets, SequencesExt

CONSTANTS
  Workers,    \* processes that back the tenant up
  Cap,        \* entries the list may have
  KeepLast,   \* keepLast of the tenant's tier
  MaxBackups, \* bound on the backups of a behaviour
  MaxFaults,  \* bound on failures
  NoList      \* no list is stored

ASSUME BackupsAssumption ==
  /\ IsFiniteSet(Workers)
  /\ NoList \notin Seq(1..MaxBackups)
  /\ Cap \in Nat \ {0}
  /\ KeepLast \in Nat
  /\ MaxBackups \in Nat
  /\ MaxFaults \in Nat

Files == 1..MaxBackups

VARIABLES
  made,    \* backups dumped
  disk,    \* the archives on disk
  s3,      \* the archives in S3
  redis,   \* the list in Redis
  sidecar, \* the list in backup.json
  worker,  \* what each worker does
  saved,   \* history: archives whose metadata has been saved
  faults,  \* history: failures
  kept,    \* history: every write of the list succeeded, and none fell between
           \* another worker's read and its write
  strayed  \* history: archives deleted from S3 while their upload was under way

vars == <<made, disk, s3, redis, sidecar, worker, saved, faults, kept, strayed>>

Steps == {"idle", "load", "save", "upload", "put", "plan",
          "unlink", "deleteS3", "reload", "remove"}

\* file: the archive at hand; list: the list it is about to write; purge: the
\* archives the sweep has yet to delete, the one at hand among them.
WorkerStates == [step : Steps, file : 0..MaxBackups, list : Seq(Files), purge : SUBSET Files]

TypeOK ==
  /\ made \in 0..MaxBackups
  /\ disk \in [Files -> {"none", "partial", "whole"}]
  /\ s3 \subseteq Files
  /\ \A list \in {redis, sidecar} \ {NoList} : list \in Seq(Files) /\ Len(list) <= Cap
  /\ worker \in [Workers -> WorkerStates]
  /\ saved \subseteq Files
  /\ faults \in 0..MaxFaults
  /\ kept \in BOOLEAN
  /\ strayed \subseteq saved

Idle == [step |-> "idle", file |-> 0, list |-> <<>>, purge |-> {}]

Init ==
  /\ made = 0
  /\ disk = [f \in Files |-> "none"]
  /\ s3 = {}
  /\ redis = NoList
  /\ sidecar = NoList
  /\ worker = [w \in Workers |-> Idle]
  /\ saved = {}
  /\ faults = 0
  /\ kept = TRUE
  /\ strayed = {}

-----------------------------------------------------------------------------
(* The list.                                                               *)

\* #loadMetadata reads Redis, and the sidecar when Redis has no list.
Listed == IF redis # NoList THEN redis
          ELSE IF sidecar # NoList THEN sidecar ELSE <<>>

\* The list without an archive: each is listed once.
Without(list, f) ==
  IF f \in ToSet(list) THEN RemoveAt(list, CHOOSE i \in DOMAIN list : list[i] = f) ELSE list

Newest(n, list) == SubSeq(list, 1, IF Len(list) < n THEN Len(list) ELSE n)

\* The workers that have read the list to write it.
Writing == {w \in Workers : worker[w].step \in {"save", "remove"}}

\* #persistMetadata writes both at once; each may fail by itself, and is ignored.
Persist(list) ==
  \E failed \in SUBSET {"redis", "sidecar"} :
    /\ failed # {} => faults < MaxFaults
    /\ kept' = (kept /\ failed = {} /\ Cardinality(Writing) = 1)
    /\ faults' = IF failed = {} THEN faults ELSE faults + 1
    /\ redis' = IF "redis" \in failed THEN redis ELSE list
    /\ sidecar' = IF "sidecar" \in failed THEN sidecar ELSE list

-----------------------------------------------------------------------------
(* backup.                                                                 *)

Go(w, step) == worker' = [worker EXCEPT ![w].step = step]

\* pg_dump has written the archive, or part of it; the time of the next step is
\* its timestamp. Until then the backup shares no state.
Dump(w) ==
  /\ worker[w].step = "idle"
  /\ made < MaxBackups
  /\ made' = made + 1
  /\ \/ /\ disk' = [disk EXCEPT ![made + 1] = "whole"]
        /\ worker' = [worker EXCEPT ![w] = [Idle EXCEPT !.step = "load", !.file = made + 1]]
        /\ faults' = faults
     \/ /\ faults < MaxFaults
        /\ disk' = [disk EXCEPT ![made + 1] = "partial"]
        /\ faults' = faults + 1
        /\ UNCHANGED worker
  /\ UNCHANGED <<s3, redis, sidecar, saved, kept, strayed>>

\* Variant of LoadForSave: the new entry goes last, and is what the cap cuts off.
LoadForSaveAppending(w) ==
  /\ worker[w].step = "load"
  /\ worker' = [worker EXCEPT ![w].step = "save",
                              ![w].list = Newest(Cap, Append(Listed, worker[w].file))]
  /\ UNCHANGED <<made, disk, s3, redis, sidecar, saved, faults, kept, strayed>>

\* #saveMetadata puts the new entry first and caps the list.
LoadForSave(w) ==
  /\ worker[w].step = "load"
  /\ worker' = [worker EXCEPT ![w].step = "save",
                              ![w].list = Newest(Cap, <<worker[w].file>> \o Listed)]
  /\ UNCHANGED <<made, disk, s3, redis, sidecar, saved, faults, kept, strayed>>

Save(w) ==
  /\ worker[w].step = "save"
  /\ Persist(worker[w].list)
  /\ saved' = saved \cup {worker[w].file}
  /\ Go(w, "upload")
  /\ UNCHANGED <<made, disk, s3, strayed>>

\* The upload opens the archive, and throws if a sweep has deleted it.
Upload(w) ==
  /\ worker[w].step = "upload"
  /\ IF disk[worker[w].file] = "whole"
     THEN Go(w, "put")
     ELSE worker' = [worker EXCEPT ![w] = Idle]
  /\ UNCHANGED <<made, disk, s3, redis, sidecar, saved, faults, kept, strayed>>

\* The archive arrives in S3, whatever became of it since it was opened. What follows is
\* tenant:backups:run's sweep, or nothing: with --no-retention, and for tenant:backup and
\* the BackupTenant job.
Arrive(w) ==
  /\ worker[w].step = "put"
  /\ s3' = s3 \cup {worker[w].file}
  /\ Go(w, "plan") \/ worker' = [worker EXCEPT ![w] = Idle]
  /\ UNCHANGED <<made, disk, redis, sidecar, saved, faults, kept, strayed>>

-----------------------------------------------------------------------------
(* The retention sweep.                                                    *)

\* The n newest archives of a set.
NewestOf(n, files) == {f \in files : Cardinality({g \in files : g > f}) < n}

\* planRetention: everything beyond the KeepLast newest goes.
Purged(files) == files \ NewestOf(KeepLast, files)

Plan(w) ==
  LET purged == Purged(ToSet(Listed)) IN
  /\ worker[w].step = "plan"
  /\ worker' = [worker EXCEPT ![w] = [Idle EXCEPT !.step = IF purged = {} THEN "idle" ELSE "unlink",
                                                 !.purge = purged]]
  /\ UNCHANGED <<made, disk, s3, redis, sidecar, saved, faults, kept, strayed>>

\* deleteBackup, the newest first: a failure to unlink, or to delete from S3, is ignored.
Unlink(w) ==
  /\ worker[w].step = "unlink"
  /\ \E f \in worker[w].purge :
       /\ \A g \in worker[w].purge : g <= f
       /\ \/ disk' = [disk EXCEPT ![f] = "none"] /\ faults' = faults
          \/ faults < MaxFaults /\ faults' = faults + 1 /\ disk' = disk
       /\ worker' = [worker EXCEPT ![w].step = "deleteS3", ![w].file = f]
  /\ UNCHANGED <<made, s3, redis, sidecar, saved, kept, strayed>>

\* The archives on their way to S3.
Arriving == {worker[w].file : w \in {v \in Workers : worker[v].step = "put"}}

\* Variant of DeleteFromS3: archives stay in S3.
KeepInS3(w) ==
  /\ worker[w].step = "deleteS3"
  /\ Go(w, "reload")
  /\ UNCHANGED <<made, disk, s3, redis, sidecar, saved, faults, kept, strayed>>

DeleteFromS3(w) ==
  /\ worker[w].step = "deleteS3"
  /\ \/ s3' = s3 \ {worker[w].file} /\ faults' = faults
     \/ faults < MaxFaults /\ faults' = faults + 1 /\ s3' = s3
  /\ strayed' = strayed \cup (Arriving \cap {worker[w].file})
  /\ Go(w, "reload")
  /\ UNCHANGED <<made, disk, redis, sidecar, saved, kept>>

LoadForRemove(w) ==
  /\ worker[w].step = "reload"
  /\ worker' = [worker EXCEPT ![w].step = "remove",
                              ![w].list = Without(Listed, worker[w].file)]
  /\ UNCHANGED <<made, disk, s3, redis, sidecar, saved, faults, kept, strayed>>

RemoveEntry(w) ==
  /\ worker[w].step = "remove"
  /\ Persist(worker[w].list)
  /\ worker' = [worker EXCEPT ![w] =
                  [Idle EXCEPT !.step = IF worker[w].purge = {worker[w].file} THEN "idle" ELSE "unlink",
                               !.purge = worker[w].purge \ {worker[w].file}]]
  /\ UNCHANGED <<made, disk, s3, saved, strayed>>

-----------------------------------------------------------------------------
(* Failures and time.                                                      *)

\* The upload fails and the command goes on to the next tenant, or the process
\* dies: what it was doing stays half done.
Fail(w) ==
  /\ faults < MaxFaults
  /\ worker[w].step # "idle"
  /\ worker' = [worker EXCEPT ![w] = Idle]
  /\ faults' = faults + 1
  /\ UNCHANGED <<made, disk, s3, redis, sidecar, saved, kept, strayed>>

\* metadataTtl passes.
ListExpires ==
  /\ redis # NoList
  /\ redis' = NoList
  /\ UNCHANGED <<made, disk, s3, sidecar, worker, saved, faults, kept, strayed>>

Next ==
  \/ \E w \in Workers :
       \/ Dump(w) \/ LoadForSave(w) \/ Save(w) \/ Upload(w) \/ Arrive(w)
       \/ Plan(w) \/ Unlink(w) \/ DeleteFromS3(w) \/ LoadForRemove(w) \/ RemoveEntry(w)
       \/ Fail(w)
  \/ ListExpires

Spec == Init /\ [][Next]_vars

-----------------------------------------------------------------------------
(* Properties.                                                             *)

\* The tier's keepLast (README): the KeepLast newest
\* backups that were saved are listed, and so can be found and restored.
RecentAreListed == NewestOf(KeepLast, saved) \subseteq ToSet(Listed)

\* The KeepLast newest of the listed backups are whole on disk: a sweep deletes
\* others, and a dump that failed is not listed. Both hold while the list can be
\* written.
RecentAreOnDisk == \A f \in NewestOf(KeepLast, ToSet(Listed)) : disk[f] = "whole"

RecentAreKept == kept => RecentAreListed /\ RecentAreOnDisk

\* The archives some worker is about to list, to upload or to delete.
AtHand == UNION {{worker[w].file} \cup worker[w].purge : w \in Workers}

\* Nothing deletes an archive the list does not name: it is gone, or only S3 has it, whose
\* upload ended after the sweep had deleted it there.
Gone(f) == disk[f] = "none" /\ (f \in s3 => f \in strayed)

\* The list was full when the archive was cut off it: all it kept was newer, but for what
\* the other workers listed late.
OutOfRoom(f) == Cardinality({g \in saved : g > f}) + Cardinality(Workers) > Cap

\* Retention is best-effort, but "the next run will retry" a deletion that failed
\* (backup_retention_service.ts:96), which holds of what is listed. Without failures, and
\* with no two writes of the list crossing, an archive that was saved and is not listed
\* any more is gone, unless about Cap newer ones were saved: backups that no sweep
\* follows fill the list, and its cut deletes nothing.
OnlyFaultsOrphan ==
  kept /\ faults = 0 =>
    \A f \in saved \ (ToSet(Listed) \cup AtHand) : Gone(f) \/ OutOfRoom(f)
=============================================================================
