------------------------------- MODULE Restores -------------------------------
(***************************************************************************)
(* The restore of a tenant from one of its archives                        *)
(* (services/backup_service.ts, jobs/restore_tenant.ts, commands/          *)
(* tenant_restore.ts), with S3 enabled: the job downloads the archive when *)
(* it is not on disk and runs pg_restore, which is not one transaction.    *)
(***************************************************************************)
EXTENDS Naturals

CONSTANTS
  RestoreJobs,        \* deliveries of the job
  MaxRestoreAttempts, \* attempts the queue gives a delivery
  MaxRestoreFaults    \* bound on failures

ASSUME RestoresAssumption == MaxRestoreAttempts \in Nat

VARIABLES
  archive,       \* the file on disk: none, partial or whole
  mirrored,      \* whether S3 has the archive
  content,       \* the schema: before the restore, restored, or in between
  restorer,      \* what each delivery does
  restoreFaults, \* history: failures
  broken,        \* history: a download broke off
  swept          \* history: the retention sweep deleted the archive

restoreVars == <<archive, mirrored, content, restorer, restoreFaults, broken, swept>>

RestoreSteps == {"waiting", "find", "download", "drop", "load", "announce", "succeeded", "failed"}

\* left: attempts left; tries: attempts made; opened: the file when pg_restore opened it;
\* alone: no other pg_restore was running when its own began, and none has begun since.
RestoreInit ==
  /\ archive \in {"none", "whole"}
  /\ mirrored \in {m \in BOOLEAN : m \/ archive = "whole"}
  /\ content = "before"
  /\ restorer = [j \in RestoreJobs |-> [step |-> "waiting", left |-> MaxRestoreAttempts,
                                          tries |-> 0, opened |-> "none", alone |-> TRUE]]
  /\ restoreFaults = 0
  /\ broken = FALSE
  /\ swept = FALSE

Proceed(j, step) == restorer' = [restorer EXCEPT ![j].step = step]

RestoreFault == restoreFaults < MaxRestoreFaults /\ restoreFaults' = restoreFaults + 1

\* The queue tries again while attempts are left; the command has only one.
GiveUp(j) == Proceed(j, IF restorer[j].left > 0 THEN "waiting" ELSE "failed")

StartRestore(j) ==
  /\ restorer[j].step = "waiting"
  /\ restorer' = [restorer EXCEPT ![j].step = "find", ![j].left = @ - 1, ![j].tries = @ + 1]
  /\ UNCHANGED <<archive, mirrored, content, restoreFaults, broken, swept>>

\* tenant:restore asks, and restores by itself.
StartRestoreCommand(j) ==
  /\ restorer[j].step = "waiting" /\ restorer[j].tries = 0
  /\ restorer' = [restorer EXCEPT ![j].step = "find", ![j].left = 0, ![j].tries = 1]
  /\ UNCHANGED <<archive, mirrored, content, restoreFaults, broken, swept>>

\* A before-hook throws.
HookThrows(j) ==
  /\ restorer[j].step = "find"
  /\ RestoreFault
  /\ GiveUp(j)
  /\ UNCHANGED <<archive, mirrored, content, broken, swept>>

\* stat tells only whether the file exists, not whether it is whole.
FindArchive(j) ==
  /\ restorer[j].step = "find"
  /\ IF archive # "none" THEN Proceed(j, "drop") /\ UNCHANGED archive
     ELSE IF mirrored THEN Proceed(j, "download") /\ archive' = "partial"
     ELSE GiveUp(j) /\ UNCHANGED archive
  /\ UNCHANGED <<mirrored, content, restoreFaults, broken, swept>>

\* The stream ends, or breaks off and leaves what it has written.
Download(j) ==
  /\ restorer[j].step = "download"
  /\ \/ archive' = "whole" /\ Proceed(j, "drop") /\ UNCHANGED <<restoreFaults, broken, swept>>
     \/ RestoreFault /\ broken' = TRUE /\ GiveUp(j) /\ UNCHANGED archive
  /\ UNCHANGED <<mirrored, content, swept>>

Loading(j) == restorer[j].step = "load"

\* pg_restore --clean drops the objects of the schema, then creates and loads them.
DropObjects(j) ==
  /\ restorer[j].step = "drop"
  /\ archive # "none"
  /\ content' = "between"
  /\ restorer' = [i \in RestoreJobs |->
       IF i = j THEN [restorer[j] EXCEPT !.step = "load", !.opened = archive,
                                         !.alone = \A k \in RestoreJobs \ {j} : ~Loading(k)]
       ELSE [restorer[i] EXCEPT !.alone = FALSE]]
  /\ UNCHANGED <<archive, mirrored, restoreFaults, broken, swept>>

\* The file is gone: pg_restore does not begin.
MissArchive(j) ==
  /\ restorer[j].step = "drop"
  /\ archive = "none"
  /\ GiveUp(j)
  /\ UNCHANGED <<archive, mirrored, content, restoreFaults, broken, swept>>

\* Two pg_restore on the same objects drop and create them under each other: either may
\* end with an exit code of 0 or another, and leave the schema restored or in between.
Collide(j) ==
  /\ Loading(j) /\ ~restorer[j].alone
  /\ content' \in {"between", "restored"}
  /\ GiveUp(j) \/ Proceed(j, "announce")
  /\ UNCHANGED <<archive, mirrored, restoreFaults, broken, swept>>

\* Variant of LoadObjects: the exit code is not looked at.
LoadAnyway(j) ==
  /\ Loading(j) /\ restorer[j].alone
  /\ content' = IF restorer[j].opened = "whole" THEN "restored" ELSE content
  /\ Proceed(j, "announce")
  /\ UNCHANGED <<archive, mirrored, restoreFaults, broken, swept>>

\* An archive that ends too early, or a failure, gives an exit code that rejects, and
\* leaves the schema as it is by then.
LoadObjects(j) ==
  /\ Loading(j) /\ restorer[j].alone
  /\ \/ /\ restorer[j].opened = "whole"
        /\ content' = "restored"
        /\ Proceed(j, "announce")
        /\ UNCHANGED restoreFaults
     \/ /\ restorer[j].opened # "whole"
        /\ GiveUp(j)
        /\ UNCHANGED <<content, restoreFaults>>
     \/ RestoreFault /\ GiveUp(j) /\ UNCHANGED content
  /\ UNCHANGED <<archive, mirrored, broken, swept>>

\* The after-hooks are logged; a listener of TenantRestored fails the job.
AnnounceRestore(j) ==
  /\ restorer[j].step = "announce"
  /\ \/ Proceed(j, "succeeded") /\ UNCHANGED restoreFaults
     \/ RestoreFault /\ GiveUp(j)
  /\ UNCHANGED <<archive, mirrored, content, broken, swept>>

\* The retention sweep unlinks the archive and deletes its mirror, if it can.
SweepArchive ==
  /\ archive # "none"
  /\ archive' = "none"
  /\ mirrored' \in {mirrored, FALSE}
  /\ swept' = TRUE
  /\ UNCHANGED <<content, restorer, restoreFaults, broken>>

RestoreNext ==
  \/ \E j \in RestoreJobs :
       \/ StartRestore(j) \/ StartRestoreCommand(j) \/ HookThrows(j) \/ FindArchive(j) \/ Download(j)
       \/ DropObjects(j) \/ MissArchive(j) \/ LoadObjects(j) \/ Collide(j) \/ AnnounceRestore(j)
  \/ SweepArchive

RestoreSpec == RestoreInit /\ [][RestoreNext]_restoreVars

-----------------------------------------------------------------------------
(* Properties.                                                             *)

\* A restore that succeeds has restored the whole archive, unless another pg_restore was
\* running when its own began, or has begun since.
SuccessMeansRestored ==
  (\E j \in RestoreJobs : restorer[j].step = "succeeded" /\ restorer[j].alone) => content = "restored"

\* A job gives up only after a failure in each of its attempts, unless the archive is
\* swept, another restore runs on the schema, or a download broke off: the rest of
\* the file stays on disk and is found there by every later attempt.
OnlyBrokenDownloadsPoison ==
  \A j \in RestoreJobs :
    /\ restorer[j].step = "failed"
    /\ ~swept /\ ~broken
    /\ \A i \in RestoreJobs \ {j} : restorer[i].tries = 0
    => restoreFaults >= restorer[j].tries

\* What the two ends of a restore job mean.
RestoreEndsMean == SuccessMeansRestored /\ OnlyBrokenDownloadsPoison
=============================================================================
