------------------------------ MODULE DataProofs ------------------------------
(***************************************************************************)
(* Proofs about what moves and changes a tenant's data: Restores, Cloning, *)
(* Batches, Backups, SqlImport and SqlSplitter, for all values of their    *)
(* constants and all inputs.                                               *)
(***************************************************************************)
EXTENDS Restores, Cloning, Batches, Backups, SqlImport, SqlSplitter, Integers,
        SequenceTheorems, FiniteSetTheorems, WellFoundedInduction, TLAPS

-----------------------------------------------------------------------------
(***************************************************************************)
(* Restores, for any deliveries, attempts and faults.                      *)
(***************************************************************************)

RestorerType == [step : RestoreSteps, left : Int, tries : Nat,
                 opened : {"none", "partial", "whole"}, alone : BOOLEAN]

RestoreTypes ==
  /\ archive \in {"none", "partial", "whole"}
  /\ mirrored \in BOOLEAN /\ broken \in BOOLEAN /\ swept \in BOOLEAN
  /\ restorer \in [RestoreJobs -> RestorerType]
  /\ restoreFaults \in Nat

\* No other pg_restore runs beside one that is marked alone, and one that has loaded the
\* archive, alone, has left the schema restored.
OneLoadInv ==
  \A j \in RestoreJobs :
    restorer[j].step \in {"load", "announce", "succeeded"} /\ restorer[j].alone =>
      \A i \in RestoreJobs \ {j} : ~Loading(i)

LoadedInv ==
  \A j \in RestoreJobs :
    restorer[j].step \in {"announce", "succeeded"} /\ restorer[j].alone => content = "restored"

\* No delivery but j has begun, no download broke off and nothing was swept.
Undisturbed(j) ==
  /\ ~swept /\ ~broken
  /\ \A i \in RestoreJobs \ {j} : restorer[i].tries = 0

\* A delivery that nothing disturbs finds an archive that is whole, or is to download one;
\* and all its attempts but the one it is in have met a failure.
UndisturbedInv(j) ==
  /\ restorer[j].tries = 0 => restorer[j].step = "waiting"
  /\ Undisturbed(j) =>
       /\ archive = "partial" <=> restorer[j].step = "download"
       /\ archive = "none" => mirrored /\ restorer[j].step \in {"waiting", "find", "failed"}
       /\ restorer[j].step = "load" => restorer[j].alone /\ restorer[j].opened = "whole"
       /\ restoreFaults + 1 >= restorer[j].tries
       /\ restorer[j].step \in {"waiting", "failed"} => restoreFaults >= restorer[j].tries

RestoreInv ==
  /\ RestoreTypes
  /\ OneLoadInv
  /\ LoadedInv
  /\ \A j \in RestoreJobs : UndisturbedInv(j)

\* What a delivery is when it goes to another step.
LEMMA Proceeds ==
  ASSUME RestoreTypes, NEW j \in RestoreJobs, NEW step \in RestoreSteps, Proceed(j, step)
  PROVE  /\ restorer' \in [RestoreJobs -> RestorerType]
         /\ restorer'[j].step = step /\ restorer'[j].tries = restorer[j].tries
         /\ restorer'[j].alone = restorer[j].alone /\ restorer'[j].opened = restorer[j].opened
         /\ \A i \in RestoreJobs \ {j} : restorer'[i] = restorer[i]
<1> DEFINE new == [restorer[j] EXCEPT !.step = step]
<1>1. /\ new \in RestorerType /\ new.step = step /\ new.tries = restorer[j].tries
      /\ new.alone = restorer[j].alone /\ new.opened = restorer[j].opened
  BY DEF RestoreTypes, RestorerType
<1>2. restorer' = [restorer EXCEPT ![j] = new]
  BY DEF Proceed
<1> HIDE DEF new
<1> QED
  BY <1>1, <1>2 DEF RestoreTypes

LEMMA GivesUp ==
  ASSUME RestoreTypes, NEW j \in RestoreJobs, GiveUp(j)
  PROVE  /\ restorer' \in [RestoreJobs -> RestorerType]
         /\ restorer'[j].step \in {"waiting", "failed"} /\ restorer'[j].tries = restorer[j].tries
         /\ restorer'[j].alone = restorer[j].alone /\ restorer'[j].opened = restorer[j].opened
         /\ \A i \in RestoreJobs \ {j} : restorer'[i] = restorer[i]
<1> DEFINE step == IF restorer[j].left > 0 THEN "waiting" ELSE "failed"
<1>1. step \in {"waiting", "failed"} /\ step \in RestoreSteps /\ Proceed(j, step)
  BY DEF GiveUp, RestoreSteps
<1> HIDE DEF step
<1> QED
  BY <1>1, Proceeds

\* A step of a delivery disturbs all the others.
LEMMA OthersDisturbed ==
  ASSUME RestoreInv, NEW j \in RestoreJobs, NEW i \in RestoreJobs \ {j},
         restorer'[i] = restorer[i], restorer'[j].tries # 0
  PROVE  UndisturbedInv(i)'
BY DEF RestoreInv, UndisturbedInv, Undisturbed

\* The delivery that is beyond its start, which is then not the only one for the others.
LEMMA Begun ==
  ASSUME RestoreInv, NEW j \in RestoreJobs, restorer[j].step # "waiting"
  PROVE  restorer[j].tries # 0
BY DEF RestoreInv, UndisturbedInv

LEMMA StartsRestore ==
  ASSUME RestoreInv, NEW j \in RestoreJobs, StartRestore(j) \/ StartRestoreCommand(j)
  PROVE  RestoreInv'
<1> DEFINE n == restorer[j].tries + 1
<1>1. restorer[j] \in RestorerType /\ n \in Nat \ {0} /\ "find" \in RestoreSteps
  BY DEF RestoreInv, RestoreTypes, RestorerType, RestoreSteps
<1>2. PICK l \in Int : restorer' = [restorer EXCEPT ![j].step = "find", ![j].left = l, ![j].tries = n]
  <2>1. restorer[j].left - 1 \in Int /\ 0 \in Int
    BY <1>1 DEF RestorerType
  <2>2. CASE StartRestore(j)
    BY <2>1, <2>2 DEF StartRestore
  <2>3. CASE StartRestoreCommand(j)
    <3>1. 1 = n
      BY <2>3 DEF StartRestoreCommand
    <3>2. restorer' = [restorer EXCEPT ![j].step = "find", ![j].left = 0, ![j].tries = 1]
      BY <2>3 DEF StartRestoreCommand
    <3> QED
      BY <2>1, <3>1, <3>2, Zenon
  <2> QED
    BY <2>2, <2>3
<1> HIDE DEF n
<1> DEFINE new == [restorer[j] EXCEPT !.step = "find", !.left = l, !.tries = n]
<1>3. new \in RestorerType /\ new.step = "find" /\ new.tries = n /\ new.alone = restorer[j].alone
  BY <1>1 DEF RestorerType
<1>4. restorer' = [restorer EXCEPT ![j] = new]
  BY <1>2
<1> HIDE DEF new
<1>5. /\ restorer' \in [RestoreJobs -> RestorerType] /\ restorer'[j] = new
      /\ \A i \in RestoreJobs \ {j} : restorer'[i] = restorer[i]
  BY <1>3, <1>4 DEF RestoreInv, RestoreTypes
<1>6. UNCHANGED <<archive, mirrored, content, restoreFaults, broken, swept>> /\ restorer[j].step = "waiting"
  BY DEF StartRestore, StartRestoreCommand
<1>7. RestoreTypes' /\ OneLoadInv' /\ LoadedInv'
  BY <1>3, <1>5, <1>6 DEF RestoreInv, RestoreTypes, OneLoadInv, Loading, LoadedInv
<1>8. UndisturbedInv(j)'
  <2>1. n = restorer[j].tries + 1 /\ restorer[j].tries \in Nat /\ restoreFaults \in Nat
    BY <1>1 DEF n, RestorerType, RestoreInv, RestoreTypes
  <2>2. Undisturbed(j)' => Undisturbed(j)
    BY <1>5, <1>6 DEF Undisturbed
  <2> QED
    BY <1>3, <1>5, <1>6, <2>1, <2>2 DEF RestoreInv, UndisturbedInv
<1>9. \A i \in RestoreJobs \ {j} : UndisturbedInv(i)'
  BY <1>1, <1>3, <1>5, OthersDisturbed
<1> QED
  BY <1>7, <1>8, <1>9 DEF RestoreInv

\* The steps of an attempt.
LEMMA AttemptSteps ==
  ASSUME RestoreInv, NEW j \in RestoreJobs,
         \/ HookThrows(j) \/ FindArchive(j) \/ Download(j)
         \/ MissArchive(j) \/ LoadObjects(j) \/ Collide(j) \/ AnnounceRestore(j)
  PROVE  RestoreInv'
<1> USE DEF RestoreInv
<1>1. /\ restorer[j].tries \in Nat \ {0} /\ restoreFaults \in Nat
      /\ restorer[j].step \in {"find", "download", "drop", "load", "announce"}
  BY Begun DEF HookThrows, FindArchive, Download, MissArchive, LoadObjects, Collide, Loading,
               AnnounceRestore, RestoreTypes, RestorerType
<1>2. PICK step \in RestoreSteps : Proceed(j, step)
  BY DEF HookThrows, FindArchive, Download, MissArchive, LoadObjects, Collide, AnnounceRestore, GiveUp, RestoreSteps
<1>3. /\ restorer' \in [RestoreJobs -> RestorerType]
      /\ restorer'[j].tries = restorer[j].tries
      /\ restorer'[j].alone = restorer[j].alone /\ restorer'[j].opened = restorer[j].opened
      /\ \A i \in RestoreJobs \ {j} : restorer'[i] = restorer[i]
  BY <1>2, Proceeds
<1>4. \A i \in RestoreJobs \ {j} : UndisturbedInv(i)'
  BY <1>1, <1>3, OthersDisturbed
<1>5. Undisturbed(j)' => Undisturbed(j)
  BY <1>3 DEF Undisturbed, HookThrows, FindArchive, Download, MissArchive, LoadObjects, Collide, AnnounceRestore, RestoreTypes
<1>6. CASE HookThrows(j)
  BY <1>1, <1>3, <1>4, <1>5, <1>6, GivesUp DEF HookThrows, RestoreFault, RestoreTypes, LoadedInv, OneLoadInv, Loading, UndisturbedInv
<1>7. CASE FindArchive(j)
  <2>1. UNCHANGED <<mirrored, content, restoreFaults, broken, swept>> /\ restorer[j].step = "find"
    BY <1>7 DEF FindArchive
  <2>2. CASE archive # "none" /\ Proceed(j, "drop") /\ UNCHANGED archive
    <3>1. restorer'[j].step = "drop"
      BY <2>2, Proceeds DEF RestoreSteps
    <3> QED
      BY <1>1, <1>3, <1>4, <1>5, <2>1, <2>2, <3>1 DEF RestoreTypes, LoadedInv, OneLoadInv, Loading, UndisturbedInv
  <2>3. CASE archive = "none" /\ mirrored /\ Proceed(j, "download") /\ archive' = "partial"
    <3>1. restorer'[j].step = "download"
      BY <2>3, Proceeds DEF RestoreSteps
    <3> QED
      BY <1>1, <1>3, <1>4, <1>5, <2>1, <2>3, <3>1 DEF RestoreTypes, LoadedInv, OneLoadInv, Loading, UndisturbedInv
  <2>4. CASE archive = "none" /\ ~mirrored /\ GiveUp(j) /\ UNCHANGED archive
    <3>1. restorer'[j].step \in {"waiting", "failed"}
      BY <2>4, GivesUp
    <3> QED
      BY <1>1, <1>3, <1>4, <1>5, <2>1, <2>4, <3>1 DEF RestoreTypes, LoadedInv, OneLoadInv, Loading, UndisturbedInv
  <2> QED
    BY <1>7, <2>2, <2>3, <2>4 DEF FindArchive
<1>8. CASE Download(j)
  <2>1. UNCHANGED <<mirrored, content, swept>> /\ restorer[j].step = "download"
    BY <1>8 DEF Download
  <2>2. CASE archive' = "whole" /\ Proceed(j, "drop") /\ UNCHANGED <<restoreFaults, broken>>
    <3>1. restorer'[j].step = "drop"
      BY <2>2, Proceeds DEF RestoreSteps
    <3> QED
      BY <1>1, <1>3, <1>4, <1>5, <2>1, <2>2, <3>1 DEF RestoreTypes, LoadedInv, OneLoadInv, Loading, UndisturbedInv
  <2>3. CASE RestoreFault /\ broken' = TRUE /\ GiveUp(j) /\ UNCHANGED archive
    <3>1. restorer'[j].step \in {"waiting", "failed"}
      BY <2>3, GivesUp
    <3>2. ~Undisturbed(j)'
      BY <2>3 DEF Undisturbed
    <3> QED
      BY <1>1, <1>3, <1>4, <2>1, <2>3, <3>1, <3>2 DEF RestoreFault, RestoreTypes, LoadedInv, OneLoadInv, Loading, UndisturbedInv
  <2> QED
    BY <1>8, <2>2, <2>3 DEF Download
<1>9. CASE MissArchive(j)
  BY <1>1, <1>3, <1>4, <1>5, <1>9, GivesUp DEF MissArchive, RestoreTypes, LoadedInv, OneLoadInv, Loading, UndisturbedInv
<1>10. CASE LoadObjects(j) \/ Collide(j)
  BY <1>1, <1>3, <1>4, <1>5, <1>10, GivesUp, Proceeds
     DEF LoadObjects, Collide, Loading, RestoreFault, RestoreSteps, RestoreTypes, LoadedInv, OneLoadInv, UndisturbedInv
<1>11. CASE AnnounceRestore(j)
  BY <1>1, <1>3, <1>4, <1>5, <1>11, GivesUp, Proceeds
     DEF AnnounceRestore, RestoreFault, RestoreSteps, RestoreTypes, LoadedInv, OneLoadInv, Loading, UndisturbedInv
<1> QED
  BY <1>6, <1>7, <1>8, <1>9, <1>10, <1>11

LEMMA DropsObjects ==
  ASSUME RestoreInv, NEW j \in RestoreJobs, DropObjects(j)
  PROVE  RestoreInv'
<1>1. \A i \in RestoreJobs :
        /\ restorer'[i] \in RestorerType
        /\ restorer'[i].step = IF i = j THEN "load" ELSE restorer[i].step
        /\ restorer'[i].tries = restorer[i].tries
        /\ restorer'[i].alone <=> (i = j /\ \A k \in RestoreJobs \ {j} : ~Loading(k))
        /\ i = j => restorer'[i].opened = archive
  BY DEF RestoreInv, RestoreTypes, RestorerType, RestoreSteps, DropObjects
<1>2. restorer' \in [RestoreJobs -> RestorerType]
  BY <1>1 DEF DropObjects
<1>3. UNCHANGED <<archive, mirrored, restoreFaults, broken, swept>> /\ restorer[j].step = "drop" /\ archive # "none"
  BY DEF DropObjects
<1>4. RestoreTypes' /\ OneLoadInv' /\ LoadedInv'
  BY <1>1, <1>2, <1>3 DEF RestoreInv, RestoreTypes, OneLoadInv, Loading, LoadedInv
<1>5. restorer[j].tries # 0
  BY <1>3, Begun
<1>6. ASSUME NEW i \in RestoreJobs PROVE UndisturbedInv(i)'
  <2>1. UndisturbedInv(i) /\ UndisturbedInv(j)
    BY DEF RestoreInv
  <2>2. Undisturbed(i)' => Undisturbed(i)
    BY <1>1, <1>3 DEF Undisturbed
  <2>3. CASE i = j
    <3>1. Undisturbed(j) => \A k \in RestoreJobs \ {j} : ~Loading(k)
      BY DEF Undisturbed, Loading, RestoreInv, UndisturbedInv
    <3> QED
      BY <1>1, <1>3, <1>5, <2>1, <2>2, <2>3, <3>1 DEF UndisturbedInv, RestoreInv, RestoreTypes
  <2>4. CASE i # j
    <3>1. ~Undisturbed(i)
      BY <1>5, <2>4 DEF Undisturbed
    <3> QED
      BY <1>1, <2>1, <2>2, <2>4, <3>1 DEF UndisturbedInv
  <2> QED
    BY <2>3, <2>4
<1> QED
  BY <1>4, <1>6 DEF RestoreInv

\* A restore that says it succeeded restored the schema, unless another pg_restore was
\* running when its own began or has begun since;
\* and one that gives up met a failure in every attempt, unless the archive was swept, a
\* download broke off, or another restore ran.
THEOREM RestoresEndWell == RestoreSpec => []RestoreEndsMean
<1>1. RestoreInit => RestoreInv
  <2> SUFFICES ASSUME RestoreInit PROVE RestoreInv
    OBVIOUS
  <2>1. \A j \in RestoreJobs : /\ restorer[j] \in RestorerType /\ restorer[j].step = "waiting"
                               /\ restorer[j].tries = 0
    <3> DEFINE waiting == [step |-> "waiting", left |-> MaxRestoreAttempts, tries |-> 0,
                    opened |-> "none", alone |-> TRUE]
    <3>1. waiting \in RestorerType /\ waiting.step = "waiting" /\ waiting.tries = 0
      BY RestoresAssumption DEF RestorerType, RestoreSteps
    <3>2. \A j \in RestoreJobs : restorer[j] = waiting
      BY DEF RestoreInit
    <3> HIDE DEF waiting
    <3> QED
      BY <3>1, <3>2
  <2>2. RestoreTypes
    BY <2>1 DEF RestoreInit, RestoreTypes
  <2> QED
    BY <2>1, <2>2 DEF RestoreInit, RestoreInv, OneLoadInv, LoadedInv, UndisturbedInv
<1>2. RestoreInv /\ [RestoreNext]_restoreVars => RestoreInv'
  <2> SUFFICES ASSUME RestoreInv, [RestoreNext]_restoreVars
               PROVE  RestoreInv'
    OBVIOUS
  <2>1. CASE \E j \in RestoreJobs : StartRestore(j) \/ StartRestoreCommand(j)
    BY <2>1, StartsRestore
  <2>2. CASE \E j \in RestoreJobs : DropObjects(j)
    BY <2>2, DropsObjects
  <2>3. CASE \E j \in RestoreJobs : \/ HookThrows(j) \/ FindArchive(j) \/ Download(j)
                                    \/ MissArchive(j) \/ LoadObjects(j) \/ Collide(j) \/ AnnounceRestore(j)
    BY <2>3, AttemptSteps
  <2>4. CASE SweepArchive
    <3>1. /\ swept' = TRUE /\ archive' = "none" /\ mirrored' \in BOOLEAN
          /\ UNCHANGED <<content, restorer, restoreFaults, broken>>
      BY <2>4 DEF SweepArchive, RestoreInv, RestoreTypes
    <3> QED
      BY <3>1 DEF RestoreInv, RestoreTypes, OneLoadInv, Loading, LoadedInv, UndisturbedInv, Undisturbed
  <2>5. CASE UNCHANGED restoreVars
    BY <2>5 DEF restoreVars, RestoreInv, RestoreTypes, OneLoadInv, Loading, LoadedInv, UndisturbedInv, Undisturbed
  <2> QED
    BY <2>1, <2>2, <2>3, <2>4, <2>5 DEF RestoreNext
<1>3. RestoreInv => RestoreEndsMean
  BY DEF RestoreInv, LoadedInv, UndisturbedInv, Undisturbed, RestoreEndsMean, SuccessMeansRestored,
         OnlyBrokenDownloadsPoison
<1> QED
  BY <1>1, <1>2, <1>3, PTL DEF RestoreSpec

-----------------------------------------------------------------------------
(***************************************************************************)
(* Cloning, for any tables, deliveries, attempts and faults: what one      *)
(* attempt may count on while it runs alone (AloneInv), and what a         *)
(* finished one has left (Settled).                                        *)
(***************************************************************************)

Acting(job) == job.step \notin {"waiting", "done"}

CloneTypes ==
  /\ options \in [schemaOnly : BOOLEAN, clearSessions : BOOLEAN]
  /\ storage \in {"none", "empty", "migrated"}
  /\ rows \in [SourceTables -> Contents]
  /\ cloneStatus \in {"provisioning", "active", "failed"}
  /\ cloneJob \in [CloneJobs -> CloneStates]
  /\ cloneFaults \in Nat
  /\ finished \in BOOLEAN /\ again \in BOOLEAN /\ overlapped \in BOOLEAN /\ unclean \in BOOLEAN

\* A transaction has the tables before the one it is at, and in the end all of them; it
\* has cleared the tokens unless that failed.
InsertedInv(job) ==
  /\ job.step = "copy" =>
       job.table >= 1 /\ \A t \in MigratedTables : t < job.table => job.inserted[t] # "none"
  /\ job.step \in {"tokens", "sequences", "commit"} => \A t \in MigratedTables : job.inserted[t] # "none"
  /\ job.step \in {"sequences", "commit"} /\ cloneFaults = 0 /\ options.clearSessions =>
       job.inserted[TokenTable] = "cleared"
  /\ job.step \in {"list", "copy", "tokens", "sequences", "commit"} => ~options.schemaOnly

Whole ==
  /\ \A t \in MigratedTables : rows[t] # "none"
  /\ cloneFaults = 0 /\ options.clearSessions => rows[TokenTable] = "cleared"

\* What an attempt that runs alone may count on: the status it loaded, and the schema and
\* the rows as it left them.
AloneInv(job) ==
  /\ Acting(job) => job.seen = cloneStatus
  /\ job.step \in {"list", "copy", "tokens", "sequences", "commit", "activate", "announce"} =>
       storage = "migrated"
  /\ job.step = "activate" /\ ~options.schemaOnly => Whole
  /\ job.step = "announce" => cloneStatus = "active"

\* What a finished clone is.
Settled == cloneStatus = "active" /\ storage = "migrated" /\ (~options.schemaOnly => Whole)

\* Beyond the hooks an attempt has a clean-up to do.
ToCleanUp(job) == job.step \notin {"waiting", "done", "hooks"}

AttemptsInv ==
  /\ \A i, j \in CloneJobs : i # j => ~(Acting(cloneJob[i]) /\ Acting(cloneJob[j]))
  /\ \A j \in CloneJobs : AloneInv(cloneJob[j])
  /\ finished /\ ~again =>
       Settled /\ \A j \in CloneJobs : cloneJob[j].step \in {"waiting", "done", "announce"}
  /\ ~unclean /\ cloneStatus = "failed" =>
       storage = "none" \/ \E j \in CloneJobs : ToCleanUp(cloneJob[j])

CloneInv ==
  /\ CloneTypes
  /\ CopyIsAllOrNothing
  /\ options.schemaOnly => rows = NoneCopied
  /\ \A j \in CloneJobs :
       /\ InsertedInv(cloneJob[j])
       /\ cloneJob[j].attempts = 0 => cloneJob[j].step = "waiting" /\ cloneJob[j].seen = "provisioning"
  /\ (\A j \in CloneJobs : cloneJob[j].attempts = 0) => cloneStatus = "provisioning" /\ ~finished
  /\ ~overlapped => AttemptsInv

-----------------------------------------------------------------------------
(* A step of one delivery.                                                 *)

LEMMA JobIs ==
  ASSUME CloneTypes, NEW j \in CloneJobs, NEW new \in CloneStates, cloneJob' = [cloneJob EXCEPT ![j] = new]
  PROVE  /\ cloneJob' \in [CloneJobs -> CloneStates] /\ cloneJob'[j] = new
         /\ \A i \in CloneJobs \ {j} : cloneJob'[i] = cloneJob[i]
BY DEF CloneTypes

\* A step of an attempt keeps the invariant when it does so for the attempt itself: no
\* other is active, unless two overlapped.
LEMMA AttemptStep ==
  ASSUME CloneInv, NEW j \in CloneJobs, Acting(cloneJob[j]),
         NEW new \in CloneStates, cloneJob' = [cloneJob EXCEPT ![j] = new],
         new.attempts = cloneJob[j].attempts,
         CloneTypes', UNCHANGED <<options, again, overlapped>>, cloneFaults' >= cloneFaults,
         CopyIsAllOrNothing', options.schemaOnly => rows' = NoneCopied,
         InsertedInv(new)',
         ~overlapped => /\ AloneInv(new)'
                        /\ finished' /\ ~again => Settled' /\ new.step \in {"waiting", "done", "announce"}
                        /\ ~unclean' /\ cloneStatus' = "failed" => storage' = "none" \/ ToCleanUp(new)
  PROVE  CloneInv'
<1>1. /\ cloneJob'[j] = new
      /\ \A i \in CloneJobs \ {j} : cloneJob'[i] = cloneJob[i]
  BY JobIs DEF CloneInv
<1>2. new.attempts # 0
  BY DEF CloneInv, Acting
<1>3. ASSUME NEW i \in CloneJobs
      PROVE  /\ InsertedInv(cloneJob[i])'
             /\ cloneJob'[i].attempts = 0 => cloneJob'[i].step = "waiting" /\ cloneJob'[i].seen = "provisioning"
  <2>1. CASE i = j
    BY <1>1, <1>2, <2>1 DEF InsertedInv
  <2>2. CASE i # j
    <3>1. cloneFaults' = 0 => cloneFaults = 0
      BY DEF CloneInv, CloneTypes
    <3> QED
      BY <1>1, <2>2, <3>1 DEF CloneInv, InsertedInv
  <2> QED
    BY <2>1, <2>2
<1>4. ASSUME ~overlapped PROVE AttemptsInv'
  <2>1. \A i \in CloneJobs \ {j} : ~Acting(cloneJob'[i])
    BY <1>1, <1>4 DEF CloneInv, AttemptsInv
  <2>2. \A i \in CloneJobs \ {j} : cloneJob'[i].step \in {"waiting", "done"}
    BY <2>1 DEF Acting
  <2>3. \A i \in CloneJobs : AloneInv(cloneJob[i])'
    BY <1>1, <1>4, <2>2 DEF AloneInv, Acting
  <2> QED
    BY <1>1, <1>4, <2>1, <2>2, <2>3 DEF AttemptsInv, ToCleanUp, Acting
<1> QED
  BY <1>1, <1>2, <1>3, <1>4 DEF CloneInv

\* What a delivery is when it goes to another step.
LEMMA StepsTo ==
  ASSUME CloneTypes, NEW j \in CloneJobs, NEW step \in CloneSteps, Step(j, step)
  PROVE  \E new \in CloneStates :
           /\ cloneJob' = [cloneJob EXCEPT ![j] = new] /\ new.step = step
           /\ new.attempts = cloneJob[j].attempts /\ new.seen = cloneJob[j].seen
           /\ new.inserted = cloneJob[j].inserted /\ new.table = cloneJob[j].table
<1> DEFINE new == [cloneJob[j] EXCEPT !.step = step]
<1>1. /\ new \in CloneStates /\ new.step = step
      /\ new.attempts = cloneJob[j].attempts /\ new.seen = cloneJob[j].seen
      /\ new.inserted = cloneJob[j].inserted /\ new.table = cloneJob[j].table
  BY DEF CloneTypes, CloneStates
<1>2. cloneJob' = [cloneJob EXCEPT ![j] = new]
  BY DEF Step
<1> HIDE DEF new
<1> QED
  BY <1>1, <1>2

\* An attempt that fails, anywhere before its end, is to clean up.
LEMMA FailsAttempt ==
  ASSUME CloneInv, NEW j \in CloneJobs, Acting(cloneJob[j]), cloneJob[j].step # "announce", Step(j, "fail"),
         UNCHANGED <<options, storage, rows, cloneStatus, finished, again, overlapped, unclean>>,
         cloneFaults' \in {cloneFaults, cloneFaults + 1}
  PROVE  CloneInv'
<1>1. PICK new \in CloneStates :
        /\ cloneJob' = [cloneJob EXCEPT ![j] = new] /\ new.step = "fail"
        /\ new.attempts = cloneJob[j].attempts /\ new.seen = cloneJob[j].seen
  BY StepsTo DEF CloneInv, CloneSteps
<1>2. cloneFaults' \in Nat /\ cloneFaults' >= cloneFaults
  BY DEF CloneInv, CloneTypes
<1>3. CloneTypes' /\ CopyIsAllOrNothing' /\ (options.schemaOnly => rows' = NoneCopied)
  BY <1>1, <1>2, JobIs DEF CloneInv, CloneTypes, CopyIsAllOrNothing
<1>4. InsertedInv(new)'
  BY <1>1 DEF InsertedInv
<1>5. ~overlapped => /\ AloneInv(new)'
                     /\ ~(finished' /\ ~again) /\ ToCleanUp(new)
  BY <1>1 DEF CloneInv, AttemptsInv, AloneInv, Acting, ToCleanUp
<1> QED
  BY <1>1, <1>2, <1>3, <1>4, <1>5, AttemptStep

\* An attempt that ends before it has anything to clean up, or whose clean-up is not to be had.
LEMMA EndsAttempt ==
  ASSUME CloneInv, NEW j \in CloneJobs, Acting(cloneJob[j]),
         NEW step \in {"waiting", "done"}, Step(j, step),
         UNCHANGED <<options, storage, rows, cloneStatus, finished, again, overlapped>>,
         cloneFaults' \in {cloneFaults, cloneFaults + 1}, unclean' \in BOOLEAN,
         (unclean' = unclean /\ cloneJob[j].step \in {"hooks", "announce"}) \/ unclean'
  PROVE  CloneInv'
<1>1. PICK new \in CloneStates :
        /\ cloneJob' = [cloneJob EXCEPT ![j] = new] /\ new.step = step
        /\ new.attempts = cloneJob[j].attempts
  BY StepsTo DEF CloneInv, CloneSteps
<1>2. cloneFaults' \in Nat /\ cloneFaults' >= cloneFaults /\ (cloneFaults' = 0 => cloneFaults = 0)
  BY DEF CloneInv, CloneTypes
<1>3. CloneTypes' /\ CopyIsAllOrNothing' /\ (options.schemaOnly => rows' = NoneCopied)
  BY <1>1, <1>2, JobIs DEF CloneInv, CloneTypes, CopyIsAllOrNothing
<1>4. InsertedInv(new)' /\ AloneInv(new)'
  BY <1>1 DEF InsertedInv, AloneInv, Acting
<1>5. ASSUME ~overlapped
      PROVE  /\ finished' /\ ~again => Settled' /\ new.step \in {"waiting", "done", "announce"}
             /\ ~unclean' /\ cloneStatus' = "failed" => storage' = "none"
  <2>1. AttemptsInv
    BY <1>5 DEF CloneInv
  <2>2. finished' /\ ~again => Settled'
    BY <1>2, <2>1 DEF AttemptsInv, Settled, Whole
  <2>3. ASSUME ~unclean', cloneStatus' = "failed" PROVE storage' = "none"
    <3>1. ~unclean /\ cloneStatus = "failed" /\ cloneJob[j].step = "hooks"
      BY <2>1, <2>3 DEF AttemptsInv, AloneInv, Acting
    <3>2. \A i \in CloneJobs : ~ToCleanUp(cloneJob[i])
      BY <2>1, <3>1 DEF AttemptsInv, Acting, ToCleanUp
    <3> QED
      BY <2>1, <3>1, <3>2 DEF AttemptsInv
  <2> QED
    BY <1>1, <2>2, <2>3
<1> QED
  BY <1>1, <1>2, <1>3, <1>4, <1>5, AttemptStep

LEMMA AfterFailureEnds ==
  ASSUME NEW j \in CloneJobs
  PROVE  AfterFailure(j) \in {"waiting", "done"}
BY DEF AfterFailure

-----------------------------------------------------------------------------
(* The steps.                                                              *)

LEMMA CloneStarts ==
  ASSUME CloneInv, NEW j \in CloneJobs, StartClone(j)
  PROVE  CloneInv'
<1> DEFINE n == cloneJob[j].attempts + 1
           new == [cloneJob[j] EXCEPT !.step = "hooks", !.attempts = n, !.seen = cloneStatus]
<1>1. cloneJob[j] \in CloneStates /\ n \in Nat \ {0} /\ cloneStatus \in {"provisioning", "active", "failed"}
  BY DEF CloneInv, CloneTypes, CloneStates
<1>2. cloneJob' = [cloneJob EXCEPT ![j] = new]
  BY DEF StartClone
<1> HIDE DEF n
<1>3. new \in CloneStates /\ new.step = "hooks" /\ new.attempts = n /\ new.seen = cloneStatus
  BY <1>1 DEF CloneStates, CloneSteps
<1> HIDE DEF new
<1>4. /\ cloneJob' \in [CloneJobs -> CloneStates] /\ cloneJob'[j] = new
      /\ \A i \in CloneJobs \ {j} : cloneJob'[i] = cloneJob[i]
  BY <1>2, <1>3, JobIs DEF CloneInv
<1>5. /\ UNCHANGED <<options, storage, rows, cloneStatus, cloneFaults, finished, unclean>>
      /\ cloneJob[j].step = "waiting"
      /\ again' \in BOOLEAN /\ overlapped' \in BOOLEAN
      /\ ~again' => ~again /\ ~finished
      /\ ~overlapped' => ~overlapped /\ \A i \in CloneJobs : ~Acting(cloneJob[i])
  BY DEF StartClone, CloneInv, CloneTypes, Acting
<1>6. CloneTypes' /\ CopyIsAllOrNothing' /\ (options'.schemaOnly => rows' = NoneCopied)
  BY <1>4, <1>5 DEF CloneInv, CloneTypes, CopyIsAllOrNothing
<1>7. \A i \in CloneJobs :
        /\ InsertedInv(cloneJob[i])'
        /\ cloneJob'[i].attempts = 0 => cloneJob'[i].step = "waiting" /\ cloneJob'[i].seen = "provisioning"
  BY <1>1, <1>3, <1>4, <1>5 DEF CloneInv, InsertedInv
<1>8. cloneJob'[j].attempts # 0
  BY <1>1, <1>3, <1>4
<1>9. ASSUME ~overlapped' PROVE AttemptsInv'
  <2>1. AttemptsInv /\ \A i \in CloneJobs : ~Acting(cloneJob[i])
    BY <1>5, <1>9 DEF CloneInv
  <2>2. \A i \in CloneJobs \ {j} : cloneJob'[i].step \in {"waiting", "done"}
    BY <1>4, <2>1 DEF Acting
  <2>3. \A i \in CloneJobs : AloneInv(cloneJob[i])'
    BY <1>3, <1>4, <1>5, <2>2 DEF AloneInv, Acting
  <2>4. ~unclean' /\ cloneStatus' = "failed" => storage' = "none"
    BY <1>5, <2>1 DEF AttemptsInv, ToCleanUp, Acting
  <2> QED
    BY <1>3, <1>4, <1>5, <2>2, <2>3, <2>4 DEF AttemptsInv, Acting
<1> QED
  BY <1>6, <1>7, <1>8, <1>9 DEF CloneInv

\* The command is the one attempt there is.
LEMMA CommandStarts ==
  ASSUME CloneInv, NEW j \in CloneJobs, StartCloneCommand(j)
  PROVE  CloneInv'
<1>1. \A i \in CloneJobs : cloneJob[i] \in CloneStates /\ cloneJob[i].attempts = 0
  BY DEF StartCloneCommand, CloneInv, CloneTypes
<1>2. \A i \in CloneJobs : cloneJob[i].step = "waiting" /\ cloneJob[i].seen = "provisioning"
  BY <1>1 DEF CloneInv
<1>3. cloneStatus = "provisioning" /\ ~finished
  BY <1>1 DEF CloneInv
<1>4. \A i \in CloneJobs :
        /\ cloneJob'[i] \in CloneStates
        /\ cloneJob'[i].step = IF i = j THEN "provision" ELSE "done"
        /\ cloneJob'[i].attempts = MaxCloneAttempts /\ cloneJob'[i].seen = cloneJob[i].seen
  BY <1>1, CloningAssumption DEF StartCloneCommand, CloneStates, CloneSteps
<1>5. cloneJob' \in [CloneJobs -> CloneStates]
  BY <1>4 DEF StartCloneCommand
<1>6. UNCHANGED <<options, storage, rows, cloneStatus, cloneFaults, finished, again, overlapped, unclean>>
  BY DEF StartCloneCommand
<1>7. CloneTypes' /\ CopyIsAllOrNothing' /\ (options'.schemaOnly => rows' = NoneCopied)
  BY <1>5, <1>6 DEF CloneInv, CloneTypes, CopyIsAllOrNothing
<1>8. \A i \in CloneJobs : InsertedInv(cloneJob[i])' /\ cloneJob'[i].attempts # 0
  BY <1>4, CloningAssumption DEF InsertedInv
<1>9. AttemptsInv'
  BY <1>2, <1>3, <1>4, <1>6 DEF AttemptsInv, AloneInv, Acting
<1> QED
  BY <1>3, <1>7, <1>8, <1>9 DEF CloneInv

LEMMA SchemaSteps ==
  ASSUME CloneInv, NEW j \in CloneJobs, BeforeClone(j) \/ ProvisionClone(j) \/ MigrateClone(j)
  PROVE  CloneInv'
<1>1. /\ cloneJob[j].step \in {"hooks", "provision", "migrate"} /\ Acting(cloneJob[j])
      /\ UNCHANGED <<options, again, overlapped, unclean>>
  BY DEF BeforeClone, ProvisionClone, MigrateClone, Acting
<1>2. CASE BeforeClone(j) /\ Throws(j, AfterFailure(j))
  <2>1. AfterFailure(j) \in {"waiting", "done"}
    BY AfterFailureEnds
  <2>2. unclean' \in BOOLEAN /\ cloneJob[j].step = "hooks"
    BY <1>1, <1>2 DEF CloneInv, CloneTypes, BeforeClone
  <2> QED
    BY <1>1, <1>2, <2>1, <2>2, EndsAttempt DEF Throws, Fault
<1>3. CASE /\ Step(j, "fail") /\ cloneFaults' \in {cloneFaults, cloneFaults + 1}
           /\ UNCHANGED <<storage, rows, cloneStatus, finished>>
  BY <1>1, <1>3, FailsAttempt
<1>4. ASSUME NEW step \in {"provision", "migrate", "activate", "list"}, Step(j, step),
             UNCHANGED <<rows, cloneStatus, cloneFaults, finished>>,
             storage' \in {"none", "empty", "migrated"},
             step \in {"activate", "list"} => storage' = "migrated" /\ (step = "activate" <=> options.schemaOnly)
      PROVE  CloneInv'
  <2>1. PICK new \in CloneStates :
          /\ cloneJob' = [cloneJob EXCEPT ![j] = new] /\ new.step = step
          /\ new.attempts = cloneJob[j].attempts /\ new.seen = cloneJob[j].seen
    BY <1>4, StepsTo DEF CloneInv, CloneSteps
  <2>2. CloneTypes' /\ CopyIsAllOrNothing' /\ (options.schemaOnly => rows' = NoneCopied) /\ cloneFaults' >= cloneFaults
    BY <1>1, <1>4, <2>1, JobIs DEF CloneInv, CloneTypes, CopyIsAllOrNothing
  <2>3. InsertedInv(new)'
    BY <1>1, <1>4, <2>1 DEF InsertedInv
  <2>4. ~overlapped => AloneInv(new)' /\ ~(finished' /\ ~again) /\ ToCleanUp(new)
    BY <1>1, <1>4, <2>1 DEF CloneInv, AttemptsInv, AloneInv, Acting, ToCleanUp
  <2> QED
    BY <1>1, <2>1, <2>2, <2>3, <2>4, AttemptStep
<1>5. CASE BeforeClone(j)
  BY <1>1, <1>2, <1>4, <1>5 DEF BeforeClone, CloneInv, CloneTypes
<1>6. CASE ProvisionClone(j)
  BY <1>1, <1>3, <1>4, <1>6 DEF ProvisionClone, CloneInv, CloneTypes, Throws, Fault
<1>7. CASE MigrateClone(j)
  BY <1>1, <1>3, <1>4, <1>7 DEF MigrateClone, CloneInv, CloneTypes, Throws, Fault
<1> QED
  BY <1>5, <1>6, <1>7

\* A step inside the transaction, which changes nothing but it.
LEMMA TransactionStep ==
  ASSUME CloneInv, NEW j \in CloneJobs,
         cloneJob[j].step \in {"list", "copy", "tokens", "sequences"},
         NEW new \in CloneStates, cloneJob' = [cloneJob EXCEPT ![j] = new],
         new.step \in {"copy", "tokens", "sequences", "commit"},
         new.attempts = cloneJob[j].attempts, new.seen = cloneJob[j].seen, InsertedInv(new)',
         UNCHANGED <<options, storage, rows, cloneStatus, finished, again, overlapped, unclean>>,
         cloneFaults' \in {cloneFaults, cloneFaults + 1}
  PROVE  CloneInv'
<1>1. CloneTypes' /\ CopyIsAllOrNothing' /\ (options.schemaOnly => rows' = NoneCopied) /\ cloneFaults' >= cloneFaults
  BY JobIs DEF CloneInv, CloneTypes, CopyIsAllOrNothing
<1>2. ~overlapped => AloneInv(new)' /\ ~(finished' /\ ~again) /\ ToCleanUp(new)
  BY DEF CloneInv, AttemptsInv, AloneInv, Acting, ToCleanUp
<1>3. Acting(cloneJob[j])
  BY DEF Acting
<1> QED
  BY <1>1, <1>2, <1>3, AttemptStep

LEMMA CopyBegins ==
  ASSUME CloneInv, NEW j \in CloneJobs, BeginCopy(j)
  PROVE  CloneInv'
<1> DEFINE begun == [cloneJob[j] EXCEPT !.step = "copy", !.table = 1, !.inserted = NoneCopied]
<1>1. cloneJob[j] \in CloneStates /\ NoneCopied \in [SourceTables -> Contents]
  BY DEF CloneInv, CloneTypes, NoneCopied, Contents
<1>2. /\ begun \in CloneStates /\ begun.step = "copy" /\ begun.table = 1
      /\ begun.attempts = cloneJob[j].attempts /\ begun.seen = cloneJob[j].seen
  BY <1>1 DEF CloneStates, CloneSteps
<1>3. cloneJob' = [cloneJob EXCEPT ![j] = begun]
  BY DEF BeginCopy
<1> HIDE DEF begun
<1>7. PICK new \in CloneStates :
        /\ cloneJob' = [cloneJob EXCEPT ![j] = new] /\ new.step = "copy" /\ new.table = 1
        /\ new.attempts = cloneJob[j].attempts /\ new.seen = cloneJob[j].seen
  BY <1>2, <1>3
<1>4. /\ UNCHANGED <<options, storage, rows, cloneStatus, cloneFaults, finished, again, overlapped, unclean>>
      /\ cloneJob[j].step = "list"
  BY DEF BeginCopy
<1>5. \A t \in MigratedTables : t \in Nat /\ t >= 1
  BY CloningAssumption
<1>6. InsertedInv(new)'
  BY <1>4, <1>5, <1>7 DEF InsertedInv, CloneInv
<1> QED
  BY <1>4, <1>6, <1>7, TransactionStep DEF CloneInv, CloneTypes

\* The table at hand is done with: copied, or skipped when the destination lacks it.
LEMMA Advances ==
  ASSUME CloneInv, NEW j \in CloneJobs, cloneJob[j].step = "copy",
         NEW copied \in Contents, Advance(j, copied),
         cloneJob[j].table \in MigratedTables => copied # "none",
         UNCHANGED <<options, storage, rows, cloneStatus, cloneFaults, finished, again, overlapped, unclean>>
  PROVE  CloneInv'
<1> DEFINE t == cloneJob[j].table
           n == t + 1
           step == IF n \in SourceTables THEN "copy" ELSE "tokens"
           inserted == [cloneJob[j].inserted EXCEPT ![t] = copied]
           advanced == [cloneJob[j] EXCEPT !.inserted = inserted, !.table = n, !.step = step]
<1>1. /\ cloneJob[j] \in CloneStates /\ t \in Nat /\ t >= 1 /\ n \in Nat /\ step \in {"copy", "tokens"}
      /\ cloneJob[j].inserted \in [SourceTables -> Contents]
  BY DEF CloneInv, CloneTypes, CloneStates, InsertedInv
<1>2. /\ inserted \in [SourceTables -> Contents]
      /\ \A s \in SourceTables : inserted[s] = IF s = t THEN copied ELSE cloneJob[j].inserted[s]
  BY <1>1
<1>3. cloneJob' = [cloneJob EXCEPT ![j] = advanced]
  BY DEF Advance
<1>4. \A s \in MigratedTables : s \in SourceTables /\ s \in Nat /\ (s < n => s < t \/ s = t)
  BY <1>1, CloningAssumption
<1>5. n \notin SourceTables => \A s \in MigratedTables : s < n
  BY <1>1, CloningAssumption
<1>6. step = "tokens" => n \notin SourceTables
  OBVIOUS
<1>7. n >= 1
  BY <1>1
<1>8. \A s \in MigratedTables : s < t => cloneJob[j].inserted[s] # "none"
  BY DEF CloneInv, InsertedInv
<1>9. ~options.schemaOnly
  BY DEF CloneInv, InsertedInv
<1> HIDE DEF inserted, n, step
<1>10. /\ advanced \in CloneStates /\ advanced.step = step /\ advanced.table = n
       /\ advanced.inserted = inserted /\ advanced.attempts = cloneJob[j].attempts
       /\ advanced.seen = cloneJob[j].seen
  BY <1>1, <1>2 DEF CloneStates, CloneSteps
<1> HIDE DEF advanced
<1>13. PICK new \in CloneStates :
         /\ cloneJob' = [cloneJob EXCEPT ![j] = new]
         /\ new.step = step /\ new.table = n /\ new.inserted = inserted
         /\ new.attempts = cloneJob[j].attempts /\ new.seen = cloneJob[j].seen
  BY <1>3, <1>10
<1>11. \A s \in MigratedTables : s < n => inserted[s] # "none"
  BY <1>2, <1>4, <1>8
<1>12. InsertedInv(new)'
  BY <1>1, <1>5, <1>6, <1>7, <1>9, <1>11, <1>13 DEF InsertedInv
<1> QED
  BY <1>1, <1>12, <1>13, TransactionStep DEF CloneInv, CloneTypes

LEMMA CopySteps ==
  ASSUME CloneInv, NEW j \in CloneJobs, CopyTable(j)
  PROVE  CloneInv'
<1>1. /\ UNCHANGED <<options, storage, rows, cloneStatus, finished, again, overlapped, unclean>>
      /\ cloneJob[j].step = "copy" /\ Acting(cloneJob[j])
  BY DEF CopyTable, Acting
<1>2. CASE Step(j, "fail") /\ cloneFaults' \in {cloneFaults, cloneFaults + 1}
  BY <1>1, <1>2, FailsAttempt
<1>3. CASE cloneJob[j].table \notin MigratedTables /\ Advance(j, "none") /\ UNCHANGED cloneFaults
  BY <1>1, <1>3, Advances DEF Contents
<1>4. CASE Advance(j, "copied") /\ UNCHANGED cloneFaults
  BY <1>1, <1>4, Advances DEF Contents
<1> QED
  BY <1>2, <1>3, <1>4 DEF CopyTable, Fault

LEMMA TokensClear ==
  ASSUME CloneInv, NEW j \in CloneJobs, ClearTokens(j)
  PROVE  CloneInv'
<1>1. PICK worked \in BOOLEAN :
        /\ UnderSavepoint(worked)
        /\ cloneJob' = [cloneJob EXCEPT ![j].step = "sequences",
             ![j].inserted = IF worked /\ options.clearSessions
                             THEN [cloneJob[j].inserted EXCEPT ![TokenTable] = "cleared"] ELSE cloneJob[j].inserted]
  BY DEF ClearTokens
<1> DEFINE inserted == IF worked /\ options.clearSessions
                       THEN [cloneJob[j].inserted EXCEPT ![TokenTable] = "cleared"] ELSE cloneJob[j].inserted
           cleared == [cloneJob[j] EXCEPT !.step = "sequences", !.inserted = inserted]
<1>2. /\ UNCHANGED <<options, storage, rows, cloneStatus, finished, again, overlapped, unclean>>
      /\ cloneJob[j].step = "tokens" /\ cloneJob[j] \in CloneStates
      /\ cloneJob[j].inserted \in [SourceTables -> Contents]
  BY DEF ClearTokens, CloneInv, CloneTypes, CloneStates
<1>3. /\ inserted \in [SourceTables -> Contents]
      /\ \A t \in SourceTables : inserted[t] = cloneJob[j].inserted[t] \/ inserted[t] = "cleared"
      /\ worked /\ options.clearSessions => inserted[TokenTable] = "cleared"
  BY <1>2, CloningAssumption DEF Contents
<1>4. cloneJob' = [cloneJob EXCEPT ![j] = cleared]
  BY <1>1, Zenon
<1> HIDE DEF inserted
<1>5. /\ cleared \in CloneStates /\ cleared.step = "sequences" /\ cleared.inserted = inserted
      /\ cleared.attempts = cloneJob[j].attempts /\ cleared.seen = cloneJob[j].seen
  BY <1>2, <1>3 DEF CloneStates, CloneSteps
<1> HIDE DEF cleared
<1>8. PICK new \in CloneStates :
        /\ cloneJob' = [cloneJob EXCEPT ![j] = new] /\ new.step = "sequences" /\ new.inserted = inserted
        /\ new.attempts = cloneJob[j].attempts /\ new.seen = cloneJob[j].seen
  BY <1>4, <1>5
<1>6. cloneFaults' \in {cloneFaults, cloneFaults + 1} /\ (cloneFaults' = 0 => worked)
  BY <1>1 DEF UnderSavepoint, Fault, CloneInv, CloneTypes
<1>7. InsertedInv(new)'
  <2>1. ~options.schemaOnly /\ \A t \in MigratedTables : cloneJob[j].inserted[t] # "none"
    BY <1>2 DEF CloneInv, InsertedInv
  <2> QED
    BY <1>2, <1>3, <1>6, <1>8, <2>1, CloningAssumption DEF InsertedInv
<1> QED
  BY <1>2, <1>6, <1>7, <1>8, TransactionStep DEF CloneInv, CloneTypes

LEMMA SequencesReset ==
  ASSUME CloneInv, NEW j \in CloneJobs, ResetSequences(j)
  PROVE  CloneInv'
<1>1. /\ UNCHANGED <<options, storage, rows, cloneStatus, finished, again, overlapped, unclean>>
      /\ cloneJob[j].step = "sequences" /\ Step(j, "commit")
  BY DEF ResetSequences
<1>2. PICK new \in CloneStates :
        /\ cloneJob' = [cloneJob EXCEPT ![j] = new] /\ new.step = "commit"
        /\ new.attempts = cloneJob[j].attempts /\ new.seen = cloneJob[j].seen
        /\ new.inserted = cloneJob[j].inserted
  BY <1>1, StepsTo DEF CloneInv, CloneSteps
<1>3. cloneFaults' = cloneFaults
  BY DEF ResetSequences
<1>4. InsertedInv(new)'
  BY <1>1, <1>2, <1>3 DEF CloneInv, InsertedInv
<1> QED
  BY <1>1, <1>2, <1>3, <1>4, TransactionStep

LEMMA CopyCommits ==
  ASSUME CloneInv, NEW j \in CloneJobs, CommitCopy(j)
  PROVE  CloneInv'
<1>1. /\ UNCHANGED <<options, again, overlapped, unclean>>
      /\ cloneJob[j].step = "commit" /\ Acting(cloneJob[j])
  BY DEF CommitCopy, Acting
<1>2. CASE Throws(j, "fail")
  BY <1>1, <1>2, FailsAttempt DEF Throws, Fault
<1>3. CASE /\ rows' = [t \in SourceTables |-> IF cloneJob[j].inserted[t] = "none"
                                              THEN rows[t] ELSE cloneJob[j].inserted[t]]
           /\ Step(j, "activate")
           /\ UNCHANGED <<storage, cloneStatus, cloneFaults, finished>>
  <2>1. PICK new \in CloneStates :
          /\ cloneJob' = [cloneJob EXCEPT ![j] = new] /\ new.step = "activate"
          /\ new.attempts = cloneJob[j].attempts /\ new.seen = cloneJob[j].seen
    BY <1>3, StepsTo DEF CloneInv, CloneSteps
  <2>2. cloneJob[j].inserted \in [SourceTables -> Contents] /\ rows \in [SourceTables -> Contents]
    BY DEF CloneInv, CloneTypes, CloneStates
  <2>3. rows' \in [SourceTables -> Contents]
    BY <1>3, <2>2
  <2>4. /\ \A t \in MigratedTables : cloneJob[j].inserted[t] # "none"
        /\ cloneFaults = 0 /\ options.clearSessions => cloneJob[j].inserted[TokenTable] = "cleared"
        /\ ~options.schemaOnly
    BY <1>1 DEF CloneInv, InsertedInv
  <2>5. /\ \A t \in MigratedTables : rows'[t] # "none"
        /\ cloneFaults = 0 /\ options.clearSessions => rows'[TokenTable] = "cleared"
    BY <1>3, <2>2, <2>4, CloningAssumption
  <2>6. CloneTypes' /\ CopyIsAllOrNothing' /\ (options.schemaOnly => rows' = NoneCopied) /\ cloneFaults' >= cloneFaults
    BY <1>1, <1>3, <2>1, <2>3, <2>4, <2>5, JobIs DEF CloneInv, CloneTypes, CopyIsAllOrNothing
  <2>7. InsertedInv(new)'
    BY <2>1 DEF InsertedInv
  <2>8. ~overlapped => AloneInv(new)' /\ ~(finished' /\ ~again) /\ ToCleanUp(new)
    BY <1>1, <1>3, <2>1, <2>5 DEF CloneInv, AttemptsInv, AloneInv, Whole, Acting, ToCleanUp
  <2> QED
    BY <1>1, <2>1, <2>6, <2>7, <2>8, AttemptStep
<1> QED
  BY <1>2, <1>3 DEF CommitCopy

SavesAndSteps(j, status, step) ==
  /\ SaveCloneStatus(j, status)
  /\ cloneJob' = [cloneJob EXCEPT ![j].step = step, ![j].seen = status]

\* An attempt that writes the status of the row it loaded writes it.
LEMMA SavesStatus ==
  ASSUME CloneTypes, NEW j \in CloneJobs, NEW status \in {"active", "failed"}, NEW step \in CloneSteps,
         SavesAndSteps(j, status, step)
  PROVE  /\ cloneStatus' \in {"provisioning", "active", "failed"}
         /\ cloneJob[j].seen = cloneStatus => cloneStatus' = status
         /\ \E new \in CloneStates :
              /\ cloneJob' = [cloneJob EXCEPT ![j] = new] /\ new.step = step /\ new.seen = status
              /\ new.attempts = cloneJob[j].attempts
<1> DEFINE moved == [cloneJob[j] EXCEPT !.step = step, !.seen = status]
<1>1. moved \in CloneStates /\ moved.step = step /\ moved.seen = status /\ moved.attempts = cloneJob[j].attempts
  BY DEF CloneTypes, CloneStates
<1>2. cloneJob' = [cloneJob EXCEPT ![j] = moved]
  BY DEF SavesAndSteps
<1> HIDE DEF moved
<1>3. cloneStatus' \in {"provisioning", "active", "failed"} /\ (cloneJob[j].seen = cloneStatus => cloneStatus' = status)
  BY DEF SavesAndSteps, SaveCloneStatus, CloneTypes
<1> QED
  BY <1>1, <1>2, <1>3

LEMMA CloneActivates ==
  ASSUME CloneInv, NEW j \in CloneJobs, ActivateClone(j)
  PROVE  CloneInv'
<1>1. /\ UNCHANGED <<options, again, overlapped, unclean>>
      /\ cloneJob[j].step = "activate" /\ Acting(cloneJob[j])
  BY DEF ActivateClone, Acting
<1>2. CASE Throws(j, "fail")
  BY <1>1, <1>2, FailsAttempt DEF Throws, Fault
<1>3. CASE /\ SaveCloneStatus(j, "active")
           /\ cloneJob' = [cloneJob EXCEPT ![j].step = "announce", ![j].seen = "active"]
           /\ finished' = TRUE
           /\ UNCHANGED <<storage, rows, cloneFaults>>
  <2>0. SavesAndSteps(j, "active", "announce") /\ "announce" \in CloneSteps /\ CloneTypes
    BY <1>3 DEF SavesAndSteps, CloneInv, CloneSteps
  <2>1. /\ cloneStatus' \in {"provisioning", "active", "failed"}
        /\ cloneJob[j].seen = cloneStatus => cloneStatus' = "active"
    BY <2>0, SavesStatus
  <2>2. PICK new \in CloneStates :
          /\ cloneJob' = [cloneJob EXCEPT ![j] = new] /\ new.step = "announce" /\ new.seen = "active"
          /\ new.attempts = cloneJob[j].attempts
    BY <2>0, SavesStatus
  <2>3. CloneTypes' /\ CopyIsAllOrNothing' /\ (options.schemaOnly => rows' = NoneCopied) /\ cloneFaults' >= cloneFaults
    BY <1>1, <1>3, <2>1, <2>2, JobIs DEF CloneInv, CloneTypes, CopyIsAllOrNothing
  <2>4. InsertedInv(new)'
    BY <2>2 DEF InsertedInv
  <2>5. ASSUME ~overlapped
        PROVE  AloneInv(new)' /\ Settled' /\ cloneStatus' # "failed"
    <3>1. cloneJob[j].seen = cloneStatus /\ storage = "migrated" /\ (~options.schemaOnly => Whole)
      BY <1>1, <2>5 DEF CloneInv, AttemptsInv, AloneInv
    <3>2. (~options.schemaOnly => Whole)'
      BY <1>1, <1>3, <3>1 DEF Whole
    <3> QED
      BY <1>3, <2>1, <2>2, <3>1, <3>2 DEF AloneInv, Settled
  <2> QED
    BY <1>1, <2>2, <2>3, <2>4, <2>5, AttemptStep
<1> QED
  BY <1>2, <1>3 DEF ActivateClone

LEMMA CloneAnnounces ==
  ASSUME CloneInv, NEW j \in CloneJobs, AnnounceClone(j)
  PROVE  CloneInv'
<1>1. PICK step \in {"waiting", "done"} : Step(j, step)
  BY AfterFailureEnds DEF AnnounceClone, Throws
<1>2. /\ UNCHANGED <<options, storage, rows, cloneStatus, finished, again, overlapped, unclean>>
      /\ cloneJob[j].step = "announce" /\ Acting(cloneJob[j])
      /\ cloneFaults' \in {cloneFaults, cloneFaults + 1} /\ unclean' \in BOOLEAN
  BY DEF AnnounceClone, Throws, Fault, Acting, CloneInv, CloneTypes
<1> QED
  BY <1>1, <1>2, EndsAttempt

LEMMA CloneFails ==
  ASSUME CloneInv, NEW j \in CloneJobs, FailClone(j)
  PROVE  CloneInv'
<1>1. /\ UNCHANGED <<options, storage, rows, cloneFaults, finished, again, overlapped>>
      /\ cloneJob[j].step = "fail" /\ Acting(cloneJob[j])
  BY DEF FailClone, Acting
<1>2. CASE unclean' = TRUE /\ Step(j, AfterFailure(j)) /\ UNCHANGED cloneStatus
  BY <1>1, <1>2, AfterFailureEnds, EndsAttempt
<1>3. CASE /\ SaveCloneStatus(j, "failed")
           /\ cloneJob' = [cloneJob EXCEPT ![j].step = "destroy", ![j].seen = "failed"]
           /\ UNCHANGED unclean
  <2>0. SavesAndSteps(j, "failed", "destroy") /\ "destroy" \in CloneSteps /\ CloneTypes
    BY <1>3 DEF SavesAndSteps, CloneInv, CloneSteps
  <2>1. /\ cloneStatus' \in {"provisioning", "active", "failed"}
        /\ cloneJob[j].seen = cloneStatus => cloneStatus' = "failed"
    BY <2>0, SavesStatus
  <2>2. PICK new \in CloneStates :
          /\ cloneJob' = [cloneJob EXCEPT ![j] = new] /\ new.step = "destroy" /\ new.seen = "failed"
          /\ new.attempts = cloneJob[j].attempts
    BY <2>0, SavesStatus
  <2>3. CloneTypes' /\ CopyIsAllOrNothing' /\ (options.schemaOnly => rows' = NoneCopied) /\ cloneFaults' >= cloneFaults
    BY <1>1, <1>3, <2>1, <2>2, JobIs DEF CloneInv, CloneTypes, CopyIsAllOrNothing
  <2>4. InsertedInv(new)'
    BY <2>2 DEF InsertedInv
  <2>5. ~overlapped => AloneInv(new)' /\ ~(finished' /\ ~again) /\ ToCleanUp(new)
    BY <1>1, <1>3, <2>1, <2>2 DEF CloneInv, AttemptsInv, AloneInv, Acting, ToCleanUp
  <2> QED
    BY <1>1, <2>2, <2>3, <2>4, <2>5, AttemptStep
<1> QED
  BY <1>2, <1>3 DEF FailClone

LEMMA CloneIsDestroyed ==
  ASSUME CloneInv, NEW j \in CloneJobs, DestroyClone(j)
  PROVE  CloneInv'
<1>1. /\ UNCHANGED <<options, cloneStatus, cloneFaults, finished, again, overlapped>>
      /\ cloneJob[j].step = "destroy" /\ Acting(cloneJob[j]) /\ Step(j, AfterFailure(j))
  BY DEF DestroyClone, Acting
<1>2. CASE unclean' = TRUE /\ UNCHANGED <<storage, rows>>
  BY <1>1, <1>2, AfterFailureEnds, EndsAttempt
<1>3. CASE storage' = "none" /\ rows' = NoneCopied /\ UNCHANGED unclean
  <2>1. PICK new \in CloneStates :
          /\ cloneJob' = [cloneJob EXCEPT ![j] = new] /\ new.step \in {"waiting", "done"}
          /\ new.attempts = cloneJob[j].attempts
    BY <1>1, AfterFailureEnds, StepsTo DEF CloneInv, CloneSteps
  <2>2. rows' \in [SourceTables -> Contents] /\ \A t \in MigratedTables : rows'[t] = "none"
    BY <1>3, CloningAssumption DEF NoneCopied, Contents
  <2>3. CloneTypes'
    BY <1>1, <1>3, <2>1, <2>2, JobIs DEF CloneInv, CloneTypes
  <2>4. CopyIsAllOrNothing' /\ cloneFaults' >= cloneFaults
    BY <1>1, <2>2 DEF CopyIsAllOrNothing, CloneInv, CloneTypes
  <2>5. InsertedInv(new)' /\ AloneInv(new)'
    BY <2>1 DEF InsertedInv, AloneInv, Acting
  <2>6. ~overlapped => ~(finished' /\ ~again)
    BY <1>1 DEF CloneInv, AttemptsInv
  <2> QED
    BY <1>1, <1>3, <2>1, <2>3, <2>4, <2>5, <2>6, AttemptStep
<1> QED
  BY <1>2, <1>3 DEF DestroyClone

LEMMA CloneIsCutOff ==
  ASSUME CloneInv, NEW j \in CloneJobs, CloneDies(j)
  PROVE  CloneInv'
<1>1. /\ UNCHANGED <<options, storage, rows, cloneStatus, finished, again, overlapped>>
      /\ Acting(cloneJob[j]) /\ Step(j, AfterFailure(j)) /\ unclean' = TRUE
      /\ cloneFaults' \in {cloneFaults, cloneFaults + 1}
  BY DEF CloneDies, Acting, Fault
<1> QED
  BY <1>1, AfterFailureEnds, EndsAttempt

\* A clone is whole or nothing (clone_service.ts), however its deliveries are retried
\* and interleave: what a finished one holds stays, and a failed one leaves no storage.
THEOREM ClonesStaySound == CloneSpec => []ClonesAreSound
<1>1. CloneInit([schemaOnly : BOOLEAN, clearSessions : BOOLEAN]) => CloneInv
  <2> SUFFICES ASSUME CloneInit([schemaOnly : BOOLEAN, clearSessions : BOOLEAN]) PROVE CloneInv
    OBVIOUS
  <2>1. /\ \A j \in CloneJobs : cloneJob[j] \in CloneStates
        /\ \A j \in CloneJobs : cloneJob[j].step = "waiting" /\ cloneJob[j].seen = "provisioning"
        /\ rows = NoneCopied /\ rows \in [SourceTables -> Contents]
    BY DEF CloneInit, CloneStates, CloneSteps, NoneCopied, Contents
  <2>2. cloneJob \in [CloneJobs -> CloneStates]
    BY <2>1 DEF CloneInit
  <2>3. CloneTypes /\ CopyIsAllOrNothing
    BY <2>1, <2>2, CloningAssumption DEF CloneInit, CloneTypes, CopyIsAllOrNothing, NoneCopied
  <2>4. \A j \in CloneJobs : InsertedInv(cloneJob[j]) /\ AloneInv(cloneJob[j])
    BY <2>1 DEF InsertedInv, AloneInv, Acting
  <2>5. AttemptsInv
    BY <2>1, <2>4 DEF CloneInit, AttemptsInv, Acting
  <2> QED
    BY <2>1, <2>3, <2>4, <2>5 DEF CloneInv, CloneInit
<1>2. CloneInv /\ [CloneNext]_cloneVars => CloneInv'
  <2> SUFFICES ASSUME CloneInv, [CloneNext]_cloneVars PROVE CloneInv'
    OBVIOUS
  <2>1. CASE UNCHANGED cloneVars
    BY <2>1 DEF cloneVars, CloneInv, CloneTypes, CopyIsAllOrNothing, InsertedInv, AttemptsInv, AloneInv,
               Settled, Whole
  <2>2. CASE CloneNext
    BY <2>2, CloneStarts, CommandStarts, SchemaSteps, CopyBegins, CopySteps, TokensClear, SequencesReset,
       CopyCommits, CloneActivates, CloneAnnounces, CloneFails, CloneIsDestroyed, CloneIsCutOff DEF CloneNext
  <2> QED
    BY <2>1, <2>2
<1>3. CloneInv => ClonesAreSound
  <2> SUFFICES ASSUME CloneInv PROVE ClonesAreSound
    OBVIOUS
  <2>1. FinishedIsKept /\ FinishedIsWhole
    BY DEF CloneInv, AttemptsInv, Settled, Whole, FinishedIsKept, FinishedIsWhole
  <2>2. FailedLeavesNothing
    BY DEF CloneInv, AttemptsInv, ToCleanUp, FailedLeavesNothing
  <2> QED
    BY <2>1, <2>2 DEF CloneInv, ClonesAreSound
<1> QED
  BY <1>1, <1>2, <1>3, PTL DEF CloneSpec

-----------------------------------------------------------------------------
(***************************************************************************)
(* The commands over all tenants, for any tenants, runs, pages, limits,    *)
(* changes and faults. BatchesInv relates the list of a run, which it read *)
(* once or by pages, to who stays (StayedInv), what it visited to what a   *)
(* migration has made of it (UpInv), and the runs to each other (LockInv). *)
(***************************************************************************)

IsBatch(r) ==
  r = [flags |-> r.flags, step |-> r.step, todo |-> r.todo, page |-> r.page, read |-> r.read,
       visited |-> r.visited, failed |-> r.failed, exit |-> r.exit, over |-> r.over,
       undone |-> r.undone, stayed |-> r.stayed]

\* A run visits a tenant once, no more of them than its limit, and ends with its first
\* failure unless it goes on after errors.
WalkInv(r) ==
  /\ r.visited \in Seq(BatchTenants) /\ IsInjective(r.visited)
  /\ r.todo \subseteq BatchTenants \ ToSet(r.visited)
  /\ r.flags.limit \in Int
  /\ r.flags.limit >= 0 => Len(r.visited) <= r.flags.limit
  /\ r.step # "over" => r.over = "no"
  /\ r.step \in AtOne => r.visited # <<>>
  /\ r.step = "page" => r.flags.paged /\ r.todo = {}
  /\ r.over = "limit" => Len(r.visited) = r.flags.limit
  /\ r.failed # {} /\ ~r.flags.continue => r.over = "failure" /\ r.failed = {Last(r.visited)}

\* Who stays was met or is to come: in the list, or after the page.
StayedInv(r, live) ==
  /\ r.stayed \subseteq BatchTenants
  /\ r.flags.paged =>
       /\ r.page \in Nat
       /\ r.stayed \subseteq live
       /\ \A t \in r.todo \cup ToSet(r.visited) : t <= r.page
       /\ \A t \in r.stayed : t <= r.page /\ r.over \in {"no", "all"} => t \in r.todo \cup ToSet(r.visited)
  /\ ~r.flags.paged /\ r.over = "no" => r.stayed \subseteq r.todo \cup ToSet(r.visited)
  /\ r.over = "all" => r.stayed \subseteq ToSet(r.visited)

Unapplied == {"connect", "before", "lock", "apply"}

\* UpMeansLatest, with the tenant at hand as soon as it was migrated.
UpInv(r, lists) ==
  r.flags.command = "up" /\ ~r.flags.dry =>
    \A t \in ToSet(r.visited) \ (r.failed \cup r.undone) :
      (r.step \in Unapplied /\ t = Last(r.visited)) \/ Level(lists[t]) = Latest

LockInv(u, r, holder) == r.step = "apply" => r.flags.unlocked \/ holder = u

RunIs(u, r, live, lists, holder) ==
  IsBatch(r) /\ WalkInv(r) /\ StayedInv(r, live) /\ UpInv(r, lists) /\ LockInv(u, r, holder)

BatchesInv ==
  /\ tenantIs = [t \in BatchTenants |-> tenantIs[t]]
  /\ batches \in [BatchTenants -> Seq(Nat)]
  /\ batch = [u \in BatchRuns |-> batch[u]]
  /\ \A u \in BatchRuns : RunIs(u, batch[u], Live, batches, locker)

-----------------------------------------------------------------------------
(* What was visited, and what the batches come to.                         *)

LEMMA VisitsGrow ==
  ASSUME NEW S, NEW seq \in Seq(S), NEW t \in S
  PROVE  /\ Append(seq, t) \in Seq(S) /\ Append(seq, t) # <<>>
         /\ Len(seq) \in Nat /\ Len(Append(seq, t)) = Len(seq) + 1
         /\ ToSet(Append(seq, t)) = ToSet(seq) \cup {t}
         /\ Last(Append(seq, t)) = t
         /\ IsInjective(seq) /\ t \notin ToSet(seq) => IsInjective(Append(seq, t))
<1>1. PICK more : more = Append(seq, t)
  OBVIOUS
<1>2. /\ more \in Seq(S) /\ Len(seq) \in Nat /\ Len(more) = Len(seq) + 1
      /\ \A i \in 1..Len(seq) : more[i] = seq[i]
      /\ more[Len(seq) + 1] = t
  BY <1>1, AppendProperties, LenProperties
<1>3. DOMAIN more = 1..(Len(seq) + 1) /\ DOMAIN seq = 1..Len(seq)
  BY <1>2, LenProperties
<1>4. more # <<>> /\ Last(more) = t
  BY <1>2 DEF Last
<1>5. ToSet(more) = ToSet(seq) \cup {t}
  <2>1. ASSUME NEW x \in ToSet(more) PROVE x \in ToSet(seq) \cup {t}
    <3>1. PICK i \in 1..(Len(seq) + 1) : x = more[i]
      BY <1>3, <2>1 DEF ToSet
    <3>2. CASE i = Len(seq) + 1
      BY <1>2, <3>1, <3>2
    <3>3. CASE i # Len(seq) + 1
      <4>1. i \in 1..Len(seq)
        BY <1>2, <3>1, <3>3
      <4> QED
        BY <1>2, <1>3, <3>1, <4>1 DEF ToSet
    <3> QED
      BY <3>2, <3>3
  <2>2. ASSUME NEW x \in ToSet(seq) PROVE x \in ToSet(more)
    <3>1. PICK i \in 1..Len(seq) : x = seq[i]
      BY <1>3, <2>2 DEF ToSet
    <3>2. i \in 1..(Len(seq) + 1) /\ more[i] = x
      BY <1>2, <3>1
    <3> QED
      BY <1>3, <3>2 DEF ToSet
  <2>3. t \in ToSet(more)
    <3>1. Len(seq) + 1 \in 1..(Len(seq) + 1)
      BY <1>2
    <3> QED
      BY <1>2, <1>3, <3>1 DEF ToSet
  <2> QED
    BY <2>1, <2>2, <2>3
<1>6. ASSUME IsInjective(seq), t \notin ToSet(seq) PROVE IsInjective(more)
  <2>1. \A i \in 1..Len(seq) : more[i] = seq[i] /\ more[i] # t
    BY <1>2, <1>3, <1>6 DEF ToSet
  <2>2. \A i, j \in 1..Len(seq) : seq[i] = seq[j] => i = j
    BY <1>3, <1>6 DEF IsInjective
  <2>3. \A i, j \in 1..(Len(seq) + 1) : more[i] = more[j] => i = j
    BY <1>2, <2>1, <2>2
  <2> QED
    BY <1>3, <2>3 DEF IsInjective
<1> QED
  BY <1>1, <1>2, <1>4, <1>5, <1>6

LEMMA LastIsVisited ==
  ASSUME NEW S, NEW seq \in Seq(S), seq # <<>>
  PROVE  Last(seq) \in ToSet(seq) /\ Last(seq) \in S
<1>1. Len(seq) \in DOMAIN seq /\ Len(seq) \in 1..Len(seq)
  BY LenProperties, EmptySeq
<1> QED
  BY <1>1, ElementOfSeq DEF Last, ToSet

LEMMA VisitedAreTenants ==
  ASSUME NEW S, NEW seq \in Seq(S)
  PROVE  ToSet(seq) \subseteq S
  BY LenProperties, ElementOfSeq DEF ToSet

LEMMA NobodyVisited ==
  ASSUME NEW S
  PROVE  <<>> \in Seq(S) /\ ToSet(<<>>) = {} /\ IsInjective(<<>>) /\ Len(<<>>) = 0
<1>1. DOMAIN <<>> = {}
  OBVIOUS
<1> QED
  BY <1>1 DEF ToSet, IsInjective

\* What a migration appends becomes the level of the tenant.
LEMMA LevelIsNat ==
  ASSUME NEW list \in Seq(Nat)
  PROVE  Level(list) \in Nat
  BY LastIsVisited DEF Level

LEMMA AppendedIsLevel ==
  ASSUME NEW list \in Seq(Nat), NEW l \in Nat
  PROVE  Append(list, l) \in Seq(Nat) /\ Level(Append(list, l)) = l
  BY VisitsGrow DEF Level

LEMMA MigratedIsAList ==
  ASSUME NEW list \in Seq(Nat), NEW command
  PROVE  /\ Migrated(list, command) \in Seq(Nat)
         /\ command = "up" => Level(Migrated(list, command)) = Latest
<1>1. CASE command = "up"
  BY <1>1, AppendedIsLevel, BatchesAssumption DEF Migrated
<1>2. CASE command # "up" /\ list = <<>>
  BY <1>2 DEF Migrated
<1>3. CASE command # "up" /\ list # <<>>
  <2>1. Len(list) \in Nat /\ \A i \in 1..Len(list) : list[i] \in Nat
    BY LenProperties, ElementOfSeq
  <2>2. SubSeq(list, 1, Len(list) - 1) \in Seq(Nat)
    BY <2>1, SubSeqProperties
  <2> QED
    BY <1>3, <2>2 DEF Migrated, Front
<1> QED
  BY <1>1, <1>2, <1>3

-----------------------------------------------------------------------------
(* A run, as a record.                                                     *)

Put(r, step, todo, page, read, visited, failed, exit, over, undone, stayed) ==
  [r EXCEPT !.step = step, !.todo = todo, !.page = page, !.read = read, !.visited = visited,
            !.failed = failed, !.exit = exit, !.over = over, !.undone = undone, !.stayed = stayed]

LEMMA PutSets ==
  ASSUME NEW r, IsBatch(r), NEW step, NEW todo, NEW page, NEW read, NEW visited, NEW failed,
         NEW exit, NEW over, NEW undone, NEW stayed, NEW n,
         n = Put(r, step, todo, page, read, visited, failed, exit, over, undone, stayed)
  PROVE  /\ IsBatch(n) /\ n.flags = r.flags /\ n.step = step /\ n.todo = todo /\ n.page = page
         /\ n.visited = visited /\ n.failed = failed /\ n.over = over
         /\ n.undone = undone /\ n.stayed = stayed
<1>1. PICK f, a, b, c, d, e, g, h, i, j, k :
        r = [flags |-> f, step |-> a, todo |-> b, page |-> c, read |-> d, visited |-> e,
             failed |-> g, exit |-> h, over |-> i, undone |-> j, stayed |-> k]
  BY DEF IsBatch
<1>2. n = [flags |-> f, step |-> step, todo |-> todo, page |-> page, read |-> read, visited |-> visited,
           failed |-> failed, exit |-> exit, over |-> over, undone |-> undone, stayed |-> stayed]
  BY <1>1 DEF Put
<1> QED
  BY <1>1, <1>2 DEF IsBatch

\* No tenant loses the latest migration to a run that migrates up.
Kept(lists, more) ==
  \A t \in BatchTenants : Level(lists[t]) = Latest => Level(more[t]) = Latest

\* The tenant at hand goes on to another step, or is done with.
LEMMA StepGoes ==
  ASSUME NEW u, NEW r, NEW live, NEW lists, NEW holder, RunIs(u, r, live, lists, holder),
         r.step \in AtOne, NEW step \in {"before", "lock", "dispatch", "next"},
         NEW more, NEW holds, Kept(lists, more) \/ r.flags.command # "up",
         r.flags.command = "up" /\ ~r.flags.dry /\ step \in {"dispatch", "next"} =>
           \/ Last(r.visited) \in r.undone \/ Level(more[Last(r.visited)]) = Latest
           \/ Last(r.visited) \in r.failed,
         NEW n, n = [r EXCEPT !.step = step]
  PROVE  RunIs(u, n, live, more, holds)
<1>1. IsBatch(r)
  BY DEF RunIs
<1>2. n = Put(r, step, r.todo, r.page, r.read, r.visited, r.failed, r.exit, r.over, r.undone, r.stayed)
  BY <1>1 DEF Put, IsBatch
<1>3. /\ IsBatch(n) /\ n.flags = r.flags /\ n.step = step /\ n.todo = r.todo /\ n.page = r.page
      /\ n.visited = r.visited /\ n.failed = r.failed /\ n.over = r.over
      /\ n.undone = r.undone /\ n.stayed = r.stayed
  BY <1>1, <1>2, PutSets
<1>4. WalkInv(n)
  BY <1>3 DEF RunIs, WalkInv, AtOne
<1>5. StayedInv(n, live)
  BY <1>3 DEF RunIs, StayedInv
<1>6. UpInv(n, more)
  <2>1. SUFFICES ASSUME r.flags.command = "up", ~r.flags.dry,
                        NEW t \in ToSet(r.visited) \ (r.failed \cup r.undone)
                 PROVE  (step \in Unapplied /\ t = Last(r.visited)) \/ Level(more[t]) = Latest
    BY <1>3 DEF UpInv
  <2>2. t \in BatchTenants
    BY <2>1, VisitedAreTenants DEF RunIs, WalkInv
  <2>3. CASE t = Last(r.visited)
    BY <2>1, <2>3 DEF Unapplied
  <2>4. CASE t # Last(r.visited)
    <3>1. Level(lists[t]) = Latest
      BY <2>1, <2>4 DEF RunIs, UpInv
    <3> QED
      BY <2>1, <2>2, <3>1 DEF Kept
  <2> QED
    BY <2>3, <2>4
<1>7. LockInv(u, n, holds)
  BY <1>3 DEF LockInv
<1> QED
  BY <1>3, <1>4, <1>5, <1>6, <1>7 DEF RunIs

LEMMA FailedGoes ==
  ASSUME NEW u, NEW r, NEW live, NEW lists, NEW holder, RunIs(u, r, live, lists, holder),
         r.step \in AtOne, NEW more, NEW holds, Kept(lists, more) \/ r.flags.command # "up",
         NEW n, n = Failed(r)
  PROVE  RunIs(u, n, live, more, holds)
<1>1. IsBatch(r)
  BY DEF RunIs
<1>2. PICK step, over, failed, exit :
        /\ step = IF r.flags.continue THEN "next" ELSE "over"
        /\ over = IF r.flags.continue THEN "no" ELSE "failure"
        /\ failed = r.failed \cup {Last(r.visited)}
        /\ exit = IF r.flags.command \in {"seed", "exec"} THEN 1 ELSE 0
  OBVIOUS
<1>3. n = [r EXCEPT !.step = step, !.over = over, !.failed = failed, !.exit = exit]
  BY <1>2 DEF Failed
<1>4. n = Put(r, step, r.todo, r.page, r.read, r.visited, failed, exit, over, r.undone, r.stayed)
  BY <1>1, <1>3 DEF Put, IsBatch
<1>5. /\ IsBatch(n) /\ n.flags = r.flags /\ n.step = step /\ n.todo = r.todo /\ n.page = r.page
      /\ n.visited = r.visited /\ n.failed = failed /\ n.over = over
      /\ n.undone = r.undone /\ n.stayed = r.stayed
  BY <1>1, <1>4, PutSets
<1>6. r.over = "no" /\ r.visited # <<>> /\ (~r.flags.continue => r.failed = {})
  BY DEF RunIs, WalkInv, AtOne
<1>7. WalkInv(n)
  <2>1. ~r.flags.continue => failed = {Last(r.visited)}
    BY <1>2, <1>6
  <2> QED
    BY <1>2, <1>5, <1>6, <2>1 DEF RunIs, WalkInv, AtOne
<1>8. StayedInv(n, live)
  BY <1>2, <1>5, <1>6 DEF RunIs, StayedInv
<1>9. UpInv(n, more)
  <2>1. SUFFICES ASSUME r.flags.command = "up", ~r.flags.dry,
                        NEW t \in ToSet(r.visited) \ (failed \cup r.undone)
                 PROVE  Level(more[t]) = Latest
    BY <1>5 DEF UpInv
  <2>2. t \in BatchTenants /\ t # Last(r.visited) /\ t \notin r.failed
    BY <1>2, <2>1, VisitedAreTenants DEF RunIs, WalkInv
  <2>3. Level(lists[t]) = Latest
    BY <2>1, <2>2 DEF RunIs, UpInv
  <2> QED
    BY <2>1, <2>2, <2>3 DEF Kept
<1>10. LockInv(u, n, holds)
  BY <1>2, <1>5 DEF LockInv
<1> QED
  BY <1>5, <1>7, <1>8, <1>9, <1>10 DEF RunIs

-----------------------------------------------------------------------------
(* A step of one run, with what the others see of it.                      *)

LEMMA OneRunBecomes ==
  ASSUME BatchesInv, NEW u \in BatchRuns, NEW n, Becomes(u, n), tenantIs' = tenantIs,
         batches' \in [BatchTenants -> Seq(Nat)],
         RunIs(u, n, Live, batches', locker'),
         \A v \in BatchRuns \ {u} : UpInv(batch[v], batches') /\ LockInv(v, batch[v], locker')
  PROVE  BatchesInv'
<1>1. /\ batch' = [v \in BatchRuns |-> batch'[v]]
      /\ \A v \in BatchRuns : batch'[v] = IF v = u THEN n ELSE batch[v]
  BY DEF Becomes, BatchesInv
<1>2. \A v \in BatchRuns : RunIs(v, batch'[v], Live, batches', locker')
  BY <1>1 DEF BatchesInv, RunIs
<1>3. Live' = Live
  BY DEF Live, Known
<1> QED
  BY <1>1, <1>2, <1>3 DEF BatchesInv

LEMMA OneRunGoesOn ==
  ASSUME BatchesInv, NEW u \in BatchRuns, NEW n, Becomes(u, n),
         UNCHANGED <<tenantIs, batches, locker>>, RunIs(u, n, Live, batches, locker)
  PROVE  BatchesInv'
<1>1. \A v \in BatchRuns : UpInv(batch[v], batches') /\ LockInv(v, batch[v], locker')
  BY DEF BatchesInv, RunIs
<1>2. batches' \in [BatchTenants -> Seq(Nat)] /\ RunIs(u, n, Live, batches', locker')
  BY DEF BatchesInv
<1> QED
  BY <1>1, <1>2, OneRunBecomes

LEMMA NothingLost ==
  ASSUME NEW lists
  PROVE  Kept(lists, lists)
  BY DEF Kept

-----------------------------------------------------------------------------
(* The tenants and the list.                                               *)

LEMMA CommandsAreSound ==
  ASSUME NEW c \in Commands
  PROVE  /\ c.limit \in Int /\ (c.paged => c.command = "exec")
         /\ c.command \in {"up", "down", "downAll", "seed", "exec"}
<1>1. PICK never : never = {FALSE}
  OBVIOUS
<1>2. \A b \in never : ~b
  BY <1>1, Zenon
<1>3. CASE c \in Command({"up"}, BOOLEAN, BOOLEAN, {TRUE}, {FALSE}, {NoLimit})
  <2>1. c.paged \in never
    BY <1>1, <1>3 DEF Command
  <2>2. c.limit \in Int /\ c.command \in {"up", "down", "downAll", "seed"}
    BY <1>3 DEF Command, NoLimit
  <2> QED
    BY <1>2, <2>1, <2>2
<1>4. CASE c \in Command({"down", "downAll"}, {FALSE}, BOOLEAN, {TRUE}, {FALSE}, {NoLimit})
  <2>1. c.paged \in never
    BY <1>1, <1>4 DEF Command
  <2>2. c.limit \in Int /\ c.command \in {"up", "down", "downAll", "seed"}
    BY <1>4 DEF Command, NoLimit
  <2> QED
    BY <1>2, <2>1, <2>2
<1>5. CASE c \in Command({"seed"}, {FALSE}, {FALSE}, BOOLEAN, {FALSE}, {NoLimit})
  <2>1. c.paged \in never
    BY <1>1, <1>5 DEF Command
  <2>2. c.limit \in Int /\ c.command \in {"up", "down", "downAll", "seed"}
    BY <1>5 DEF Command, NoLimit
  <2> QED
    BY <1>2, <2>1, <2>2
<1>6. CASE c \in Command({"exec"}, {FALSE}, {FALSE}, BOOLEAN, BOOLEAN, Limits \cup {NoLimit})
  <2>1. c.command \in {"exec"} /\ c.limit \in Limits \cup {NoLimit}
    BY <1>6 DEF Command
  <2>2. NoLimit \in Int
    BY DEF NoLimit
  <2>3. Limits \cup {NoLimit} \subseteq Int
    BY <2>2, BatchesAssumption
  <2>4. PICK limits : limits = Limits \cup {NoLimit}
    OBVIOUS
  <2>5. c.limit \in limits /\ limits \subseteq Int
    BY <2>1, <2>3, <2>4
  <2> QED
    BY <2>1, <2>5
<1> QED
  BY <1>3, <1>4, <1>5, <1>6 DEF Commands

LEMMA ChangeTenantKeeps ==
  ASSUME BatchesInv, NEW t \in BatchTenants, ChangeTenant(t)
  PROVE  BatchesInv'
<1>1. PICK s \in {"active", "suspended", "deleted"} :
        /\ tenantIs[t] = "absent" => s = "active"
        /\ tenantIs[t] # "deleted"
        /\ tenantIs' = [tenantIs EXCEPT ![t] = s]
        /\ batch' = [u \in BatchRuns |->
                       IF s = "deleted" THEN [batch[u] EXCEPT !.stayed = @ \ {t}] ELSE batch[u]]
        /\ UNCHANGED <<batches, locker>>
  BY DEF ChangeTenant
<1>2. /\ tenantIs' = [x \in BatchTenants |-> tenantIs'[x]]
      /\ \A x \in BatchTenants : tenantIs'[x] = IF x = t THEN s ELSE tenantIs[x]
  BY <1>1 DEF BatchesInv
<1>3. \A x \in Live : x \in Live' \/ (s = "deleted" /\ x = t)
  BY <1>1, <1>2 DEF Live, Known
<1>4. ASSUME NEW u \in BatchRuns PROVE RunIs(u, batch'[u], Live', batches, locker)
  <2>1. PICK r, n : r = batch[u] /\ n = batch'[u]
    OBVIOUS
  <2>2. RunIs(u, r, Live, batches, locker) /\ IsBatch(r)
    BY <2>1 DEF BatchesInv, RunIs
  <2>3. PICK stayed : stayed = r.stayed \ {t}
    OBVIOUS
  <2>4. CASE s = "deleted"
    <3>1. n = Put(r, r.step, r.todo, r.page, r.read, r.visited, r.failed, r.exit, r.over, r.undone, stayed)
      <4>1. n = [r EXCEPT !.stayed = stayed]
        BY <1>1, <2>1, <2>3, <2>4
      <4> QED
        BY <2>2, <4>1 DEF Put, IsBatch
    <3>2. /\ IsBatch(n) /\ n.flags = r.flags /\ n.step = r.step /\ n.todo = r.todo /\ n.page = r.page
          /\ n.visited = r.visited /\ n.failed = r.failed /\ n.over = r.over
          /\ n.undone = r.undone /\ n.stayed = stayed
      BY <2>2, <3>1, PutSets
    <3>3. WalkInv(n) /\ UpInv(n, batches) /\ LockInv(u, n, locker)
      BY <2>2, <3>2 DEF RunIs, WalkInv, UpInv, LockInv
    <3>4. StayedInv(n, Live')
      BY <1>3, <2>2, <2>3, <3>2 DEF RunIs, StayedInv
    <3> QED
      BY <2>1, <3>2, <3>3, <3>4 DEF RunIs
  <2>5. CASE s # "deleted"
    <3>1. n = r
      BY <1>1, <2>1, <2>5
    <3>2. StayedInv(r, Live')
      BY <1>3, <2>2, <2>5 DEF RunIs, StayedInv
    <3> QED
      BY <2>1, <2>2, <3>1, <3>2 DEF RunIs
  <2> QED
    BY <2>4, <2>5
<1> QED
  BY <1>1, <1>2, <1>4 DEF BatchesInv

LEMMA StartBatchKeeps ==
  ASSUME BatchesInv, NEW u \in BatchRuns, StartBatch(u)
  PROVE  BatchesInv'
<1>1. PICK c \in Commands :
        Becomes(u, [Unrun EXCEPT !.flags = c, !.stayed = Selected(c.command),
                                 !.step = IF c.paged THEN "page" ELSE "next",
                                 !.todo = IF c.paged THEN {} ELSE Selected(c.command)])
  BY DEF StartBatch
<1>2. PICK flags, none, step, todo, stayed :
        /\ flags = (CHOOSE d \in Commands : TRUE) /\ none = 0
        /\ step = IF c.paged THEN "page" ELSE "next"
        /\ todo = IF c.paged THEN {} ELSE Selected(c.command)
        /\ stayed = Selected(c.command)
  OBVIOUS
<1>3. PICK n : n = [Unrun EXCEPT !.flags = c, !.stayed = stayed, !.step = step, !.todo = todo]
  OBVIOUS
<1>4. n = [flags |-> c, step |-> step, todo |-> todo, page |-> none, read |-> <<>>, visited |-> <<>>,
           failed |-> {}, exit |-> none, over |-> "no", undone |-> {}, stayed |-> stayed]
  BY <1>2, <1>3 DEF Unrun
<1>5. /\ IsBatch(n) /\ n.flags = c /\ n.step = step /\ n.todo = todo /\ n.page = none
      /\ n.visited = <<>> /\ n.failed = {} /\ n.over = "no" /\ n.stayed = stayed
  BY <1>4 DEF IsBatch
<1>6. stayed \subseteq BatchTenants /\ (c.paged => stayed = Live) /\ c.limit \in Int
  BY <1>2, CommandsAreSound DEF Selected, Known, Live, Active
<1>7. WalkInv(n)
  BY <1>2, <1>5, <1>6, NobodyVisited DEF WalkInv, AtOne
<1>8. \A t \in stayed : ~(t <= 0)
  BY <1>6, BatchesAssumption
<1>9. StayedInv(n, Live)
  BY <1>2, <1>5, <1>6, <1>8, NobodyVisited DEF StayedInv
<1>10. UpInv(n, batches) /\ LockInv(u, n, locker)
  BY <1>2, <1>5, NobodyVisited DEF UpInv, LockInv
<1>11. Becomes(u, n)
  BY <1>1, <1>2, <1>3
<1> QED
  BY <1>5, <1>7, <1>9, <1>10, <1>11, OneRunGoesOn DEF RunIs, StartBatch

\* The end of the loop.
LEMMA OverGoes ==
  ASSUME NEW u, NEW r, NEW live, NEW lists, NEW holder, RunIs(u, r, live, lists, holder),
         r.step \in {"page", "next"}, NEW why \in {"all", "limit"},
         why = "limit" => Len(r.visited) = r.flags.limit,
         why = "all" => r.stayed \subseteq ToSet(r.visited),
         NEW n, n = Over(r, why)
  PROVE  RunIs(u, n, live, lists, holder)
<1>1. IsBatch(r) /\ r.over = "no"
  BY DEF RunIs, WalkInv
<1>2. PICK step : step = "over"
  OBVIOUS
<1>3. n = Put(r, step, r.todo, r.page, r.read, r.visited, r.failed, r.exit, why, r.undone, r.stayed)
  BY <1>1, <1>2 DEF Put, IsBatch, Over
<1>4. /\ IsBatch(n) /\ n.flags = r.flags /\ n.step = step /\ n.todo = r.todo /\ n.page = r.page
      /\ n.visited = r.visited /\ n.failed = r.failed /\ n.over = why
      /\ n.undone = r.undone /\ n.stayed = r.stayed
  BY <1>1, <1>3, PutSets
<1>5. WalkInv(n)
  BY <1>1, <1>2, <1>4 DEF RunIs, WalkInv, AtOne
<1>6. StayedInv(n, live)
  BY <1>1, <1>4 DEF RunIs, StayedInv
<1>7. UpInv(n, lists) /\ LockInv(u, n, holder)
  BY <1>2, <1>4 DEF RunIs, UpInv, LockInv, Unapplied
<1> QED
  BY <1>4, <1>5, <1>6, <1>7 DEF RunIs

LEMMA ReadPageKeeps ==
  ASSUME BatchesInv, NEW u \in BatchRuns, ReadPage(u)
  PROVE  BatchesInv'
<1>1. PICK r : r = batch[u]
  OBVIOUS
<1>2. RunIs(u, r, Live, batches, locker) /\ IsBatch(r) /\ r.step = "page"
  BY <1>1 DEF BatchesInv, RunIs, ReadPage
<1>3. /\ r.flags.paged /\ r.todo = {} /\ r.over = "no" /\ r.page \in Nat /\ r.stayed \subseteq Live
      /\ \A t \in ToSet(r.visited) : t <= r.page
      /\ \A t \in r.stayed : t <= r.page => t \in ToSet(r.visited)
  BY <1>2 DEF RunIs, WalkInv, StayedInv
<1>4. Live \subseteq BatchTenants /\ BatchTenants \subseteq Nat /\ ToSet(r.visited) \subseteq BatchTenants
  BY <1>2, BatchesAssumption, VisitedAreTenants DEF Live, Known, RunIs, WalkInv
<1>5. \A t \in Live : t \in Nat /\ (t > r.page \/ t <= r.page) /\ ~(t > r.page /\ t <= r.page)
  BY <1>3, <1>4
<1>6. CASE {t \in Live : t > r.page} = {} /\ Becomes(u, Over(r, "all"))
  <2>1. r.stayed \subseteq ToSet(r.visited)
    <3>1. \A t \in Live : t <= r.page
      BY <1>6, <1>5
    <3> QED
      BY <1>3, <3>1
  <2>2. RunIs(u, Over(r, "all"), Live, batches, locker)
    BY <1>2, <2>1, OverGoes
  <2> QED
    BY <1>6, <2>2, OneRunGoesOn DEF ReadPage
<1>7. ASSUME NEW last \in {t \in Live : t > r.page},
             Becomes(u, [r EXCEPT !.step = "next", !.page = last,
                                  !.todo = {t \in {x \in Live : x > r.page} : t <= last}])
      PROVE  BatchesInv'
  <2>1. PICK step, todo : step = "next" /\ todo = {t \in {x \in Live : x > r.page} : t <= last}
    OBVIOUS
  <2>2. PICK n : n = [r EXCEPT !.step = step, !.page = last, !.todo = todo]
    OBVIOUS
  <2>3. n = Put(r, step, todo, last, r.read, r.visited, r.failed, r.exit, r.over, r.undone, r.stayed)
    BY <1>2, <2>2 DEF Put, IsBatch
  <2>4. /\ IsBatch(n) /\ n.flags = r.flags /\ n.step = step /\ n.todo = todo /\ n.page = last
        /\ n.visited = r.visited /\ n.failed = r.failed /\ n.over = r.over
        /\ n.undone = r.undone /\ n.stayed = r.stayed
    BY <1>2, <2>3, PutSets
  <2>5. /\ todo \subseteq BatchTenants \ ToSet(r.visited) /\ last \in Nat
        /\ \A t \in todo \cup ToSet(r.visited) : t <= last
        /\ \A t \in r.stayed : t <= last => t \in todo \cup ToSet(r.visited)
    <3>1. last \in Live /\ last > r.page /\ last \in Nat
      BY <1>7, <1>5
    <3>2. todo \subseteq BatchTenants \ ToSet(r.visited)
      BY <1>3, <1>4, <1>5, <2>1
    <3>3. ASSUME NEW t \in todo \cup ToSet(r.visited) PROVE t <= last
      BY <1>3, <1>4, <2>1, <3>1
    <3>4. ASSUME NEW t \in r.stayed, t <= last PROVE t \in todo \cup ToSet(r.visited)
      BY <1>3, <1>5, <2>1, <3>4
    <3> QED
      BY <3>1, <3>2, <3>3, <3>4
  <2>6. WalkInv(n)
    BY <1>2, <2>1, <2>4, <2>5 DEF RunIs, WalkInv, AtOne
  <2>7. StayedInv(n, Live)
    BY <1>2, <1>3, <2>4, <2>5 DEF RunIs, StayedInv
  <2>8. UpInv(n, batches) /\ LockInv(u, n, locker)
    BY <1>2, <2>1, <2>4 DEF RunIs, UpInv, LockInv, Unapplied
  <2>9. Becomes(u, n)
    BY <1>7, <2>1, <2>2
  <2> QED
    BY <2>4, <2>6, <2>7, <2>8, <2>9, OneRunGoesOn DEF RunIs, ReadPage
<1> QED
  BY <1>1, <1>6, <1>7 DEF ReadPage

LEMMA NextTenantKeeps ==
  ASSUME BatchesInv, NEW u \in BatchRuns, NextTenant(u)
  PROVE  BatchesInv'
<1>1. PICK r : r = batch[u]
  OBVIOUS
<1>2. RunIs(u, r, Live, batches, locker) /\ IsBatch(r) /\ r.step = "next" /\ r.over = "no"
  BY <1>1 DEF BatchesInv, RunIs, WalkInv, NextTenant
<1>3. UNCHANGED <<tenantIs, batches, locker>>
  BY DEF NextTenant
<1>4. r.visited \in Seq(BatchTenants) /\ Len(r.visited) \in Nat /\ r.flags.limit \in Int
  BY <1>2, LenProperties DEF RunIs, WalkInv
<1>5. CASE r.todo = {} /\ r.flags.paged /\ Goes(u, "page")
  <2>1. PICK step : step = "page"
    OBVIOUS
  <2>2. PICK n : n = [r EXCEPT !.step = step]
    OBVIOUS
  <2>3. n = Put(r, step, r.todo, r.page, r.read, r.visited, r.failed, r.exit, r.over, r.undone, r.stayed)
    BY <1>2, <2>2 DEF Put, IsBatch
  <2>4. /\ IsBatch(n) /\ n.flags = r.flags /\ n.step = step /\ n.todo = r.todo /\ n.page = r.page
        /\ n.visited = r.visited /\ n.failed = r.failed /\ n.over = r.over
        /\ n.undone = r.undone /\ n.stayed = r.stayed
    BY <1>2, <2>3, PutSets
  <2>5. WalkInv(n) /\ StayedInv(n, Live) /\ UpInv(n, batches) /\ LockInv(u, n, locker)
    BY <1>2, <1>5, <2>1, <2>4 DEF RunIs, WalkInv, StayedInv, UpInv, LockInv, AtOne, Unapplied
  <2>6. Becomes(u, n)
    BY <1>1, <1>5, <2>1, <2>2 DEF Goes
  <2> QED
    BY <1>3, <2>4, <2>5, <2>6, OneRunGoesOn DEF RunIs
<1>6. CASE r.todo = {} /\ ~r.flags.paged /\ Becomes(u, Over(r, "all"))
  <2>1. r.stayed \subseteq ToSet(r.visited)
    BY <1>2, <1>6 DEF RunIs, StayedInv
  <2>2. RunIs(u, Over(r, "all"), Live, batches, locker)
    BY <1>2, <2>1, OverGoes
  <2> QED
    BY <1>3, <1>6, <2>2, OneRunGoesOn
<1>7. CASE LimitReached(u) /\ Becomes(u, Over(r, "limit"))
  <2>1. Len(r.visited) = r.flags.limit
    BY <1>1, <1>2, <1>4, <1>7 DEF LimitReached, RunIs, WalkInv
  <2>2. RunIs(u, Over(r, "limit"), Live, batches, locker)
    BY <1>2, <2>1, OverGoes
  <2> QED
    BY <1>3, <1>7, <2>2, OneRunGoesOn
<1>8. ASSUME ~LimitReached(u), NEW t \in r.todo,
             Becomes(u, [r EXCEPT !.step = "connect", !.todo = r.todo \ {t},
                                  !.visited = Append(r.visited, t)])
      PROVE  BatchesInv'
  <2>1. PICK step, todo, visited :
          step = "connect" /\ todo = r.todo \ {t} /\ visited = Append(r.visited, t)
    OBVIOUS
  <2>2. PICK n : n = [r EXCEPT !.step = step, !.todo = todo, !.visited = visited]
    OBVIOUS
  <2>3. n = Put(r, step, todo, r.page, r.read, visited, r.failed, r.exit, r.over, r.undone, r.stayed)
    BY <1>2, <2>2 DEF Put, IsBatch
  <2>4. /\ IsBatch(n) /\ n.flags = r.flags /\ n.step = step /\ n.todo = todo /\ n.page = r.page
        /\ n.visited = visited /\ n.failed = r.failed /\ n.over = r.over
        /\ n.undone = r.undone /\ n.stayed = r.stayed
    BY <1>2, <2>3, PutSets
  <2>5. t \in BatchTenants /\ t \notin ToSet(r.visited) /\ r.todo \subseteq BatchTenants \ ToSet(r.visited)
    BY <1>2 DEF RunIs, WalkInv
  <2>6. /\ visited \in Seq(BatchTenants) /\ visited # <<>> /\ Len(visited) = Len(r.visited) + 1
        /\ ToSet(visited) = ToSet(r.visited) \cup {t} /\ Last(visited) = t /\ IsInjective(visited)
    <3>1. IsInjective(r.visited)
      BY <1>2 DEF RunIs, WalkInv
    <3> QED
      BY <1>4, <2>1, <2>5, <3>1, VisitsGrow
  <2>7. r.flags.limit >= 0 => Len(visited) <= r.flags.limit
    BY <1>1, <1>4, <1>8, <2>6 DEF LimitReached
  <2>8. WalkInv(n)
    BY <1>2, <2>1, <2>4, <2>5, <2>6, <2>7 DEF RunIs, WalkInv, AtOne
  <2>9. todo \cup ToSet(visited) = r.todo \cup ToSet(r.visited)
    BY <2>1, <2>6
  <2>10. StayedInv(n, Live)
    BY <1>2, <2>4, <2>9 DEF RunIs, StayedInv
  <2>11. UpInv(n, batches)
    BY <1>2, <2>1, <2>4, <2>6 DEF RunIs, UpInv, Unapplied
  <2>12. LockInv(u, n, locker)
    BY <2>1, <2>4 DEF LockInv
  <2>13. Becomes(u, n)
    BY <1>8, <2>1, <2>2
  <2> QED
    BY <1>3, <2>4, <2>8, <2>10, <2>11, <2>12, <2>13, OneRunGoesOn DEF RunIs
<1> QED
  BY <1>1, <1>5, <1>6, <1>7, <1>8 DEF NextTenant

-----------------------------------------------------------------------------
(* The tenant at hand.                                                     *)

LEMMA PassesKeeps ==
  ASSUME BatchesInv, NEW u \in BatchRuns, NEW next, Passes(u, next), batch[u].step \in AtOne,
         RunIs(u, next, Live, batches, locker)
  PROVE  BatchesInv'
<1>1. UNCHANGED <<tenantIs, batches, locker>>
  BY DEF Passes
<1>2. CASE Becomes(u, next)
  BY <1>1, <1>2, OneRunGoesOn
<1>3. CASE Becomes(u, Failed(batch[u]))
  <2>1. RunIs(u, batch[u], Live, batches, locker)
    BY DEF BatchesInv
  <2>2. RunIs(u, Failed(batch[u]), Live, batches, locker)
    BY <2>1, FailedGoes, NothingLost
  <2> QED
    BY <1>1, <1>3, <2>2, OneRunGoesOn
<1> QED
  BY <1>2, <1>3 DEF Passes

\* Connect, the hooks before a migration, seeds and inner commands; a migration that is
\* announced is done.
LEMMA PassingKeeps ==
  ASSUME BatchesInv, NEW u \in BatchRuns,
         \/ ConnectTenant(u) \/ BeforeMigrate(u)
         \/ SeedTenant(u) \/ ExecInTenant(u) \/ AnnounceMigration(u)
  PROVE  BatchesInv'
<1>1. PICK r : r = batch[u]
  OBVIOUS
<1>2. PICK step \in {"before", "lock", "next"} :
        /\ Passes(u, [r EXCEPT !.step = step])
        /\ r.step \in AtOne
        /\ step = "next" => r.flags.command \in {"seed", "exec"} \/ r.step = "dispatch"
  <2>1. ASSUME ConnectTenant(u)
        PROVE  \E step \in {"before", "lock", "next"} :
                 Passes(u, [r EXCEPT !.step = step]) /\ r.step \in AtOne /\ step # "next"
    <3>1. PICK step : step = IF r.flags.dry THEN "lock" ELSE "before"
      OBVIOUS
    <3>2. step \in {"before", "lock"} /\ r.step \in AtOne /\ Passes(u, [r EXCEPT !.step = step])
      BY <1>1, <2>1, <3>1 DEF ConnectTenant, AtOne
    <3> QED
      BY <3>2
  <2>2. ASSUME BeforeMigrate(u)
        PROVE  Passes(u, [r EXCEPT !.step = "lock"]) /\ r.step \in AtOne
    BY <1>1, <2>2 DEF BeforeMigrate, AtOne
  <2>3. ASSUME SeedTenant(u) \/ ExecInTenant(u) \/ AnnounceMigration(u)
        PROVE  /\ Passes(u, [r EXCEPT !.step = "next"]) /\ r.step \in AtOne
               /\ r.flags.command \in {"seed", "exec"} \/ r.step = "dispatch"
    BY <1>1, <2>3 DEF SeedTenant, ExecInTenant, AnnounceMigration, Succeeded, AtOne
  <2> QED
    BY <2>1, <2>2, <2>3
<1>3. RunIs(u, r, Live, batches, locker)
  BY <1>1 DEF BatchesInv
<1>4. r.flags.command = "up" /\ ~r.flags.dry /\ step = "next" =>
        Last(r.visited) \in r.undone \/ Level(batches[Last(r.visited)]) = Latest \/ Last(r.visited) \in r.failed
  <2>1. r.visited \in Seq(BatchTenants) /\ r.visited # <<>>
    BY <1>2, <1>3 DEF RunIs, WalkInv
  <2> QED
    BY <1>2, <1>3, <2>1, LastIsVisited DEF RunIs, UpInv, Unapplied
<1>5. RunIs(u, [r EXCEPT !.step = step], Live, batches, locker)
  BY <1>2, <1>3, <1>4, StepGoes, NothingLost
<1> QED
  BY <1>1, <1>2, <1>5, PassesKeeps

-----------------------------------------------------------------------------
(* Migrations.                                                             *)

LEMMA LockMigrationsKeeps ==
  ASSUME BatchesInv, NEW u \in BatchRuns, LockMigrations(u)
  PROVE  BatchesInv'
<1>1. PICK r : r = batch[u]
  OBVIOUS
<1>2. RunIs(u, r, Live, batches, locker) /\ IsBatch(r) /\ r.step = "lock" /\ r.step \in AtOne
  BY <1>1 DEF BatchesInv, RunIs, LockMigrations, AtOne
<1>3. tenantIs' = tenantIs /\ batches' = batches /\ batches' \in [BatchTenants -> Seq(Nat)]
  BY DEF LockMigrations, BatchesInv
<1>4. \A v \in BatchRuns : UpInv(batch[v], batches) /\ LockInv(v, batch[v], locker)
  BY DEF BatchesInv, RunIs
<1>5. CASE Becomes(u, Failed(r)) /\ UNCHANGED locker
  <2>1. RunIs(u, Failed(r), Live, batches, locker)
    BY <1>2, FailedGoes, NothingLost
  <2> QED
    BY <1>3, <1>5, <2>1, OneRunGoesOn
<1>6. ASSUME Becomes(u, [r EXCEPT !.step = "apply", !.read = batches[AtTenant(u)]]),
             locker' = locker \/ (locker = NoRun /\ locker' = u),
             r.flags.unlocked \/ locker' = u
      PROVE  BatchesInv'
  <2>1. PICK step, read : step = "apply" /\ read = batches[AtTenant(u)]
    OBVIOUS
  <2>2. PICK n : n = [r EXCEPT !.step = step, !.read = read]
    OBVIOUS
  <2>3. n = Put(r, step, r.todo, r.page, read, r.visited, r.failed, r.exit, r.over, r.undone, r.stayed)
    BY <1>2, <2>2 DEF Put, IsBatch
  <2>4. /\ IsBatch(n) /\ n.flags = r.flags /\ n.step = step /\ n.todo = r.todo /\ n.page = r.page
        /\ n.visited = r.visited /\ n.failed = r.failed /\ n.over = r.over
        /\ n.undone = r.undone /\ n.stayed = r.stayed
    BY <1>2, <2>3, PutSets
  <2>5. WalkInv(n) /\ StayedInv(n, Live)
    BY <1>2, <2>1, <2>4 DEF RunIs, WalkInv, StayedInv, AtOne
  <2>6. UpInv(n, batches)
    BY <1>2, <2>1, <2>4 DEF RunIs, UpInv, Unapplied
  <2>7. LockInv(u, n, locker')
    BY <1>6, <2>4 DEF LockInv
  <2>8. \A v \in BatchRuns \ {u} : LockInv(v, batch[v], locker')
    BY <1>4, <1>6, BatchesAssumption DEF LockInv
  <2>9. Becomes(u, n)
    BY <1>6, <2>1, <2>2
  <2> QED
    BY <1>3, <1>4, <2>4, <2>5, <2>6, <2>7, <2>8, <2>9, OneRunBecomes DEF RunIs
<1> QED
  BY <1>1, <1>5, <1>6 DEF LockMigrations

LEMMA ApplyMigrationsKeeps ==
  ASSUME BatchesInv, NEW u \in BatchRuns, ApplyMigrations(u)
  PROVE  BatchesInv'
<1>1. PICK r, t : r = batch[u] /\ t = AtTenant(u)
  OBVIOUS
<1>2. RunIs(u, r, Live, batches, locker) /\ IsBatch(r) /\ r.step = "apply" /\ r.step \in AtOne
  BY <1>1 DEF BatchesInv, RunIs, ApplyMigrations, AtOne
<1>3. t = Last(r.visited) /\ t \in BatchTenants /\ batches[t] \in Seq(Nat)
  <2>1. r.visited \in Seq(BatchTenants) /\ r.visited # <<>>
    BY <1>2 DEF RunIs, WalkInv
  <2> QED
    BY <1>1, <2>1, LastIsVisited DEF AtTenant, BatchesInv
<1>4. tenantIs' = tenantIs /\ locker' = IF locker = u THEN NoRun ELSE locker
  BY DEF ApplyMigrations
<1>5. \A v \in BatchRuns : RunIs(v, batch[v], Live, batches, locker)
  BY DEF BatchesInv
<1>6. \A v \in BatchRuns \ {u} : LockInv(v, batch[v], locker')
  BY <1>4, <1>5 DEF RunIs, LockInv
<1>7. ASSUME NEW v \in BatchRuns, Kept(batches, batches') PROVE UpInv(batch[v], batches')
  <2>1. ToSet(batch[v].visited) \subseteq BatchTenants
    BY <1>5, VisitedAreTenants DEF RunIs, WalkInv
  <2> QED
    BY <1>5, <1>7, <2>1 DEF RunIs, UpInv, Kept
<1>8. CASE /\ r.flags.dry \/ batches[t] = r.read
           /\ batches' = IF r.flags.dry THEN batches
                         ELSE [batches EXCEPT ![t] = Migrated(batches[t], r.flags.command)]
           /\ batch' = [v \in BatchRuns |->
                IF v = u THEN IF r.flags.dry THEN Succeeded(r) ELSE [r EXCEPT !.step = "dispatch"]
                ELSE IF r.flags.command = "up" \/ batch[v].flags.command # "up" THEN batch[v]
                ELSE [batch[v] EXCEPT !.undone = batch[v].undone \cup {t}]]
  <2>1. batches' \in [BatchTenants -> Seq(Nat)]
    BY <1>3, <1>8, MigratedIsAList DEF BatchesInv
  <2>2. \A x \in BatchTenants : x # t => batches'[x] = batches[x]
    BY <1>8 DEF BatchesInv
  <2>3. r.flags.command = "up" /\ ~r.flags.dry => Level(batches'[t]) = Latest
    BY <1>3, <1>8, MigratedIsAList DEF BatchesInv
  <2>4. Kept(batches, batches') \/ r.flags.command # "up"
    <3>1. CASE r.flags.dry
      BY <1>8, <3>1 DEF Kept
    <3>2. CASE ~r.flags.dry
      BY <2>2, <2>3, <3>2 DEF Kept
    <3> QED
      BY <3>1, <3>2
  <2>5. RunIs(u, batch'[u], Live, batches', locker')
    <3>1. CASE r.flags.dry
      <4>1. batch'[u] = [r EXCEPT !.step = "next"]
        BY <1>8, <3>1 DEF Succeeded
      <4> QED
        BY <1>2, <2>4, <3>1, <4>1, StepGoes
    <3>2. CASE ~r.flags.dry
      <4>1. batch'[u] = [r EXCEPT !.step = "dispatch"]
        BY <1>8, <3>2
      <4> QED
        BY <1>2, <1>3, <2>3, <2>4, <4>1, StepGoes
    <3> QED
      BY <3>1, <3>2
  <2>6. ASSUME NEW v \in BatchRuns \ {u} PROVE RunIs(v, batch'[v], Live, batches', locker')
    <3>1. PICK q : q = batch[v]
      OBVIOUS
    <3>2. RunIs(v, q, Live, batches, locker) /\ IsBatch(q) /\ LockInv(v, q, locker')
      BY <1>5, <1>6, <3>1 DEF RunIs
    <3>3. CASE r.flags.command = "up" \/ q.flags.command # "up"
      <4>1. batch'[v] = q
        BY <1>8, <3>1, <3>3
      <4>2. UpInv(q, batches')
        <5>1. CASE q.flags.command # "up"
          BY <5>1 DEF UpInv
        <5>2. CASE q.flags.command = "up"
          BY <1>7, <2>4, <3>1, <3>3, <5>2
        <5> QED
          BY <5>1, <5>2
      <4> QED
        BY <3>2, <4>1, <4>2 DEF RunIs
    <3>4. CASE r.flags.command # "up" /\ q.flags.command = "up"
      <4>1. PICK undone, n : undone = q.undone \cup {t} /\ n = batch'[v]
        OBVIOUS
      <4>2. n = [q EXCEPT !.undone = undone]
        BY <1>8, <3>1, <3>4, <4>1
      <4>3. n = Put(q, q.step, q.todo, q.page, q.read, q.visited, q.failed, q.exit, q.over, undone, q.stayed)
        BY <3>2, <4>2 DEF Put, IsBatch
      <4>4. /\ IsBatch(n) /\ n.flags = q.flags /\ n.step = q.step /\ n.todo = q.todo /\ n.page = q.page
            /\ n.visited = q.visited /\ n.failed = q.failed /\ n.over = q.over
            /\ n.undone = undone /\ n.stayed = q.stayed
        BY <3>2, <4>3, PutSets
      <4>5. WalkInv(n) /\ StayedInv(n, Live) /\ LockInv(v, n, locker')
        BY <3>2, <4>4 DEF RunIs, WalkInv, StayedInv, LockInv
      <4>6. ToSet(q.visited) \subseteq BatchTenants
        BY <3>2, VisitedAreTenants DEF RunIs, WalkInv
      <4>7. UpInv(n, batches')
        BY <2>2, <3>2, <4>1, <4>4, <4>6 DEF RunIs, UpInv
      <4> QED
        BY <4>1, <4>4, <4>5, <4>7 DEF RunIs
    <3> QED
      BY <3>3, <3>4
  <2>7. batch' = [v \in BatchRuns |-> batch'[v]] /\ Live' = Live
    BY <1>4, <1>8 DEF Live, Known
  <2> QED
    BY <1>4, <2>1, <2>5, <2>6, <2>7 DEF BatchesInv
<1>9. ASSUME Becomes(u, Failed(r)), batches' \in [BatchTenants -> Seq(Nat)], Kept(batches, batches')
      PROVE  BatchesInv'
  <2>1. RunIs(u, Failed(r), Live, batches', locker')
    BY <1>2, <1>9, FailedGoes
  <2> QED
    BY <1>4, <1>6, <1>7, <1>9, <2>1, OneRunBecomes
<1>10. ASSUME NEW l \in {Level(batches[t])} \cup (Level(batches[t])..(Latest - 1)),
              batches' = IF r.flags.command = "up" /\ ~r.flags.dry /\ l > Level(batches[t])
                         THEN [batches EXCEPT ![t] = Append(batches[t], l)] ELSE batches
       PROVE  batches' \in [BatchTenants -> Seq(Nat)] /\ Kept(batches, batches')
  <2>1. Level(batches[t]) \in Nat /\ l \in Nat
    BY <1>3, <1>10, LevelIsNat, BatchesAssumption
  <2>2. CASE batches' = batches
    BY <2>2 DEF Kept, BatchesInv
  <2>3. CASE l > Level(batches[t]) /\ batches' = [batches EXCEPT ![t] = Append(batches[t], l)]
    <3>1. Append(batches[t], l) \in Seq(Nat)
      BY <1>3, <2>1, AppendedIsLevel
    <3>2. Level(batches[t]) # Latest
      BY <1>10, <2>1, <2>3, BatchesAssumption
    <3> QED
      BY <1>3, <2>3, <3>1, <3>2 DEF Kept, BatchesInv
  <2> QED
    BY <1>10, <2>2, <2>3
<1>11. CASE /\ BatchFault
            /\ \E l \in {Level(batches[t])} \cup (Level(batches[t])..(Latest - 1)) :
                 batches' = IF r.flags.command = "up" /\ ~r.flags.dry /\ l > Level(batches[t])
                            THEN [batches EXCEPT ![t] = Append(batches[t], l)] ELSE batches
            /\ Becomes(u, Failed(r))
  BY <1>9, <1>10, <1>11
<1>12. CASE Becomes(u, Failed(r)) /\ UNCHANGED batches
  BY <1>9, <1>12, NothingLost DEF BatchesInv
<1> QED
  BY <1>1, <1>8, <1>11, <1>12 DEF ApplyMigrations

-----------------------------------------------------------------------------
(* The theorem.                                                            *)

LEMMA NoBatchYet ==
  ASSUME BatchesInit
  PROVE  BatchesInv
<1>1. /\ tenantIs = [t \in BatchTenants |-> tenantIs[t]]
      /\ batch = [u \in BatchRuns |-> Unrun]
  BY DEF BatchesInit
<1>2. batches \in [BatchTenants -> Seq(Nat)]
  <2>1. <<>> \in Seq(Nat) /\ <<1>> \in Seq(Nat)
    OBVIOUS
  <2> QED
    BY <2>1 DEF BatchesInit
<1>3. PICK n : n = Unrun
  OBVIOUS
<1>4. PICK flags, none : flags = (CHOOSE c \in Commands : TRUE) /\ none = 0
  OBVIOUS
<1>5. n = [flags |-> flags, step |-> "idle", todo |-> {}, page |-> none, read |-> <<>>, visited |-> <<>>,
           failed |-> {}, exit |-> none, over |-> "no", undone |-> {}, stayed |-> {}]
  BY <1>3, <1>4 DEF Unrun
<1>6. /\ IsBatch(n) /\ n.flags = flags /\ n.step = "idle" /\ n.todo = {} /\ n.page = none
      /\ n.visited = <<>> /\ n.failed = {} /\ n.over = "no" /\ n.stayed = {}
  BY <1>5 DEF IsBatch
<1>7. flags \in Commands
  <2>1. Command({"up"}, BOOLEAN, BOOLEAN, {TRUE}, {FALSE}, {NoLimit}) # {}
    <3>1. PICK up, least : up \in {"up"} /\ least \in {NoLimit}
      OBVIOUS
    <3>2. PICK yes : yes \in {TRUE}
      BY Zenon
    <3>3. PICK no : no \in {FALSE}
      BY Zenon
    <3>4. PICK either : either \in BOOLEAN
      BY Zenon
    <3>5. [command |-> up, dry |-> either, unlocked |-> either, continue |-> yes, paged |-> no, limit |-> least]
            \in [command : {"up"}, dry : BOOLEAN, unlocked : BOOLEAN, continue : {TRUE}, paged : {FALSE}, limit : {NoLimit}]
      BY <3>1, <3>2, <3>3, <3>4, Zenon
    <3> QED
      BY <3>5, Zenon DEF Command
  <2>2. \E c \in Commands : TRUE
    BY <2>1 DEF Commands
  <2> QED
    BY <1>4, <2>2, Zenon
<1>8. WalkInv(n)
  BY <1>6, <1>7, NobodyVisited, CommandsAreSound DEF WalkInv, AtOne
<1>9. StayedInv(n, Live) /\ UpInv(n, batches)
  BY <1>4, <1>6, NobodyVisited DEF StayedInv, UpInv
<1>10. \A u : LockInv(u, n, locker)
  BY <1>6 DEF LockInv
<1> QED
  BY <1>1, <1>2, <1>3, <1>6, <1>8, <1>9, <1>10 DEF BatchesInv, RunIs

LEMMA EveryBatchStepKeeps ==
  ASSUME BatchesInv, [BatchesNext]_batchVars
  PROVE  BatchesInv'
<1>1. CASE UNCHANGED batchVars
  <2>1. Live' = Live
    BY <1>1 DEF batchVars, Live, Known
  <2> QED
    BY <1>1, <2>1 DEF batchVars, BatchesInv
<1>2. CASE \E t \in BatchTenants : ChangeTenant(t)
  BY <1>2, ChangeTenantKeeps
<1>3. ASSUME NEW u \in BatchRuns,
             \/ StartBatch(u) \/ ReadPage(u) \/ NextTenant(u) \/ ConnectTenant(u) \/ BeforeMigrate(u)
             \/ SeedTenant(u) \/ ExecInTenant(u) \/ LockMigrations(u) \/ ApplyMigrations(u)
             \/ AnnounceMigration(u)
      PROVE  BatchesInv'
  BY <1>3, StartBatchKeeps, ReadPageKeeps, NextTenantKeeps, PassingKeeps, LockMigrationsKeeps,
     ApplyMigrationsKeeps
<1> QED
  BY <1>1, <1>2, <1>3 DEF BatchesNext

LEMMA RunsAreExact ==
  ASSUME BatchesInv
  PROVE  BatchesAreExact
<1>1. OneMigratesAtATime
  BY DEF BatchesInv, RunIs, LockInv, OneMigratesAtATime
<1>2. ASSUME NEW u \in BatchRuns PROVE UpMeansLatest(u)
  BY DEF BatchesInv, RunIs, UpInv, UpMeansLatest, AtTenant, Unapplied, AtOne
<1>3. ASSUME NEW u \in BatchRuns PROVE NobodyIsLeftOut(u)
  BY DEF BatchesInv, RunIs, WalkInv, StayedInv, NobodyIsLeftOut
<1> QED
  BY <1>1, <1>2, <1>3 DEF BatchesAreExact

\* The commands over all tenants (commands/tenant_migrate.ts, tenant_exec.ts and their
\* like): a tenant not counted as failed has every migration, runs that keep the locks
\* migrate one at a time, and nobody that stays is left out or met twice.
THEOREM BatchesStayExact == BatchesSpec => []BatchesAreExact
<1>1. BatchesInit => BatchesInv
  BY NoBatchYet
<1>2. BatchesInv /\ [BatchesNext]_batchVars => BatchesInv'
  BY EveryBatchStepKeeps
<1>3. BatchesInv => BatchesAreExact
  BY RunsAreExact
<1> QED
  BY <1>1, <1>2, <1>3, PTL DEF BatchesSpec

-----------------------------------------------------------------------------
(***************************************************************************)
(* Backups, for any workers, cap, keepLast, backups and faults.            *)
(***************************************************************************)

-----------------------------------------------------------------------------
(* Lists in which nothing is twice, and counting.                          *)

ListOf(list, files) ==
  list \in Seq(Files) /\ IsInjective(list) /\ Len(list) <= Cap /\ ToSet(list) \subseteq files

\* g was put on the list after f.
Before(list, g, f) == \E i, j \in DOMAIN list : i < j /\ list[i] = g /\ list[j] = f

LEMMA ListCounts ==
  ASSUME NEW S, NEW list \in Seq(S), IsInjective(list)
  PROVE  /\ IsFiniteSet(ToSet(list)) /\ Cardinality(ToSet(list)) = Len(list)
         /\ Len(list) \in Nat /\ ToSet(list) \subseteq S
<1>1. Len(list) \in Nat /\ DOMAIN list = 1..Len(list) /\ list \in [1..Len(list) -> S]
  BY LenProperties
<1>2. list \in [1..Len(list) -> ToSet(list)]
  BY <1>1 DEF ToSet
<1>3. list \in Surjection(1..Len(list), ToSet(list)) /\ list \in Injection(1..Len(list), ToSet(list))
  BY <1>1, <1>2 DEF Surjection, Injection, ToSet, IsInjective
<1>4. IsFiniteSet(1..Len(list)) /\ Cardinality(1..Len(list)) = Len(list)
  BY <1>1, FS_Interval
<1> QED
  BY <1>1, <1>3, <1>4, FS_Surjection DEF ToSet

\* A list of m entries with a new one first, cut to at most n, place by place.
Shifted(list, m, h, n, longer, len) ==
  /\ m \in Nat /\ n \in Nat /\ len \in Nat
  /\ DOMAIN list = 1..m /\ DOMAIN longer = 1..len
  /\ 1 <= n /\ m <= n /\ 1 <= len /\ len <= n /\ m <= len /\ len <= m + 1
  /\ len < m + 1 => len = n /\ m = n
  /\ longer[1] = h /\ \A i \in 2..len : longer[i] = list[i - 1]

LEMMA ShiftedList ==
  ASSUME NEW list, NEW m, NEW h, NEW n, NEW longer, NEW len, Shifted(list, m, h, n, longer, len),
         IsInjective(list), h \notin ToSet(list)
  PROVE  /\ IsInjective(longer)
         /\ h \in ToSet(longer) /\ ToSet(longer) \subseteq ToSet(list) \cup {h}
         /\ \A g, f : Before(longer, g, f) => f \in ToSet(list) /\ (g = h \/ Before(list, g, f))
         /\ \/ ToSet(longer) = ToSet(list) \cup {h}
            \/ /\ m = n
               /\ \E f \in ToSet(list) :
                    /\ ToSet(longer) = (ToSet(list) \cup {h}) \ {f}
                    /\ \A g \in ToSet(list) \ {f} : Before(list, g, f)
<1> USE DEF Shifted
<1>1. \A i \in 2..len : i - 1 \in 1..m
  OBVIOUS
<1>2. \A i \in 1..m : list[i] # h /\ list[i] \in ToSet(list)
  BY DEF ToSet
<1>3. IsInjective(longer)
  <2>1. ASSUME NEW i \in 1..len, NEW j \in 1..len, longer[i] = longer[j]  PROVE i = j
    <3>1. CASE i = 1 /\ j = 1
      BY <3>1
    <3>2. CASE i = 1 /\ j # 1
      <4>1. j \in 2..len
        BY <3>2
      <4> QED
        BY <1>1, <1>2, <2>1, <3>2, <4>1
    <3>3. CASE i # 1 /\ j = 1
      <4>1. i \in 2..len
        BY <3>3
      <4> QED
        BY <1>1, <1>2, <2>1, <3>3, <4>1
    <3>4. CASE i # 1 /\ j # 1
      <4>1. i \in 2..len /\ j \in 2..len
        BY <3>4
      <4>2. list[i - 1] = list[j - 1] /\ i - 1 \in 1..m /\ j - 1 \in 1..m
        BY <1>1, <2>1, <4>1
      <4>3. PICK k \in 1..m, l \in 1..m : k = i - 1 /\ l = j - 1 /\ list[k] = list[l]
        BY <4>2
      <4>4. k = l
        BY <4>3 DEF IsInjective
      <4> QED
        BY <4>3, <4>4
    <3> QED
      BY <3>1, <3>2, <3>3, <3>4
  <2> QED
    BY <2>1 DEF IsInjective
<1>4. h \in ToSet(longer) /\ ToSet(longer) \subseteq ToSet(list) \cup {h}
  <2>1. 1 \in 1..len
    OBVIOUS
  <2>2. ASSUME NEW i \in 1..len  PROVE longer[i] \in ToSet(list) \cup {h}
    <3>1. CASE i = 1
      BY <3>1
    <3>2. CASE i # 1
      <4>1. i \in 2..len
        BY <3>2
      <4>2. longer[i] = list[i - 1] /\ i - 1 \in 1..m
        BY <1>1, <4>1
      <4> QED
        BY <1>2, <4>2
    <3> QED
      BY <3>1, <3>2
  <2>3. DOMAIN longer = 1..len /\ longer[1] = h
    OBVIOUS
  <2>4. h \in ToSet(longer)
    BY <2>1, <2>3 DEF ToSet
  <2>5. ToSet(longer) \subseteq ToSet(list) \cup {h}
    BY <2>2, <2>3 DEF ToSet
  <2> QED
    BY <2>4, <2>5
<1>5. ASSUME NEW g, NEW f, Before(longer, g, f)
      PROVE  f \in ToSet(list) /\ (g = h \/ Before(list, g, f))
  <2>1. PICK i \in 1..len, j \in 1..len : i < j /\ longer[i] = g /\ longer[j] = f
    BY <1>5 DEF Before
  <2>2. j \in 2..len /\ f = list[j - 1] /\ j - 1 \in 1..m
    BY <1>1, <2>1
  <2>3. CASE i = 1
    BY <1>2, <2>1, <2>2, <2>3
  <2>4. CASE i # 1
    <3>1. i \in 2..len
      BY <2>4
    <3>2. g = list[i - 1] /\ i - 1 \in 1..m /\ i - 1 < j - 1
      BY <1>1, <2>1, <3>1
    <3> QED
      BY <1>2, <2>2, <3>2 DEF Before
  <2> QED
    BY <2>3, <2>4
<1>6. ASSUME NEW i \in 1..m, i < len
      PROVE  list[i] \in ToSet(longer)
  <2>1. i + 1 \in 2..len /\ (i + 1) - 1 = i
    BY <1>6
  <2>2. longer[i + 1] = list[i] /\ i + 1 \in 1..len
    BY <2>1
  <2> QED
    BY <2>2 DEF ToSet
<1>7. CASE len = m + 1
  <2>1. \A i \in 1..m : list[i] \in ToSet(longer)
    BY <1>6, <1>7
  <2>2. ToSet(list) \subseteq ToSet(longer)
    BY <2>1 DEF ToSet
  <2> QED
    BY <1>3, <1>4, <1>5, <2>2
<1>8. CASE len # m + 1
  <2>1. len = n /\ m = n /\ n \in 1..m
    BY <1>8
  <2>2. PICK f : f = list[n]
    OBVIOUS
  <2>3. ASSUME NEW g \in ToSet(list) \ {f}
        PROVE  Before(list, g, f) /\ g \in ToSet(longer)
    <3>1. PICK i \in 1..m : g = list[i]
      BY DEF ToSet
    <3>2. i < n
      BY <2>1, <2>2, <3>1
    <3> QED
      BY <1>6, <2>1, <2>2, <3>1, <3>2 DEF Before
  <2>4. f # h /\ f \in ToSet(list)
    BY <1>2, <2>1, <2>2
  <2>5. ASSUME NEW i \in 1..len  PROVE longer[i] # f
    <3>1. CASE i = 1
      BY <2>4, <3>1
    <3>2. CASE i # 1
      <4>1. i \in 2..len /\ i - 1 \in 1..m /\ i - 1 # n
        BY <2>1, <3>2
      <4> QED
        BY <2>1, <2>2, <4>1 DEF IsInjective
    <3> QED
      BY <3>1, <3>2
  <2>6. f \notin ToSet(longer)
    BY <2>5 DEF ToSet
  <2>7. ToSet(longer) = (ToSet(list) \cup {h}) \ {f}
    BY <1>4, <2>3, <2>4, <2>6
  <2> QED
    BY <1>3, <1>4, <1>5, <2>1, <2>3, <2>4, <2>7
<1> QED
  BY <1>7, <1>8

LEMMA ListWithFirst ==
  ASSUME NEW S, NEW list \in Seq(S), IsInjective(list), NEW h \in S, h \notin ToSet(list),
         NEW n \in Nat, n # 0, Len(list) <= n, NEW longer, longer = Newest(n, <<h>> \o list)
  PROVE  /\ longer \in Seq(S) /\ IsInjective(longer) /\ Len(longer) <= n
         /\ h \in ToSet(longer) /\ ToSet(longer) \subseteq ToSet(list) \cup {h}
         /\ \A g, f : Before(longer, g, f) => f \in ToSet(list) /\ (g = h \/ Before(list, g, f))
         /\ \/ ToSet(longer) = ToSet(list) \cup {h}
            \/ /\ Len(list) = n
               /\ \E f \in ToSet(list) :
                    /\ ToSet(longer) = (ToSet(list) \cup {h}) \ {f}
                    /\ \A g \in ToSet(list) \ {f} : Before(list, g, f)
<1>1. PICK m \in Nat : m = Len(list) /\ list \in [1..m -> S] /\ DOMAIN list = 1..m
  BY LenProperties
<1>2. PICK both \in Seq(S) : both = <<h>> \o list
  <2>1. <<h>> \in Seq(S)
    OBVIOUS
  <2>2. <<h>> \o list \in Seq(S)
    BY <2>1, ConcatProperties
  <2> QED
    BY <2>2
<1>3. Len(both) = m + 1 /\ both[1] = h /\ \A i \in 2..(m + 1) : both[i] = list[i - 1]
  BY <1>1, <1>2
<1>4. PICK len : len = IF m + 1 < n THEN m + 1 ELSE n
  OBVIOUS
<1>5. longer = SubSeq(both, 1, len)
  BY <1>2, <1>3, <1>4 DEF Newest
<1>6. /\ len \in Nat /\ 1 <= n /\ m <= n /\ 1 <= len /\ len <= n /\ len <= m + 1 /\ m <= len
      /\ len < m + 1 => len = n /\ m = n
  <2>1. m <= n
    BY <1>1
  <2>2. PICK l \in Nat, o \in Nat : l = m /\ o = n /\ l <= o /\ o # 0 /\ len = IF l + 1 < o THEN l + 1 ELSE o
    BY <1>4, <2>1
  <2> QED
    BY <2>2
<1>7. \A i \in 1..len : both[i] \in S
  <2>1. \A i \in 1..(m + 1) : both[i] \in S
    BY <1>2, <1>3, ElementOfSeq
  <2> QED
    BY <1>6, <2>1
<1>8. /\ longer \in Seq(S) /\ Len(longer) = len /\ \A i \in 1..len : longer[i] = both[i]
  BY <1>5, <1>6, <1>7, SubSeqProperties
<1>9. DOMAIN longer = 1..len /\ longer[1] = h /\ \A i \in 2..len : longer[i] = list[i - 1]
  <2>1. DOMAIN longer = 1..len
    BY <1>8, LenProperties
  <2>2. 1 \in 1..len /\ \A i \in 2..len : i \in 1..len /\ i \in 2..(m + 1)
    BY <1>6
  <2>3. longer[1] = h
    BY <1>3, <1>8, <2>2
  <2>4. ASSUME NEW i \in 2..len  PROVE longer[i] = list[i - 1]
    BY <1>3, <1>8, <2>2
  <2> QED
    BY <2>1, <2>3, <2>4
<1>10. /\ IsInjective(longer)
       /\ h \in ToSet(longer) /\ ToSet(longer) \subseteq ToSet(list) \cup {h}
       /\ \A g, f : Before(longer, g, f) => f \in ToSet(list) /\ (g = h \/ Before(list, g, f))
       /\ \/ ToSet(longer) = ToSet(list) \cup {h}
          \/ /\ m = n
             /\ \E f \in ToSet(list) :
                  /\ ToSet(longer) = (ToSet(list) \cup {h}) \ {f}
                  /\ \A g \in ToSet(list) \ {f} : Before(list, g, f)
  <2>1. Shifted(list, m, h, n, longer, len)
    BY <1>1, <1>6, <1>9 DEF Shifted
  <2> QED
    BY <2>1, ShiftedList
<1> QED
  BY <1>1, <1>6, <1>8, <1>10, Zenon

\* A list of m entries without the k-th, place by place.
Closed(list, m, k, rest) ==
  /\ m \in Nat /\ k \in 1..m
  /\ DOMAIN list = 1..m /\ DOMAIN rest = 1..(m - 1)
  /\ \A i \in 1..(m - 1) : rest[i] = IF i < k THEN list[i] ELSE list[i + 1]

LEMMA ClosedList ==
  ASSUME NEW list, NEW m, NEW k, NEW rest, Closed(list, m, k, rest), IsInjective(list)
  PROVE  /\ IsInjective(rest) /\ ToSet(rest) = ToSet(list) \ {list[k]}
         /\ \A g, f : Before(rest, g, f) => Before(list, g, f)
<1> USE DEF Closed
<1> DEFINE from(i) == IF i < k THEN i ELSE i + 1
<1>1. \A i \in 1..(m - 1) : from(i) \in 1..m /\ from(i) # k /\ rest[i] = list[from(i)]
  OBVIOUS
<1>2. \A i, j \in 1..(m - 1) : (i < j => from(i) < from(j)) /\ (from(i) = from(j) => i = j)
  OBVIOUS
<1>3. \A i \in 1..m : i # k => \E j \in 1..(m - 1) : from(j) = i
  <2>1. ASSUME NEW i \in 1..m, i # k  PROVE \E j \in 1..(m - 1) : from(j) = i
    <3>1. CASE i < k
      <4>1. i \in 1..(m - 1)
        BY <3>1
      <4> QED
        BY <3>1, <4>1
    <3>2. CASE ~(i < k)
      <4>1. i - 1 \in 1..(m - 1) /\ ~(i - 1 < k) /\ (i - 1) + 1 = i
        BY <2>1, <3>2
      <4>2. from(i - 1) = i
        BY <4>1
      <4> QED
        BY <4>1, <4>2
    <3> QED
      BY <3>1, <3>2
  <2> QED
    BY <2>1
<1> HIDE DEF from
<1>4. IsInjective(rest)
  <2>1. ASSUME NEW i \in 1..(m - 1), NEW j \in 1..(m - 1), rest[i] = rest[j]  PROVE i = j
    <3>1. list[from(i)] = list[from(j)] /\ from(i) \in 1..m /\ from(j) \in 1..m
      BY <1>1, <2>1
    <3>2. from(i) = from(j)
      BY <3>1 DEF IsInjective
    <3> QED
      BY <1>2, <3>2
  <2> QED
    BY <2>1 DEF IsInjective
<1>5. ASSUME NEW g, NEW f, Before(rest, g, f)  PROVE Before(list, g, f)
  <2>1. PICK i \in 1..(m - 1), j \in 1..(m - 1) : i < j /\ rest[i] = g /\ rest[j] = f
    BY <1>5 DEF Before
  <2>2. from(i) \in 1..m /\ from(j) \in 1..m /\ from(i) < from(j) /\ list[from(i)] = g /\ list[from(j)] = f
    BY <1>1, <1>2, <2>1
  <2> QED
    BY <2>2 DEF Before
<1>6. ASSUME NEW i \in 1..(m - 1)  PROVE rest[i] \in ToSet(list) \ {list[k]}
  <2>1. from(i) \in 1..m /\ from(i) # k /\ rest[i] = list[from(i)]
    BY <1>1
  <2>2. list[from(i)] # list[k]
    BY <2>1 DEF IsInjective
  <2> QED
    BY <2>1, <2>2 DEF ToSet
<1>7. ASSUME NEW i \in 1..m, list[i] # list[k]  PROVE list[i] \in ToSet(rest)
  <2>1. PICK j \in 1..(m - 1) : from(j) = i
    BY <1>3, <1>7
  <2>2. rest[j] = list[i]
    BY <1>1, <2>1
  <2> QED
    BY <2>2 DEF ToSet
<1>8. ToSet(rest) = ToSet(list) \ {list[k]}
  <2>1. ToSet(rest) \subseteq ToSet(list) \ {list[k]}
    BY <1>6 DEF ToSet
  <2>2. ToSet(list) \ {list[k]} \subseteq ToSet(rest)
    BY <1>7 DEF ToSet
  <2> QED
    BY <2>1, <2>2
<1> QED
  BY <1>4, <1>5, <1>8

LEMMA ListWithout ==
  ASSUME NEW S, NEW list \in Seq(S), IsInjective(list), NEW x, NEW rest, rest = Without(list, x)
  PROVE  /\ rest \in Seq(S) /\ IsInjective(rest) /\ Len(rest) <= Len(list)
         /\ ToSet(rest) = ToSet(list) \ {x}
         /\ \A g, f : Before(rest, g, f) => Before(list, g, f)
<1>1. PICK m \in Nat : m = Len(list) /\ list \in [1..m -> S] /\ DOMAIN list = 1..m
  BY LenProperties
<1>2. CASE x \notin ToSet(list)
  <2>1. rest = list
    BY <1>2 DEF Without
  <2> QED
    BY <1>1, <1>2, <2>1
<1>3. CASE x \in ToSet(list)
  <2>1. PICK k : k = CHOOSE i \in DOMAIN list : list[i] = x
    OBVIOUS
  <2>2. k \in 1..m /\ list[k] = x
    BY <1>1, <1>3, <2>1 DEF ToSet
  <2>3. PICK before, after : before = k - 1 /\ after = m - k
    OBVIOUS
  <2>4. before \in Nat /\ after \in Nat /\ before + after = m - 1 /\ before + 1 = k
    BY <2>2, <2>3
  <2>5. PICK front, back : front = SubSeq(list, 1, before) /\ back = SubSeq(list, k + 1, m)
    OBVIOUS
  <2>6. rest = front \o back
    BY <1>1, <1>3, <2>1, <2>3, <2>5 DEF Without, RemoveAt
  <2>7. /\ front \in Seq(S) /\ Len(front) = before /\ \A i \in 1..before : front[i] = list[i]
    <3>1. \A i \in 1..before : list[i] \in S
      BY <1>1, <2>2, <2>4
    <3> QED
      BY <2>4, <2>5, <3>1, SubSeqProperties
  <2>8. /\ back \in Seq(S) /\ Len(back) = after /\ \A i \in 1..after : back[i] = list[k + i]
    <3>1. \A i \in (k + 1)..m : list[i] \in S
      BY <1>1, <2>2
    <3>2. k + 1 \in Int /\ m \in Int /\ m - (k + 1) + 1 = after /\ (IF k + 1 <= m THEN m - (k + 1) + 1 ELSE 0) = after
      BY <2>2, <2>3
    <3>3. /\ back \in Seq(S) /\ Len(back) = IF k + 1 <= m THEN m - (k + 1) + 1 ELSE 0
          /\ \A i \in 1..(m - (k + 1) + 1) : back[i] = list[(k + 1) + i - 1]
      BY <2>5, <3>1, <3>2, SubSeqProperties
    <3>4. \A i \in 1..after : (k + 1) + i - 1 = k + i
      BY <2>2, <2>4
    <3> QED
      BY <3>2, <3>3, <3>4
  <2>9. /\ rest \in Seq(S) /\ Len(rest) = m - 1 /\ DOMAIN rest = 1..(m - 1)
        /\ \A i \in 1..(m - 1) : rest[i] = IF i <= before THEN front[i] ELSE back[i - before]
    <3>1. /\ rest \in Seq(S) /\ Len(rest) = before + after
          /\ \A i \in 1..(before + after) : rest[i] = IF i <= before THEN front[i] ELSE back[i - before]
      BY <2>6, <2>7, <2>8, ConcatProperties
    <3>2. DOMAIN rest = 1..Len(rest)
      BY <3>1, LenProperties
    <3> QED
      BY <2>4, <3>1, <3>2
  <2>10. ASSUME NEW i \in 1..(m - 1)
         PROVE  rest[i] = IF i < k THEN list[i] ELSE list[i + 1]
    <3>1. CASE i < k
      <4>1. i \in 1..before
        BY <2>4, <3>1
      <4>2. rest[i] = front[i]
        BY <2>4, <2>9, <4>1
      <4> QED
        BY <2>7, <3>1, <4>1, <4>2
    <3>2. CASE ~(i < k)
      <4>1. PICK j : j = i - before
        OBVIOUS
      <4>2. j \in 1..after /\ i = before + j /\ k + j = i + 1
        BY <1>1, <2>2, <2>3, <2>4, <3>2, <4>1
      <4>3. rest[i] = back[j]
        BY <2>4, <2>9, <3>2, <4>1, <4>2
      <4> QED
        BY <2>8, <3>2, <4>2, <4>3
    <3> QED
      BY <3>1, <3>2
  <2>11. m - 1 <= m
    BY <1>1
  <2>12. /\ IsInjective(rest) /\ ToSet(rest) = ToSet(list) \ {list[k]}
         /\ \A g, f : Before(rest, g, f) => Before(list, g, f)
    <3>1. Closed(list, m, k, rest)
      BY <1>1, <2>2, <2>9, <2>10 DEF Closed
    <3> QED
      BY <3>1, ClosedList
  <2> QED
    BY <1>1, <2>2, <2>9, <2>11, <2>12, Zenon
<1> QED
  BY <1>2, <1>3

\* Files have a newest.
LEMMA NewestExists ==
  ASSUME NEW files, files \subseteq Files, files # {}
  PROVE  \E f \in files : \A g \in files : g <= f
<1> DEFINE ages == {MaxBackups - f : f \in files}
<1>1. MaxBackups \in Nat /\ \A f \in files : f \in Nat /\ f <= MaxBackups
  BY BackupsAssumption DEF Files
<1>2. ages \subseteq Nat /\ ages # {}
  BY <1>1
<1> HIDE DEF ages
<1>3. PICK a \in ages : \A b \in ages : ~(<<b, a>> \in OpToRel(<, Nat))
  BY <1>2, NatLessThanWellFounded, WFMin
<1>4. \A b \in ages : ~(b < a)
  BY <1>2, <1>3 DEF OpToRel
<1>5. PICK f \in files : a = MaxBackups - f
  BY DEF ages
<1>6. \A g \in files : ~(MaxBackups - g < MaxBackups - f)
  BY <1>4, <1>5 DEF ages
<1> QED
  BY <1>1, <1>6

LEMMA FilesAreCounted ==
  ASSUME NEW files, files \subseteq Files
  PROVE  /\ IsFiniteSet(files) /\ Cardinality(files) \in Nat
         /\ \A some : some \subseteq files => IsFiniteSet(some) /\ Cardinality(some) <= Cardinality(files)
<1>1. IsFiniteSet(Files)
  BY BackupsAssumption, FS_Interval DEF Files
<1>2. IsFiniteSet(files)
  BY <1>1, FS_Subset
<1> QED
  BY <1>2, FS_Subset, FS_CardinalityType

-----------------------------------------------------------------------------
(* Types, and what a worker has at each step.                              *)

Sweeping == {"unlink", "deleteS3", "reload", "remove"}

BackupTypes ==
  /\ made \in 0..MaxBackups
  /\ disk \in [Files -> {"none", "partial", "whole"}]
  /\ s3 \subseteq Files
  /\ \A list \in {redis, sidecar} \ {NoList} : ListOf(list, saved)
  /\ worker \in [Workers -> WorkerStates]
  /\ saved \subseteq 1..made
  /\ faults \in Nat

\* An archive is whole and not yet saved until its worker saves it; what a worker is to
\* delete was saved.
WorkerInv(w) ==
  /\ worker[w].step \in {"load", "save"} =>
       worker[w].file \in (1..made) \ saved /\ disk[worker[w].file] = "whole"
  /\ worker[w].step \in {"upload", "put", "plan"} => worker[w].file \in saved
  /\ worker[w].step = "save" => ListOf(worker[w].list, saved \cup {worker[w].file})
  /\ worker[w].step = "remove" => ListOf(worker[w].list, saved)
  /\ worker[w].step \in {"deleteS3", "reload", "remove"} => worker[w].file \in worker[w].purge
  /\ worker[w].step \notin Sweeping => worker[w].purge = {}
  /\ worker[w].purge \subseteq saved

\* No two workers have dumped one archive.
ApartInv ==
  \A v, w \in Workers :
    v # w /\ worker[v].step \in {"load", "save"} /\ worker[w].step \in {"load", "save"} =>
      worker[v].file # worker[w].file

\* While no write fails or crosses another, who is about to write a list has it from the
\* one that is stored.
FreshInv ==
  kept =>
    /\ redis = NoList \/ redis = sidecar
    /\ \A w \in Workers :
         /\ worker[w].step = "save" => worker[w].list = Newest(Cap, <<worker[w].file>> \o Listed)
         /\ worker[w].step = "remove" => worker[w].list = Without(Listed, worker[w].file)

BackupInv == BackupTypes /\ ApartInv /\ FreshInv /\ \A w \in Workers : WorkerInv(w)

LEMMA ListedIsAList ==
  ASSUME BackupTypes
  PROVE  ListOf(Listed, saved)
<1>1. ListOf(<<>>, saved)
  BY BackupsAssumption DEF ListOf, ToSet, IsInjective
<1> QED
  BY <1>1 DEF BackupTypes, Listed

\* A worker that goes on, and what the others have then.
LEMMA WorkerGoes ==
  ASSUME worker \in [Workers -> WorkerStates], NEW w \in Workers, NEW r \in WorkerStates,
         worker' = [worker EXCEPT ![w] = r]
  PROVE  /\ worker' \in [Workers -> WorkerStates] /\ worker'[w] = r
         /\ \A v \in Workers \ {w} : worker'[v] = worker[v]
  OBVIOUS

LEMMA WorkerSteps ==
  ASSUME BackupTypes, NEW w \in Workers, NEW step \in Steps, Go(w, step)
  PROVE  /\ worker' \in [Workers -> WorkerStates]
         /\ worker'[w].step = step /\ worker'[w].file = worker[w].file
         /\ worker'[w].list = worker[w].list /\ worker'[w].purge = worker[w].purge
         /\ \A v \in Workers \ {w} : worker'[v] = worker[v]
<1> DEFINE r == [worker[w] EXCEPT !.step = step]
<1>1. /\ r \in WorkerStates /\ r.step = step /\ r.file = worker[w].file
      /\ r.list = worker[w].list /\ r.purge = worker[w].purge
  BY DEF BackupTypes, WorkerStates
<1>2. worker' = [worker EXCEPT ![w] = r]
  BY DEF Go
<1> HIDE DEF r
<1> QED
  BY <1>1, <1>2, WorkerGoes DEF BackupTypes

\* What a step leaves of the others.
LEMMA OthersStay ==
  ASSUME BackupInv, NEW w \in Workers, BackupTypes',
         \A v \in Workers \ {w} : worker'[v] = worker[v],
         made <= made', saved \subseteq saved',
         saved' \subseteq saved \cup (IF worker[w].step = "save" THEN {worker[w].file} ELSE {}),
         \A f \in (1..made) \ saved : disk'[f] = disk[f],
         worker'[w].step \in {"load", "save"} =>
           \/ worker[w].step \in {"load", "save"} /\ worker'[w].file = worker[w].file
           \/ worker'[w].file = made + 1,
         WorkerInv(w)'
  PROVE  ApartInv' /\ \A v \in Workers : WorkerInv(v)'
<1>1. made \in Nat /\ made' \in Nat
  BY BackupsAssumption DEF BackupInv, BackupTypes
<1>2. ASSUME NEW v \in Workers \ {w}
      PROVE  WorkerInv(v)'
  <2>1. WorkerInv(v) /\ worker'[v] = worker[v]
    BY DEF BackupInv
  <2>2. worker[v].step \in {"load", "save"} =>
          worker[v].file \in (1..made') \ saved' /\ disk'[worker[v].file] = "whole"
    <3>1. HAVE worker[v].step \in {"load", "save"}
    <3>2. worker[v].file \in (1..made) \ saved /\ disk[worker[v].file] = "whole"
      BY <2>1, <3>1 DEF WorkerInv
    <3>3. worker[w].step = "save" => worker[w].file # worker[v].file
      BY <3>1 DEF BackupInv, ApartInv
    <3> QED
      BY <1>1, <3>2, <3>3
  <2>3. /\ worker[v].step = "save" => ListOf(worker[v].list, saved' \cup {worker[v].file})
        /\ worker[v].step = "remove" => ListOf(worker[v].list, saved')
    BY <2>1 DEF WorkerInv, ListOf
  <2> QED
    BY <2>1, <2>2, <2>3 DEF WorkerInv
<1>3. \A v \in Workers : worker[v].step \in {"load", "save"} => worker[v].file \in 1..made
  BY DEF BackupInv, WorkerInv
<1>4. made + 1 \notin 1..made
  BY <1>1
<1>5. ApartInv'
  BY <1>3, <1>4 DEF BackupInv, ApartInv
<1> QED
  BY <1>2, <1>5

\* A step that leaves the list as it is keeps what is fresh.
LEMMA ListsStayFresh ==
  ASSUME BackupInv, NEW w \in Workers,
         \A v \in Workers \ {w} : worker'[v] = worker[v],
         UNCHANGED <<redis, sidecar, kept>>,
         worker'[w].step = "save" => worker'[w].list = Newest(Cap, <<worker'[w].file>> \o Listed),
         worker'[w].step = "remove" => worker'[w].list = Without(Listed, worker'[w].file)
  PROVE  FreshInv'
<1>1. Listed' = Listed
  BY DEF Listed
<1> QED
  BY <1>1 DEF BackupInv, FreshInv

LEMMA BackupInvInit == Init => BackupInv
<1> SUFFICES ASSUME Init PROVE BackupInv
  OBVIOUS
<1>1. Idle \in WorkerStates /\ Idle.step = "idle" /\ Idle.purge = {}
  BY BackupsAssumption, EmptySeq DEF Idle, WorkerStates, Steps
<1>2. worker \in [Workers -> WorkerStates] /\ \A w \in Workers : worker[w] = Idle
  BY <1>1 DEF Init
<1>3. BackupTypes
  BY <1>2, BackupsAssumption DEF Init, BackupTypes
<1>4. ApartInv /\ FreshInv /\ \A w \in Workers : WorkerInv(w)
  BY <1>1, <1>2 DEF Init, ApartInv, FreshInv, WorkerInv, Sweeping
<1> QED
  BY <1>3, <1>4 DEF BackupInv

-----------------------------------------------------------------------------
(* Every step keeps them.                                                  *)

\* What writing a list leaves; while nothing fails or crosses, the list that is stored.
LEMMA PersistLeaves ==
  ASSUME BackupInv, NEW w \in Workers, worker[w].step \in {"save", "remove"},
         NEW list, NEW files, saved \subseteq files, ListOf(list, files), Persist(list)
  PROVE  /\ \A l \in {redis', sidecar'} \ {NoList} : ListOf(l, files)
         /\ faults' \in Nat /\ faults <= faults'
         /\ kept' => /\ kept /\ redis' = list /\ sidecar' = list /\ Listed' = list
                     /\ faults' = faults
                     /\ \A v \in Workers \ {w} : worker[v].step \notin {"save", "remove"}
<1>1. PICK failed \in SUBSET {"redis", "sidecar"} :
        /\ kept' = (kept /\ failed = {} /\ Cardinality(Writing) = 1)
        /\ faults' = IF failed = {} THEN faults ELSE faults + 1
        /\ redis' = IF "redis" \in failed THEN redis ELSE list
        /\ sidecar' = IF "sidecar" \in failed THEN sidecar ELSE list
  BY Zenon DEF Persist
<1>2. \A l \in {redis, sidecar} \ {NoList} : ListOf(l, files)
  BY DEF BackupInv, BackupTypes, ListOf
<1>3. faults' \in Nat /\ faults <= faults'
  BY <1>1 DEF BackupInv, BackupTypes
<1>4. \A l \in {redis', sidecar'} \ {NoList} : ListOf(l, files)
  BY <1>1, <1>2
<1>5. ASSUME kept'
      PROVE  /\ kept /\ redis' = list /\ sidecar' = list /\ Listed' = list
             /\ faults' = faults
             /\ \A v \in Workers \ {w} : worker[v].step \notin {"save", "remove"}
  <2>1. kept /\ failed = {} /\ Cardinality(Writing) = 1
    BY <1>1, <1>5, Zenon
  <2>2. redis' = list /\ sidecar' = list /\ faults' = faults
    BY <1>1, <2>1
  <2>3. list # NoList
    BY BackupsAssumption DEF ListOf, Files
  <2>4. Listed' = list
    BY <2>2, <2>3 DEF Listed
  <2>5. IsFiniteSet(Writing) /\ w \in Writing
    BY BackupsAssumption, FS_Subset DEF Writing
  <2>6. PICK only : Writing = {only}
    BY <2>1, <2>5, FS_Singleton
  <2>7. \A v \in Workers \ {w} : worker[v].step \notin {"save", "remove"}
    BY <2>5, <2>6 DEF Writing
  <2> QED
    BY <2>1, <2>2, <2>4, <2>7, Zenon
<1> QED
  BY <1>3, <1>4, <1>5, Zenon

\* A worker that is to delete some archives, or none.
Sweeper(step, purge) == [Idle EXCEPT !.step = step, !.purge = purge]

LEMMA SweeperIs ==
  ASSUME NEW now \in {"idle", "unlink"}, NEW files, files \subseteq Files,
         NEW r, r = Sweeper(now, files)
  PROVE  r \in WorkerStates /\ r.step = now /\ r.purge = files
<1>1. PICK zero, none : zero = 0 /\ none = <<>>
  OBVIOUS
<1>2. zero \in 0..MaxBackups /\ none \in Seq(Files)
  BY <1>1, BackupsAssumption, EmptySeq
<1>3. r = [step |-> now, file |-> zero, list |-> none, purge |-> files]
  BY <1>1 DEF Sweeper, Idle
<1>4. now \in Steps /\ files \in SUBSET Files
  BY DEF Steps
<1> QED
  BY <1>2, <1>3, <1>4 DEF WorkerStates

LEMMA SavedFits ==
  ASSUME BackupInv
  PROVE  /\ made \in Nat /\ made <= MaxBackups /\ saved \subseteq Files
         /\ \A f \in 1..made : f \in Files
  BY BackupsAssumption DEF BackupInv, BackupTypes, Files

LEMMA DumpKeeps ==
  ASSUME BackupInv, NEW w \in Workers, Dump(w)
  PROVE  BackupInv'
<1>1. /\ made \in Nat /\ made' = made + 1 /\ made + 1 \in 0..MaxBackups /\ made + 1 \in Files
      /\ MaxBackups \in Nat
  BY SavedFits, BackupsAssumption DEF Dump, Files
<1>2. saved' = saved /\ saved \subseteq 1..made /\ saved \subseteq 1..made'
  BY <1>1 DEF BackupInv, BackupTypes, Dump
<1>3. \E there \in {"whole", "partial"} : disk' = [disk EXCEPT ![made + 1] = there]
  BY DEF Dump
<1>4. /\ disk' \in [Files -> {"none", "partial", "whole"}]
      /\ \A f \in Files \ {made + 1} : disk'[f] = disk[f]
  BY <1>1, <1>3 DEF BackupInv, BackupTypes
<1>5. UNCHANGED <<s3, redis, sidecar, kept>> /\ faults' \in Nat
  BY DEF Dump, BackupInv, BackupTypes
<1>6. \A f \in (1..made) \ saved : disk'[f] = disk[f]
  BY <1>1, <1>4 DEF Files
<1>7. CASE UNCHANGED worker
  <2>1. BackupTypes'
    BY <1>1, <1>2, <1>4, <1>5, <1>7 DEF BackupInv, BackupTypes
  <2>2. WorkerInv(w)'
    <3>1. WorkerInv(w) /\ worker' = worker
      BY <1>7 DEF BackupInv
    <3>2. worker[w].step \in {"load", "save"} =>
            worker[w].file \in (1..made') \ saved' /\ disk'[worker[w].file] = "whole"
      BY <1>1, <1>2, <1>6, <3>1 DEF WorkerInv
    <3> QED
      BY <1>2, <3>1, <3>2 DEF WorkerInv
  <2>3. ApartInv' /\ \A v \in Workers : WorkerInv(v)'
    <3>1. made <= made'
      BY <1>1
    <3> QED
      BY <1>2, <1>6, <1>7, <2>1, <2>2, <3>1, OthersStay
  <2>4. FreshInv'
    BY <1>5, <1>7 DEF BackupInv, FreshInv, Listed
  <2> QED
    BY <2>1, <2>3, <2>4 DEF BackupInv
<1>8. ASSUME /\ disk' = [disk EXCEPT ![made + 1] = "whole"]
             /\ worker' = [worker EXCEPT ![w] = [Idle EXCEPT !.step = "load", !.file = made + 1]]
      PROVE  BackupInv'
  <2>1. PICK r : r = [Idle EXCEPT !.step = "load", !.file = made + 1]
    OBVIOUS
  <2>2. r \in WorkerStates /\ r.step = "load" /\ r.file = made + 1 /\ r.purge = {}
    BY <1>1, <2>1, EmptySeq DEF Idle, WorkerStates, Steps
  <2>3. /\ worker' \in [Workers -> WorkerStates] /\ worker'[w] = r
        /\ \A v \in Workers \ {w} : worker'[v] = worker[v]
    BY <1>8, <2>1, <2>2, WorkerGoes DEF BackupInv, BackupTypes
  <2>4. BackupTypes'
    BY <1>1, <1>2, <1>4, <1>5, <2>3 DEF BackupInv, BackupTypes
  <2>5. WorkerInv(w)'
    <3>1. made + 1 \notin saved /\ made + 1 \in 1..made' /\ disk'[made + 1] = "whole"
      BY <1>1, <1>2, <1>8 DEF BackupInv, BackupTypes
    <3> QED
      BY <1>2, <2>2, <2>3, <3>1 DEF WorkerInv, Sweeping
  <2>6. ApartInv' /\ \A v \in Workers : WorkerInv(v)'
    <3>1. made <= made'
      BY <1>1
    <3> QED
      BY <1>2, <1>6, <2>2, <2>3, <2>4, <2>5, <3>1, OthersStay
  <2>7. FreshInv'
    BY <1>5, <2>2, <2>3, ListsStayFresh
  <2> QED
    BY <2>4, <2>6, <2>7 DEF BackupInv
<1> QED
  BY <1>7, <1>8 DEF Dump

\* A step that changes no list, what is saved and what was dumped.
LEMMA QuietStepKeeps ==
  ASSUME BackupInv, NEW w \in Workers,
         worker' \in [Workers -> WorkerStates],
         \A v \in Workers \ {w} : worker'[v] = worker[v],
         UNCHANGED <<made, redis, sidecar, saved, kept>>,
         s3' \subseteq Files, faults' \in Nat,
         disk' \in [Files -> {"none", "partial", "whole"}],
         \A f \in Files \ saved : disk'[f] = disk[f],
         worker'[w].step \in {"load", "save"} =>
           worker[w].step \in {"load", "save"} /\ worker'[w].file = worker[w].file,
         WorkerInv(w)',
         worker'[w].step = "save" => worker'[w].list = Newest(Cap, <<worker'[w].file>> \o Listed),
         worker'[w].step = "remove" => worker'[w].list = Without(Listed, worker'[w].file)
  PROVE  BackupInv'
<1>1. BackupTypes'
  BY DEF BackupInv, BackupTypes
<1>2. /\ made <= made' /\ saved \subseteq saved'
      /\ \A f \in (1..made) \ saved : disk'[f] = disk[f]
  BY SavedFits
<1>3. ApartInv' /\ \A v \in Workers : WorkerInv(v)'
  BY <1>1, <1>2, OthersStay
<1>4. FreshInv'
  BY ListsStayFresh
<1> QED
  BY <1>1, <1>3, <1>4 DEF BackupInv

LEMMA IdleIsSound ==
  ASSUME NEW w, worker'[w] = Idle
  PROVE  WorkerInv(w)' /\ worker'[w].step = "idle"
  BY DEF WorkerInv, Idle, Sweeping

LEMMA LoadForSaveKeeps ==
  ASSUME BackupInv, NEW w \in Workers, LoadForSave(w)
  PROVE  BackupInv'
<1>1. /\ worker[w].step = "load" /\ UNCHANGED <<made, disk, s3, redis, sidecar, saved, faults, kept>>
      /\ WorkerInv(w) /\ worker[w].file \in (1..made) \ saved /\ worker[w].purge = {}
      /\ worker[w] \in WorkerStates
  BY DEF LoadForSave, BackupInv, BackupTypes, WorkerInv, Sweeping
<1>2. PICK list : list = Newest(Cap, <<worker[w].file>> \o Listed)
  OBVIOUS
<1>3. ListOf(Listed, saved)
  BY ListedIsAList DEF BackupInv
<1>4. ListOf(list, saved \cup {worker[w].file}) /\ list \in Seq(Files)
  <2>1. worker[w].file \in Files /\ worker[w].file \notin ToSet(Listed)
    BY <1>1, <1>3, SavedFits DEF ListOf
  <2>2. Cap \in Nat /\ Cap # 0 /\ Listed \in Seq(Files) /\ IsInjective(Listed) /\ Len(Listed) <= Cap
    BY <1>3, BackupsAssumption DEF ListOf
  <2>3. /\ list \in Seq(Files) /\ IsInjective(list) /\ Len(list) <= Cap
        /\ ToSet(list) \subseteq ToSet(Listed) \cup {worker[w].file}
    BY <1>2, <2>1, <2>2, ListWithFirst
  <2> QED
    BY <1>3, <2>3 DEF ListOf
<1>5. PICK r : r = [worker[w] EXCEPT !.step = "save", !.list = list]
  OBVIOUS
<1>6. /\ r \in WorkerStates /\ r.step = "save" /\ r.list = list /\ r.file = worker[w].file
      /\ r.purge = {}
  BY <1>1, <1>4, <1>5 DEF WorkerStates, Steps
<1>7. worker' = [worker EXCEPT ![w] = r]
  BY <1>2, <1>5 DEF LoadForSave
<1>8. /\ worker' \in [Workers -> WorkerStates] /\ worker'[w] = r
      /\ \A v \in Workers \ {w} : worker'[v] = worker[v]
  BY <1>6, <1>7, WorkerGoes DEF BackupInv, BackupTypes
<1>9. WorkerInv(w)'
  BY <1>1, <1>4, <1>6, <1>8 DEF WorkerInv, Sweeping
<1>10. s3' \subseteq Files /\ faults' \in Nat /\ disk' \in [Files -> {"none", "partial", "whole"}]
  BY <1>1 DEF BackupInv, BackupTypes
<1> QED
  BY <1>1, <1>2, <1>6, <1>8, <1>9, <1>10, QuietStepKeeps

LEMMA SaveKeeps ==
  ASSUME BackupInv, NEW w \in Workers, Save(w)
  PROVE  BackupInv'
<1>1. /\ worker[w].step = "save" /\ UNCHANGED <<made, disk, s3>> /\ Persist(worker[w].list)
      /\ saved' = saved \cup {worker[w].file} /\ Go(w, "upload")
  BY DEF Save
<1>2. /\ worker[w].file \in (1..made) \ saved /\ worker[w].purge = {}
      /\ ListOf(worker[w].list, saved')
  BY <1>1 DEF BackupInv, WorkerInv, Sweeping
<1>3. /\ \A l \in {redis', sidecar'} \ {NoList} : ListOf(l, saved')
      /\ faults' \in Nat
      /\ kept' => /\ kept /\ redis' = sidecar'
                  /\ \A v \in Workers \ {w} : worker[v].step \notin {"save", "remove"}
  BY <1>1, <1>2, PersistLeaves
<1>4. /\ worker' \in [Workers -> WorkerStates]
      /\ worker'[w].step = "upload" /\ worker'[w].file = worker[w].file /\ worker'[w].purge = {}
      /\ \A v \in Workers \ {w} : worker'[v] = worker[v]
  BY <1>1, <1>2, WorkerSteps DEF BackupInv, Steps
<1>5. BackupTypes'
  BY <1>1, <1>2, <1>3, <1>4 DEF BackupInv, BackupTypes
<1>6. WorkerInv(w)'
  BY <1>1, <1>4 DEF WorkerInv, Sweeping
<1>7. ApartInv' /\ \A v \in Workers : WorkerInv(v)'
  <2>1. made <= made'
    BY <1>1, SavedFits
  <2> QED
    BY <1>1, <1>4, <1>5, <1>6, <2>1, OthersStay
<1>8. FreshInv'
  BY <1>3, <1>4 DEF FreshInv
<1> QED
  BY <1>5, <1>7, <1>8 DEF BackupInv

LEMMA UploadKeeps ==
  ASSUME BackupInv, NEW w \in Workers, Upload(w) \/ Arrive(w)
  PROVE  BackupInv'
<1>1. /\ worker[w].step \in {"upload", "put"} /\ worker[w].file \in saved /\ worker[w].purge = {}
      /\ UNCHANGED <<made, disk, redis, sidecar, saved, faults, kept>>
  BY DEF Upload, Arrive, BackupInv, WorkerInv, Sweeping
<1>2. s3' \subseteq Files /\ faults' \in Nat /\ disk' \in [Files -> {"none", "partial", "whole"}]
  <2>1. s3 \subseteq Files /\ faults \in Nat /\ disk \in [Files -> {"none", "partial", "whole"}]
    BY DEF BackupInv, BackupTypes
  <2>2. worker[w].file \in Files
    BY <1>1, SavedFits
  <2>3. s3' \subseteq s3 \cup {worker[w].file}
    BY DEF Upload, Arrive
  <2> QED
    BY <1>1, <2>1, <2>2, <2>3
<1>3. ASSUME NEW step \in {"put", "plan"}, Go(w, step)
      PROVE  BackupInv'
  <2>1. /\ worker' \in [Workers -> WorkerStates]
        /\ worker'[w].step = step /\ worker'[w].file = worker[w].file /\ worker'[w].purge = {}
        /\ \A v \in Workers \ {w} : worker'[v] = worker[v]
    BY <1>1, <1>3, WorkerSteps DEF BackupInv, Steps
  <2>2. WorkerInv(w)'
    BY <1>1, <2>1 DEF WorkerInv, Sweeping
  <2> QED
    BY <1>1, <1>2, <2>1, <2>2, QuietStepKeeps
<1>4. CASE worker' = [worker EXCEPT ![w] = Idle]
  <2>1. Idle \in WorkerStates
    BY BackupsAssumption, EmptySeq DEF Idle, WorkerStates, Steps
  <2>2. /\ worker' \in [Workers -> WorkerStates] /\ worker'[w] = Idle
        /\ \A v \in Workers \ {w} : worker'[v] = worker[v]
    BY <1>4, <2>1, WorkerGoes DEF BackupInv, BackupTypes
  <2>3. WorkerInv(w)' /\ worker'[w].step = "idle"
    BY <2>2, IdleIsSound
  <2> QED
    BY <1>1, <1>2, <2>2, <2>3, QuietStepKeeps
<1> QED
  BY <1>3, <1>4 DEF Upload, Arrive

LEMMA PlanKeeps ==
  ASSUME BackupInv, NEW w \in Workers, Plan(w)
  PROVE  /\ BackupInv' /\ worker'[w].purge = Purged(ToSet(Listed))
         /\ worker'[w].step \in {"idle", "unlink"}
         /\ worker'[w].step = "idle" => Purged(ToSet(Listed)) = {}
         /\ \A v \in Workers \ {w} : worker'[v] = worker[v]
<1>1. UNCHANGED <<made, disk, s3, redis, sidecar, saved, faults, kept>> /\ saved \subseteq Files
  BY SavedFits DEF Plan
<1>2. PICK purged : purged = Purged(ToSet(Listed))
  OBVIOUS
<1>3. purged \subseteq saved /\ purged \subseteq Files
  BY <1>1, <1>2, ListedIsAList DEF BackupInv, Purged, ListOf
<1>4. PICK step : step = IF purged = {} THEN "idle" ELSE "unlink"
  OBVIOUS
<1>5. PICK r : r = Sweeper(step, purged)
  OBVIOUS
<1>6. r \in WorkerStates /\ r.step = step /\ r.purge = purged
  BY <1>3, <1>4, <1>5, SweeperIs
<1>7. worker' = [worker EXCEPT ![w] = r]
  BY <1>2, <1>4, <1>5 DEF Plan, Sweeper
<1>8. /\ worker' \in [Workers -> WorkerStates] /\ worker'[w] = r
      /\ \A v \in Workers \ {w} : worker'[v] = worker[v]
  BY <1>6, <1>7, WorkerGoes DEF BackupInv, BackupTypes
<1>9. WorkerInv(w)'
  BY <1>1, <1>3, <1>4, <1>6, <1>8 DEF WorkerInv, Sweeping
<1>10. s3' \subseteq Files /\ faults' \in Nat /\ disk' \in [Files -> {"none", "partial", "whole"}]
  BY <1>1 DEF BackupInv, BackupTypes
<1>11. BackupInv'
  BY <1>1, <1>4, <1>6, <1>8, <1>9, <1>10, QuietStepKeeps
<1> QED
  BY <1>2, <1>4, <1>6, <1>8, <1>11

LEMMA UnlinkKeeps ==
  ASSUME BackupInv, NEW w \in Workers, Unlink(w)
  PROVE  /\ BackupInv' /\ worker'[w].purge = worker[w].purge
         /\ worker'[w].step = "deleteS3" /\ worker'[w].file \in worker[w].purge
         /\ \A v \in Workers \ {w} : worker'[v] = worker[v]
         /\ disk' \in {disk, [disk EXCEPT ![worker'[w].file] = "none"]}
         /\ faults' = faults => disk' = [disk EXCEPT ![worker'[w].file] = "none"]
<1>1. /\ worker[w].step = "unlink" /\ UNCHANGED <<made, s3, redis, sidecar, saved, kept>>
      /\ worker[w] \in WorkerStates /\ worker[w].purge \subseteq saved /\ saved \subseteq Files
  BY SavedFits DEF Unlink, BackupInv, BackupTypes, WorkerInv
<1>2. PICK f \in worker[w].purge :
        /\ \/ disk' = [disk EXCEPT ![f] = "none"] /\ faults' = faults
           \/ faults' = faults + 1 /\ disk' = disk
        /\ worker' = [worker EXCEPT ![w].step = "deleteS3", ![w].file = f]
  BY DEF Unlink
<1>3. PICK r : r = [worker[w] EXCEPT !.step = "deleteS3", !.file = f]
  OBVIOUS
<1>4. r \in WorkerStates /\ r.step = "deleteS3" /\ r.file = f /\ r.purge = worker[w].purge
  <2>1. "deleteS3" \in Steps
    BY DEF Steps
  <2>2. f \in Files
    BY <1>1
  <2>3. f \in 0..MaxBackups
    BY <2>2, BackupsAssumption DEF Files
  <2> QED
    BY <1>1, <1>3, <2>1, <2>3 DEF WorkerStates
<1>5. worker' = [worker EXCEPT ![w] = r]
  BY <1>2, <1>3
<1>6. /\ worker' \in [Workers -> WorkerStates] /\ worker'[w] = r
      /\ \A v \in Workers \ {w} : worker'[v] = worker[v]
  BY <1>4, <1>5, WorkerGoes DEF BackupInv, BackupTypes
<1>7. WorkerInv(w)'
  BY <1>1, <1>4, <1>6 DEF WorkerInv, Sweeping
<1>8. /\ s3' \subseteq Files /\ faults' \in Nat /\ disk' \in [Files -> {"none", "partial", "whole"}]
      /\ \A g \in Files \ saved : disk'[g] = disk[g]
  BY <1>1, <1>2 DEF BackupInv, BackupTypes
<1>9. BackupInv'
  BY <1>1, <1>4, <1>6, <1>7, <1>8, QuietStepKeeps
<1>10. faults \in Nat
  BY DEF BackupInv, BackupTypes
<1> QED
  BY <1>2, <1>4, <1>6, <1>9, <1>10

LEMMA DeleteFromS3Keeps ==
  ASSUME BackupInv, NEW w \in Workers, DeleteFromS3(w)
  PROVE  BackupInv'
<1>1. /\ worker[w].step = "deleteS3" /\ UNCHANGED <<made, disk, redis, sidecar, saved, kept>>
      /\ WorkerInv(w)
  BY DEF DeleteFromS3, BackupInv
<1>2. /\ worker' \in [Workers -> WorkerStates]
      /\ worker'[w].step = "reload" /\ worker'[w].file = worker[w].file
      /\ worker'[w].list = worker[w].list /\ worker'[w].purge = worker[w].purge
      /\ \A v \in Workers \ {w} : worker'[v] = worker[v]
  BY WorkerSteps DEF DeleteFromS3, BackupInv, Steps
<1>3. WorkerInv(w)'
  BY <1>1, <1>2 DEF WorkerInv, Sweeping
<1>4. s3' \subseteq Files /\ faults' \in Nat /\ disk' \in [Files -> {"none", "partial", "whole"}]
  BY <1>1 DEF DeleteFromS3, BackupInv, BackupTypes
<1> QED
  BY <1>1, <1>2, <1>3, <1>4, QuietStepKeeps

LEMMA LoadForRemoveKeeps ==
  ASSUME BackupInv, NEW w \in Workers, LoadForRemove(w)
  PROVE  /\ BackupInv' /\ worker'[w].purge = worker[w].purge /\ worker'[w].file = worker[w].file
         /\ worker'[w].step = "remove" /\ \A v \in Workers \ {w} : worker'[v] = worker[v]
<1>1. /\ worker[w].step = "reload" /\ UNCHANGED <<made, disk, s3, redis, sidecar, saved, faults, kept>>
      /\ WorkerInv(w) /\ worker[w] \in WorkerStates
  BY DEF LoadForRemove, BackupInv, BackupTypes
<1>2. PICK list : list = Without(Listed, worker[w].file)
  OBVIOUS
<1>3. ListOf(Listed, saved)
  BY ListedIsAList DEF BackupInv
<1>4. ListOf(list, saved) /\ list \in Seq(Files)
  <2>1. /\ list \in Seq(Files) /\ IsInjective(list) /\ Len(list) <= Len(Listed)
        /\ ToSet(list) = ToSet(Listed) \ {worker[w].file}
    BY <1>2, <1>3, ListWithout DEF ListOf
  <2>2. Len(list) \in Nat /\ Len(Listed) \in Nat /\ Cap \in Nat
    BY <1>3, <2>1, LenProperties, BackupsAssumption DEF ListOf
  <2> QED
    BY <1>3, <2>1, <2>2 DEF ListOf
<1>5. PICK r : r = [worker[w] EXCEPT !.step = "remove", !.list = list]
  OBVIOUS
<1>6. /\ r \in WorkerStates /\ r.step = "remove" /\ r.list = list /\ r.file = worker[w].file
      /\ r.purge = worker[w].purge
  BY <1>1, <1>4, <1>5 DEF WorkerStates, Steps
<1>7. worker' = [worker EXCEPT ![w] = r]
  BY <1>2, <1>5 DEF LoadForRemove
<1>8. /\ worker' \in [Workers -> WorkerStates] /\ worker'[w] = r
      /\ \A v \in Workers \ {w} : worker'[v] = worker[v]
  BY <1>6, <1>7, WorkerGoes DEF BackupInv, BackupTypes
<1>9. WorkerInv(w)'
  BY <1>1, <1>4, <1>6, <1>8 DEF WorkerInv, Sweeping
<1>10. s3' \subseteq Files /\ faults' \in Nat /\ disk' \in [Files -> {"none", "partial", "whole"}]
  BY <1>1 DEF BackupInv, BackupTypes
<1>11. BackupInv'
  BY <1>1, <1>2, <1>6, <1>8, <1>9, <1>10, QuietStepKeeps
<1> QED
  BY <1>6, <1>8, <1>11

LEMMA RemoveEntryKeeps ==
  ASSUME BackupInv, NEW w \in Workers, RemoveEntry(w)
  PROVE  /\ BackupInv' /\ worker'[w].purge = worker[w].purge \ {worker[w].file}
         /\ worker'[w].step \in {"idle", "unlink"}
         /\ worker'[w].step = "idle" => worker'[w].purge = {}
         /\ \A v \in Workers \ {w} : worker'[v] = worker[v]
<1>1. /\ worker[w].step = "remove" /\ UNCHANGED <<made, disk, s3, saved>> /\ Persist(worker[w].list)
      /\ ListOf(worker[w].list, saved) /\ worker[w].purge \subseteq saved /\ saved \subseteq Files
  BY SavedFits DEF RemoveEntry, BackupInv, WorkerInv
<1>2. /\ \A l \in {redis', sidecar'} \ {NoList} : ListOf(l, saved)
      /\ faults' \in Nat
      /\ kept' => /\ kept /\ redis' = sidecar'
                  /\ \A v \in Workers \ {w} : worker[v].step \notin {"save", "remove"}
  BY <1>1, PersistLeaves
<1>3. PICK rest : rest = worker[w].purge \ {worker[w].file}
  OBVIOUS
<1>4. PICK step \in {"idle", "unlink"} :
        step = IF worker[w].purge = {worker[w].file} THEN "idle" ELSE "unlink"
  OBVIOUS
<1>5. PICK r : r = Sweeper(step, rest)
  OBVIOUS
<1>6. r \in WorkerStates /\ r.step = step /\ r.purge = rest
  <2>1. rest \subseteq Files
    BY <1>1, <1>3
  <2> QED
    BY <1>5, <2>1, SweeperIs
<1>7. worker' = [worker EXCEPT ![w] = r]
  BY <1>3, <1>4, <1>5 DEF RemoveEntry, Sweeper
<1>8. /\ worker' \in [Workers -> WorkerStates] /\ worker'[w] = r
      /\ \A v \in Workers \ {w} : worker'[v] = worker[v]
  BY <1>6, <1>7, WorkerGoes DEF BackupInv, BackupTypes
<1>9. BackupTypes'
  BY <1>1, <1>2, <1>8 DEF BackupInv, BackupTypes
<1>10. WorkerInv(w)'
  BY <1>1, <1>3, <1>4, <1>6, <1>8 DEF WorkerInv, Sweeping
<1>11. ApartInv' /\ \A v \in Workers : WorkerInv(v)'
  <2>1. made <= made'
    BY <1>1, SavedFits
  <2> QED
    BY <1>1, <1>4, <1>6, <1>8, <1>9, <1>10, <2>1, OthersStay
<1>12. FreshInv'
  BY <1>2, <1>4, <1>6, <1>8 DEF FreshInv
<1> QED
  BY <1>3, <1>4, <1>6, <1>8, <1>9, <1>11, <1>12 DEF BackupInv

LEMMA FailKeeps ==
  ASSUME BackupInv, NEW w \in Workers, Fail(w)
  PROVE  BackupInv'
<1>1. UNCHANGED <<made, disk, s3, redis, sidecar, saved, kept>>
  BY DEF Fail
<1>2. s3' \subseteq Files /\ faults' \in Nat /\ disk' \in [Files -> {"none", "partial", "whole"}]
  BY DEF Fail, BackupInv, BackupTypes
<1>3. Idle \in WorkerStates
  BY BackupsAssumption, EmptySeq DEF Idle, WorkerStates, Steps
<1>4. /\ worker' \in [Workers -> WorkerStates] /\ worker'[w] = Idle
      /\ \A v \in Workers \ {w} : worker'[v] = worker[v]
  BY <1>3, WorkerGoes DEF Fail, BackupInv, BackupTypes
<1>5. WorkerInv(w)' /\ worker'[w].step = "idle"
  BY <1>4, IdleIsSound
<1> QED
  BY <1>1, <1>2, <1>4, <1>5, QuietStepKeeps

LEMMA ListExpiresKeeps ==
  ASSUME BackupInv, ListExpires
  PROVE  BackupInv' /\ (kept => Listed' = Listed)
<1>1. redis # NoList /\ redis' = NoList /\ UNCHANGED <<made, disk, s3, sidecar, worker, saved, faults, kept>>
  BY DEF ListExpires
<1>2. BackupTypes'
  BY <1>1 DEF BackupInv, BackupTypes
<1>3. ApartInv' /\ \A w \in Workers : WorkerInv(w)'
  BY <1>1 DEF BackupInv, ApartInv, WorkerInv
<1>4. kept => Listed' = Listed
  BY <1>1 DEF BackupInv, FreshInv, Listed
<1>5. FreshInv'
  BY <1>1, <1>4 DEF BackupInv, FreshInv
<1> QED
  BY <1>2, <1>3, <1>4, <1>5 DEF BackupInv

LEMMA BackupInvKept ==
  ASSUME BackupInv, [Next]_vars
  PROVE  BackupInv'
<1>1. CASE UNCHANGED vars
  BY <1>1 DEF BackupInv, BackupTypes, ApartInv, FreshInv, WorkerInv, Listed, vars
<1>2. CASE Next
  BY <1>2, DumpKeeps, LoadForSaveKeeps, SaveKeeps, UploadKeeps, PlanKeeps, UnlinkKeeps,
     DeleteFromS3Keeps, LoadForRemoveKeeps, RemoveEntryKeeps, FailKeeps, ListExpiresKeeps DEF Next
<1> QED
  BY <1>1, <1>2

-----------------------------------------------------------------------------
(* What is deleted, or falls off the list, is not among the newest.        *)

\* The archives whose workers have yet to save them.
Held == {worker[w].file : w \in {v \in Workers : worker[v].step \in {"load", "save"}}}

\* What was dumped before an archive, and was or may be listed after it.
Late(f) == {g \in Held \cup ToSet(Listed) : g < f /\ (g \in Held \/ Before(Listed, g, f))}

\* Each listed archive was overtaken by fewer backups than there are workers.
LateInv == kept => \A f \in ToSet(Listed) : Cardinality(Late(f)) < Cardinality(Workers)

\* An archive that is not one of the newest that were saved.
Beyond(f) == Cardinality({g \in saved : g > f}) >= KeepLast

\* Only such archives are deleted, or fall off the list.
RecentInv ==
  /\ \A w \in Workers : \A f \in worker[w].purge : Beyond(f)
  /\ \A f \in saved : disk[f] = "whole" \/ Beyond(f)
  /\ kept => \A f \in saved \ ToSet(Listed) : Beyond(f)

LEMMA FilesOfWorkers ==
  ASSUME NEW some, some \subseteq Workers, NEW files, files = {worker[w].file : w \in some}
  PROVE  IsFiniteSet(files) /\ Cardinality(files) <= Cardinality(some)
         /\ Cardinality(files) \in Nat /\ Cardinality(some) \in Nat
<1>1. IsFiniteSet(some)
  BY BackupsAssumption, FS_Subset
<1>2. PICK pick : pick = [w \in some |-> worker[w].file]
  OBVIOUS
<1>3. pick \in Surjection(some, files)
  BY <1>2 DEF Surjection
<1> QED
  BY <1>1, <1>3, FS_Surjection, FS_CardinalityType

LEMMA BeyondStays ==
  ASSUME BackupInv, BackupInv', saved \subseteq saved', NEW f, Beyond(f)
  PROVE  Beyond(f)'
<1>1. PICK before, after : before = {g \in saved : g > f} /\ after = {g \in saved' : g > f}
  OBVIOUS
<1>2. before \subseteq after /\ after \subseteq Files
  <2>1. saved' \subseteq 1..made' /\ made' \in 0..MaxBackups
    BY DEF BackupInv, BackupTypes
  <2>2. saved' \subseteq Files
    BY <2>1, BackupsAssumption DEF Files
  <2> QED
    BY <1>1, <2>2, Zenon
<1>3. Cardinality(before) <= Cardinality(after) /\ Cardinality(before) \in Nat /\ Cardinality(after) \in Nat
  BY <1>2, FilesAreCounted
<1>4. Cardinality(before) >= KeepLast
  BY <1>1 DEF Beyond
<1>5. Cardinality(after) >= KeepLast
  BY <1>3, <1>4, BackupsAssumption
<1> QED
  BY <1>1, <1>5 DEF Beyond

\* A sweep deletes only such archives.
LEMMA PurgedAreBeyond ==
  ASSUME BackupInv, NEW f \in Purged(ToSet(Listed))
  PROVE  Beyond(f)
<1>1. PICK listed, newer : listed = ToSet(Listed) /\ newer = {g \in listed : g > f}
  OBVIOUS
<1>2. listed \subseteq saved /\ saved \subseteq Files
  BY <1>1, ListedIsAList, SavedFits DEF BackupInv, ListOf
<1>3. f \in listed /\ ~(Cardinality(newer) < KeepLast)
  BY <1>1 DEF Purged, NewestOf
<1>4. PICK some : some = {g \in saved : g > f}
  OBVIOUS
<1>5. newer \subseteq some /\ some \subseteq Files
  BY <1>1, <1>2, <1>4
<1>6. Cardinality(newer) <= Cardinality(some) /\ Cardinality(newer) \in Nat /\ Cardinality(some) \in Nat
  BY <1>5, FilesAreCounted
<1>7. Cardinality(some) >= KeepLast
  BY <1>3, <1>6, BackupsAssumption
<1> QED
  BY <1>4, <1>7 DEF Beyond

LEMMA RecentInvHelps ==
  ASSUME BackupInv, RecentInv
  PROVE  RecentAreKept
<1> SUFFICES ASSUME kept PROVE RecentAreListed /\ RecentAreOnDisk
  BY DEF RecentAreKept
<1>1. \A f \in saved \ ToSet(Listed) : Beyond(f)
  BY DEF RecentInv
<1>2. ToSet(Listed) \subseteq saved /\ saved \subseteq Files
  BY ListedIsAList, SavedFits DEF BackupInv, ListOf
<1>3. \A f : Beyond(f) => f \notin NewestOf(KeepLast, saved)
  <2>1. ASSUME NEW f, Beyond(f)  PROVE f \notin NewestOf(KeepLast, saved)
    <3>1. PICK newer : newer = {g \in saved : g > f}
      OBVIOUS
    <3>2. Cardinality(newer) >= KeepLast
      BY <2>1, <3>1 DEF Beyond
    <3>3. Cardinality(newer) \in Nat
      BY <1>2, <3>1, FilesAreCounted
    <3>4. ~(Cardinality(newer) < KeepLast)
      BY <3>2, <3>3, BackupsAssumption
    <3> QED
      BY <3>1, <3>4 DEF NewestOf
  <2> QED
    BY <2>1
<1>4. RecentAreListed
  BY <1>1, <1>3 DEF RecentAreListed, NewestOf
<1>5. ASSUME NEW f \in NewestOf(KeepLast, ToSet(Listed)), disk[f] # "whole"
      PROVE  FALSE
  <2>1. PICK listed, newer, all, lost :
          /\ listed = ToSet(Listed) /\ newer = {g \in listed : g > f}
          /\ all = {g \in saved : g > f} /\ lost = all \ listed
    OBVIOUS
  <2>2. f \in listed /\ Cardinality(newer) < KeepLast
    BY <1>5, <2>1 DEF NewestOf
  <2>3. newer \subseteq all /\ all \subseteq Files /\ lost \subseteq Files /\ f \in Files /\ newer \subseteq Files
    BY <1>2, <2>1, <2>2
  <2>4. Beyond(f)
    BY <1>2, <1>5, <2>1, <2>2 DEF RecentInv
  <2>5. Cardinality(all) >= KeepLast
    BY <2>1, <2>4 DEF Beyond
  <2>6. Cardinality(newer) \in Nat /\ Cardinality(all) \in Nat
    BY <2>3, FilesAreCounted
  <2>7. all # newer
    BY <2>2, <2>5, <2>6, BackupsAssumption
  <2>8. lost # {}
    BY <2>1, <2>3, <2>7, Zenon
  <2>9. PICK g \in lost : \A h \in lost : h <= g
    BY <2>3, <2>8, NewestExists
  <2>10. PICK later : later = {h \in saved : h > g}
    OBVIOUS
  <2>11. later \subseteq newer
    <3>1. ASSUME NEW h \in later  PROVE h \in newer
      <4>1. h \in Nat /\ g \in Nat /\ f \in Nat /\ h > g /\ g > f /\ h \in saved
        BY <1>2, <2>1, <2>3, <2>9, <2>10, <3>1 DEF Files
      <4>2. h > f /\ ~(h <= g)
        BY <4>1
      <4>3. h \notin lost /\ h \in all
        BY <2>1, <2>9, <4>1, <4>2
      <4> QED
        BY <2>1, <4>2, <4>3
    <3> QED
      BY <3>1
  <2>12. Cardinality(later) <= Cardinality(newer) /\ Cardinality(later) \in Nat
    BY <2>3, <2>11, FilesAreCounted
  <2>13. Beyond(g)
    BY <1>1, <2>1, <2>9
  <2>14. Cardinality(later) >= KeepLast
    BY <2>10, <2>13 DEF Beyond
  <2> QED
    BY <2>2, <2>6, <2>12, <2>14, BackupsAssumption
<1> QED
  BY <1>4, <1>5 DEF RecentAreOnDisk

-----------------------------------------------------------------------------
(* A step that changes no entry of the list keeps them.                    *)

LEMMA LateAreFiles ==
  ASSUME BackupInv, NEW f
  PROVE  /\ Held \subseteq 1..made /\ Held \subseteq Files
         /\ Late(f) \subseteq Files /\ Late(f) \subseteq Held \cup ToSet(Listed)
         /\ IsFiniteSet(Late(f)) /\ Cardinality(Late(f)) \in Nat
<1>1. Held \subseteq 1..made
  BY DEF Held, BackupInv, WorkerInv
<1>2. Held \subseteq Files
  BY <1>1, SavedFits
<1>3. ToSet(Listed) \subseteq Files
  BY ListedIsAList, SavedFits DEF BackupInv, ListOf
<1>4. Late(f) \subseteq Held \cup ToSet(Listed)
  BY DEF Late
<1>5. Late(f) \subseteq Files
  BY <1>2, <1>3, <1>4
<1> QED
  BY <1>1, <1>2, <1>4, <1>5, FilesAreCounted

LEMMA BeforeIsListed ==
  ASSUME NEW list, NEW g, NEW f, Before(list, g, f)
  PROVE  g \in ToSet(list) /\ f \in ToSet(list)
  BY DEF Before, ToSet

LEMMA LateShrinks ==
  ASSUME BackupInv, BackupInv', NEW f \in 1..made,
         Cardinality(Late(f)) < Cardinality(Workers),
         Held' \subseteq Held \cup {made + 1},
         \A g : Before(Listed', g, f) => Before(Listed, g, f) \/ g \in Held
  PROVE  Cardinality(Late(f)') < Cardinality(Workers)
<1>1. PICK before, after : before = Late(f) /\ after = Late(f)'
  OBVIOUS
<1>2. ASSUME NEW g \in after  PROVE g \in before
  <2>1. g \in Held' \cup ToSet(Listed') /\ g < f /\ (g \in Held' \/ Before(Listed', g, f))
    BY <1>1, <1>2 DEF Late
  <2>2. g \in Held' => g \in Held
    <3>1. HAVE g \in Held'
    <3>2. g # made + 1
      BY <2>1, SavedFits
    <3> QED
      BY <3>1, <3>2
  <2>3. g \in Held \/ Before(Listed, g, f)
    BY <2>1, <2>2
  <2>4. g \in Held \cup ToSet(Listed)
    BY <2>3, BeforeIsListed
  <2> QED
    BY <1>1, <2>1, <2>3, <2>4, Zenon DEF Late
<1>3. Cardinality(after) <= Cardinality(before) /\ Cardinality(after) \in Nat /\ Cardinality(before) \in Nat
  <2>1. after \subseteq before /\ before \subseteq Files
    BY <1>1, <1>2, LateAreFiles
  <2> QED
    BY <2>1, FilesAreCounted
<1>4. Cardinality(Workers) \in Nat
  BY BackupsAssumption, FS_CardinalityType
<1> QED
  BY <1>1, <1>3, <1>4

\* A step that changes no entry of the list while writes succeed, and deletes only what a
\* sweep has planned to.
ListStays ==
  /\ saved' = saved
  /\ kept' => kept /\ Listed' = Listed
  /\ \A v \in Workers : worker'[v].purge \subseteq worker[v].purge \cup Purged(ToSet(Listed))
  /\ \A f \in saved : disk'[f] = disk[f] \/ \E v \in Workers : f \in worker[v].purge
  /\ Held' \subseteq Held \cup {made + 1}

LEMMA ListStaysLate ==
  ASSUME BackupInv, BackupInv', LateInv, ListStays
  PROVE  LateInv'
<1>1. ASSUME kept', NEW f \in ToSet(Listed')  PROVE Cardinality(Late(f)') < Cardinality(Workers)
  <2>1. kept /\ Listed' = Listed /\ f \in ToSet(Listed)
    BY <1>1 DEF ListStays
  <2>2. f \in 1..made
    BY <2>1, ListedIsAList DEF BackupInv, BackupTypes, ListOf
  <2>3. Cardinality(Late(f)) < Cardinality(Workers)
    BY <2>1 DEF LateInv
  <2>4. \A g : Before(Listed', g, f) => Before(Listed, g, f) \/ g \in Held
    BY <2>1
  <2>5. Held' \subseteq Held \cup {made + 1}
    BY DEF ListStays
  <2> QED
    BY <2>2, <2>3, <2>4, <2>5, LateShrinks
<1> QED
  BY <1>1 DEF LateInv

LEMMA ListStaysKeeps ==
  ASSUME BackupInv, BackupInv', RecentInv, ListStays
  PROVE  RecentInv'
<1>1. \A f : Beyond(f) => Beyond(f)'
  BY BeyondStays DEF ListStays
<1>2. \A f \in Purged(ToSet(Listed)) : Beyond(f)
  BY PurgedAreBeyond
<1>3. ASSUME NEW w \in Workers, NEW f \in worker'[w].purge  PROVE Beyond(f)'
  BY <1>1, <1>2, <1>3 DEF ListStays, RecentInv
<1>4. ASSUME NEW f \in saved'  PROVE disk'[f] = "whole" \/ Beyond(f)'
  BY <1>1, <1>4 DEF ListStays, RecentInv
<1>5. ASSUME kept', NEW f \in saved' \ ToSet(Listed')  PROVE Beyond(f)'
  BY <1>1, <1>5 DEF ListStays, RecentInv
<1> QED
  BY <1>3, <1>4, <1>5 DEF RecentInv

\* Who held an archive still does, or has gone on.
LEMMA HeldStays ==
  ASSUME NEW w \in Workers, NEW file,
         \A v \in Workers \ {w} : worker'[v] = worker[v],
         worker'[w].step \in {"load", "save"} =>
           \/ worker[w].step \in {"load", "save"} /\ worker'[w].file = worker[w].file
           \/ worker'[w].file = file
  PROVE  Held' \subseteq Held \cup {file}
  BY DEF Held

-----------------------------------------------------------------------------
(* The steps that leave the list.                                          *)

LEMMA MostLeaveTheList ==
  ASSUME NEW w \in Workers, UNCHANGED <<redis, sidecar, saved, kept>>,
         \A v \in Workers \ {w} : worker'[v] = worker[v],
         worker'[w].purge \subseteq worker[w].purge \cup Purged(ToSet(Listed)),
         \A f \in saved : disk'[f] = disk[f] \/ f \in worker[w].purge,
         worker'[w].step \in {"load", "save"} =>
           \/ worker[w].step \in {"load", "save"} /\ worker'[w].file = worker[w].file
           \/ worker'[w].file = made + 1
  PROVE  ListStays
<1>1. Listed' = Listed
  BY DEF Listed
<1>2. PICK file : file = made + 1
  OBVIOUS
<1>3. Held' \subseteq Held \cup {file}
  BY <1>2, HeldStays
<1> QED
  BY <1>1, <1>2, <1>3 DEF ListStays

LEMMA DumpLeavesTheList ==
  ASSUME BackupInv, NEW w \in Workers, Dump(w)
  PROVE  ListStays
<1>1. UNCHANGED <<redis, sidecar, saved, kept>>
  BY DEF Dump
<1>2. \A f \in saved : disk'[f] = disk[f]
  <2>1. \E there \in {"whole", "partial"} : disk' = [disk EXCEPT ![made + 1] = there]
    BY DEF Dump
  <2>2. made + 1 \notin saved /\ saved \subseteq Files
    BY SavedFits DEF BackupInv, BackupTypes
  <2> QED
    BY <2>1, <2>2 DEF BackupInv, BackupTypes
<1>3. CASE UNCHANGED worker
  BY <1>1, <1>2, <1>3, MostLeaveTheList
<1>4. ASSUME worker' = [worker EXCEPT ![w] = [Idle EXCEPT !.step = "load", !.file = made + 1]]
      PROVE  ListStays
  <2>1. PICK r : r = [Idle EXCEPT !.step = "load", !.file = made + 1]
    OBVIOUS
  <2>2. r.file = made + 1 /\ r.purge = {}
    BY <2>1 DEF Idle
  <2>3. worker'[w] = r /\ \A v \in Workers \ {w} : worker'[v] = worker[v]
    BY <1>4, <2>1 DEF BackupInv, BackupTypes
  <2> QED
    BY <1>1, <1>2, <2>2, <2>3, MostLeaveTheList
<1> QED
  BY <1>3, <1>4 DEF Dump

LEMMA LoadForSaveLeavesTheList ==
  ASSUME BackupInv, NEW w \in Workers, LoadForSave(w)
  PROVE  ListStays
<1>1. worker[w].step = "load" /\ UNCHANGED <<made, disk, s3, redis, sidecar, saved, faults, kept>>
  BY DEF LoadForSave
<1>2. PICK list : list = Newest(Cap, <<worker[w].file>> \o Listed)
  OBVIOUS
<1>3. PICK r : r = [worker[w] EXCEPT !.step = "save", !.list = list]
  OBVIOUS
<1>4. r.file = worker[w].file /\ r.purge = worker[w].purge
  BY <1>3 DEF BackupInv, BackupTypes, WorkerStates
<1>5. worker' = [worker EXCEPT ![w] = r]
  BY <1>2, <1>3 DEF LoadForSave
<1>6. worker'[w] = r /\ \A v \in Workers \ {w} : worker'[v] = worker[v]
  BY <1>5 DEF BackupInv, BackupTypes
<1> QED
  BY <1>1, <1>4, <1>6, MostLeaveTheList

LEMMA UploadLeavesTheList ==
  ASSUME BackupInv, NEW w \in Workers, Upload(w) \/ Arrive(w)
  PROVE  ListStays
<1>1. UNCHANGED <<made, disk, redis, sidecar, saved, faults, kept>>
  BY DEF Upload, Arrive
<1>2. ASSUME NEW step \in {"put", "plan"}, Go(w, step)
      PROVE  ListStays
  <2>1. /\ worker'[w].step = step /\ worker'[w].purge = worker[w].purge
        /\ \A v \in Workers \ {w} : worker'[v] = worker[v]
    BY <1>2, WorkerSteps DEF BackupInv, Steps
  <2> QED
    BY <1>1, <2>1, MostLeaveTheList
<1>3. CASE worker' = [worker EXCEPT ![w] = Idle]
  <2>1. /\ worker'[w].step = "idle" /\ worker'[w].purge = {}
        /\ \A v \in Workers \ {w} : worker'[v] = worker[v]
    BY <1>3 DEF BackupInv, BackupTypes, Idle
  <2> QED
    BY <1>1, <2>1, MostLeaveTheList
<1> QED
  BY <1>2, <1>3 DEF Upload, Arrive

LEMMA SweepsLeaveTheList ==
  ASSUME BackupInv, NEW w \in Workers,
         Plan(w) \/ Unlink(w) \/ DeleteFromS3(w) \/ LoadForRemove(w) \/ Fail(w)
  PROVE  ListStays
<1>1. CASE Plan(w)
  <2>1. UNCHANGED <<disk, redis, sidecar, saved, kept>>
    BY <1>1 DEF Plan
  <2> QED
    BY <1>1, <2>1, PlanKeeps, MostLeaveTheList
<1>2. CASE Unlink(w)
  <2>1. UNCHANGED <<redis, sidecar, saved, kept>>
    BY <1>2 DEF Unlink
  <2>2. \A f \in saved : disk'[f] = disk[f] \/ f \in worker[w].purge
    <3>1. PICK x \in worker[w].purge : disk' \in {disk, [disk EXCEPT ![x] = "none"]}
      BY <1>2, UnlinkKeeps
    <3>2. saved \subseteq Files /\ disk \in [Files -> {"none", "partial", "whole"}]
      BY SavedFits DEF BackupInv, BackupTypes
    <3> QED
      BY <3>1, <3>2
  <2> QED
    BY <1>2, <2>1, <2>2, UnlinkKeeps, MostLeaveTheList
<1>3. CASE DeleteFromS3(w)
  <2>1. UNCHANGED <<disk, redis, sidecar, saved, kept>> /\ Go(w, "reload")
    BY <1>3 DEF DeleteFromS3
  <2>2. /\ worker'[w].step = "reload" /\ worker'[w].purge = worker[w].purge
        /\ \A v \in Workers \ {w} : worker'[v] = worker[v]
    BY <2>1, WorkerSteps DEF BackupInv, Steps
  <2> QED
    BY <2>1, <2>2, MostLeaveTheList
<1>4. CASE LoadForRemove(w)
  <2>1. UNCHANGED <<disk, redis, sidecar, saved, kept>>
    BY <1>4 DEF LoadForRemove
  <2> QED
    BY <1>4, <2>1, LoadForRemoveKeeps, MostLeaveTheList
<1>5. CASE Fail(w)
  <2>1. UNCHANGED <<disk, redis, sidecar, saved, kept>> /\ worker' = [worker EXCEPT ![w] = Idle]
    BY <1>5 DEF Fail
  <2>2. /\ worker'[w].step = "idle" /\ worker'[w].purge = {}
        /\ \A v \in Workers \ {w} : worker'[v] = worker[v]
    BY <2>1 DEF BackupInv, BackupTypes, Idle
  <2> QED
    BY <2>1, <2>2, MostLeaveTheList
<1> QED
  BY <1>1, <1>2, <1>3, <1>4, <1>5

LEMMA ExpiryLeavesTheList ==
  ASSUME BackupInv, ListExpires
  PROVE  ListStays
<1>1. UNCHANGED <<made, disk, s3, sidecar, worker, saved, faults, kept>>
  BY DEF ListExpires
<1>2. Held' = Held
  BY <1>1 DEF Held
<1> QED
  BY <1>1, <1>2, ListExpiresKeeps DEF ListStays

-----------------------------------------------------------------------------
(* Saving a backup may push one off the list.                              *)

LEMMA TogetherCounts ==
  ASSUME NEW some, NEW others, IsFiniteSet(some), IsFiniteSet(others)
  PROVE  /\ IsFiniteSet(some \cup others)
         /\ Cardinality(some \cup others) <= Cardinality(some) + Cardinality(others)
         /\ Cardinality(some) \in Nat /\ Cardinality(others) \in Nat
         /\ Cardinality(some \cup others) \in Nat
<1>1. /\ IsFiniteSet(some \cup others) /\ IsFiniteSet(some \cap others)
      /\ Cardinality(some \cup others) =
           Cardinality(some) + Cardinality(others) - Cardinality(some \cap others)
  BY FS_Union, FS_Intersection
<1>2. /\ Cardinality(some) \in Nat /\ Cardinality(others) \in Nat
      /\ Cardinality(some \cap others) \in Nat
  BY <1>1, FS_CardinalityType
<1>3. PICK a \in Nat, b \in Nat, c \in Nat :
        /\ a = Cardinality(some) /\ b = Cardinality(others)
        /\ Cardinality(some \cup others) = a + b - c
  BY <1>1, <1>2
<1>4. Cardinality(some \cup others) <= a + b
  BY <1>3
<1>5. Cardinality(some \cup others) \in Nat
  BY <1>1, FS_CardinalityType
<1> QED
  BY <1>1, <1>2, <1>3, <1>4, <1>5

LEMMA SaveGoesOn ==
  ASSUME BackupInv, NEW w \in Workers, Save(w), NEW h, h = worker[w].file
  PROVE  /\ UNCHANGED <<made, disk, s3>> /\ saved' = saved \cup {h}
         /\ h \in Files /\ h \in 1..made /\ h \notin saved /\ h \in Held /\ disk[h] = "whole"
         /\ worker[w].step = "save" /\ worker[w].purge = {}
         /\ worker'[w].step = "upload" /\ worker'[w].file = h /\ worker'[w].purge = {}
         /\ \A v \in Workers \ {w} : worker'[v] = worker[v]
         /\ Held' \subseteq Held
         /\ \E some : /\ some \subseteq Workers \ {w}
                      /\ Held' = {worker[v].file : v \in some}
<1>1. /\ worker[w].step = "save" /\ UNCHANGED <<made, disk, s3>>
      /\ saved' = saved \cup {h} /\ Go(w, "upload")
  BY DEF Save
<1>2. h \in (1..made) \ saved /\ disk[h] = "whole" /\ worker[w].purge = {}
  BY <1>1 DEF BackupInv, WorkerInv, Sweeping
<1>3. /\ worker'[w].step = "upload" /\ worker'[w].file = h /\ worker'[w].purge = {}
      /\ \A v \in Workers \ {w} : worker'[v] = worker[v]
  BY <1>1, <1>2, WorkerSteps DEF BackupInv, Steps
<1>4. h \in Files /\ h \in Held
  BY <1>1, <1>2, SavedFits DEF Held
<1>5. PICK some : some = {v \in Workers \ {w} : worker[v].step \in {"load", "save"}}
  OBVIOUS
<1>6. Held' = {worker[v].file : v \in some}
  BY <1>3, <1>5 DEF Held
<1>7. Held' \subseteq Held
  BY <1>5, <1>6 DEF Held
<1> QED
  BY <1>1, <1>2, <1>3, <1>4, <1>5, <1>6, <1>7

LEMMA SaveLeaves ==
  ASSUME BackupInv, NEW w \in Workers, Save(w), kept', NEW h, h = worker[w].file
  PROVE  /\ kept /\ faults' = faults /\ h \notin ToSet(Listed)
         /\ h \in ToSet(Listed') /\ ToSet(Listed') \subseteq ToSet(Listed) \cup {h}
         /\ \A g, f : Before(Listed', g, f) =>
              f \in ToSet(Listed) /\ (g = h \/ Before(Listed, g, f))
         /\ \/ ToSet(Listed') = ToSet(Listed) \cup {h}
            \/ /\ Len(Listed) = Cap
               /\ \E f \in ToSet(Listed) :
                    /\ ToSet(Listed') = (ToSet(Listed) \cup {h}) \ {f}
                    /\ \A g \in ToSet(Listed) \ {f} : Before(Listed, g, f)
<1>1. /\ worker[w].step = "save" /\ Persist(worker[w].list) /\ ListOf(worker[w].list, saved \cup {h})
      /\ worker[w].list = Newest(Cap, <<h>> \o Listed) \/ ~kept
  BY DEF Save, BackupInv, WorkerInv, FreshInv
<1>2. kept /\ faults' = faults /\ Listed' = worker[w].list
  BY <1>1, PersistLeaves
<1>3. h \in Files /\ h \notin saved
  BY SaveGoesOn
<1>4. ListOf(Listed, saved)
  BY ListedIsAList DEF BackupInv
<1>5. h \notin ToSet(Listed) /\ Cap \in Nat /\ Cap # 0
  BY <1>3, <1>4, BackupsAssumption DEF ListOf
<1>6. PICK longer : longer = Newest(Cap, <<h>> \o Listed)
  OBVIOUS
<1>7. Listed' = longer
  BY <1>1, <1>2, <1>6
<1>8. Listed \in Seq(Files) /\ IsInjective(Listed) /\ Len(Listed) <= Cap
  BY <1>4 DEF ListOf
<1>9. /\ h \in ToSet(longer) /\ ToSet(longer) \subseteq ToSet(Listed) \cup {h}
      /\ \A g, f : Before(longer, g, f) =>
           f \in ToSet(Listed) /\ (g = h \/ Before(Listed, g, f))
      /\ \/ ToSet(longer) = ToSet(Listed) \cup {h}
         \/ /\ Len(Listed) = Cap
            /\ \E f \in ToSet(Listed) :
                 /\ ToSet(longer) = (ToSet(Listed) \cup {h}) \ {f}
                 /\ \A g \in ToSet(Listed) \ {f} : Before(Listed, g, f)
  BY <1>3, <1>5, <1>6, <1>8, ListWithFirst, SMTT(30)
<1> QED
  BY <1>2, <1>5, <1>7, <1>9

\* Of what precedes the last entry of a full list, what is older overtook it: the rest is
\* newer.
LEMMA LastIsOld ==
  ASSUME BackupInv, NEW h \in Held, h \notin ToSet(Listed), Len(Listed) = Cap,
         NEW f \in ToSet(Listed), \A g \in ToSet(Listed) \ {f} : Before(Listed, g, f),
         Cardinality(Late(f)) < Cardinality(Workers)
  PROVE  /\ Cardinality({g \in saved \cup {h} : g > f}) + Cardinality(Workers) > Cap
         /\ Cardinality({g \in saved \cup {h} : g > f}) \in Nat
<1>1. PICK listed, all, older, newer, some :
        /\ listed = ToSet(Listed) /\ all = listed \cup {h}
        /\ older = {g \in all : g < f} /\ newer = {g \in all : g > f}
        /\ some = {g \in saved \cup {h} : g > f}
  OBVIOUS
<1>2. /\ listed \subseteq saved /\ saved \subseteq Files /\ h \in Files /\ f \in Files
      /\ IsFiniteSet(listed) /\ Cardinality(listed) = Cap
  BY <1>1, ListedIsAList, SavedFits, LateAreFiles, ListCounts DEF BackupInv, ListOf
<1>3. IsFiniteSet(all) /\ Cardinality(all) = Cap + 1
  BY <1>1, <1>2, FS_AddElement
<1>4. \A g \in all : g \in Nat /\ (g = f \/ g < f \/ g > f)
  BY <1>1, <1>2, BackupsAssumption DEF Files
<1>5. all = (older \cup newer) \cup {f}
  BY <1>1, <1>4
<1>6. older \subseteq Late(f)
  <2>1. ASSUME NEW g \in older  PROVE g \in Late(f)
    <3>1. g \in all /\ g < f /\ g # f
      BY <1>1, <1>2, <1>4, <2>1 DEF Files
    <3>2. CASE g = h
      BY <3>1, <3>2 DEF Late
    <3>3. CASE g \in listed
      BY <1>1, <3>1, <3>3 DEF Late
    <3> QED
      BY <1>1, <3>1, <3>2, <3>3
  <2> QED
    BY <2>1
<1>7. /\ Late(f) \subseteq Files /\ newer \subseteq some /\ some \subseteq Files /\ newer \subseteq Files
      /\ older \subseteq Files
  <2>1. all \subseteq saved \cup {h}
    BY <1>1, <1>2
  <2>2. newer \subseteq some /\ some \subseteq saved \cup {h} /\ newer \subseteq all /\ older \subseteq all
    BY <1>1, <2>1
  <2> QED
    BY <1>2, <2>1, <2>2, LateAreFiles
<1>8. /\ Cardinality(older) <= Cardinality(Late(f)) /\ Cardinality(newer) <= Cardinality(some)
      /\ Cardinality(some) \in Nat /\ Cardinality(Late(f)) \in Nat
      /\ IsFiniteSet(older) /\ IsFiniteSet(newer)
  BY <1>6, <1>7, FilesAreCounted
<1>9. PICK both : both = older \cup newer
  OBVIOUS
<1>10. /\ IsFiniteSet(both) /\ Cardinality(both) <= Cardinality(older) + Cardinality(newer)
       /\ Cardinality(both) \in Nat /\ Cardinality(older) \in Nat /\ Cardinality(newer) \in Nat
  BY <1>8, <1>9, TogetherCounts
<1>11. Cardinality(all) <= Cardinality(both) + 1
  <2>1. all = both \cup {f}
    BY <1>5, <1>9
  <2>2. Cardinality(all) = IF f \in both THEN Cardinality(both) ELSE Cardinality(both) + 1
    BY <1>10, <2>1, FS_AddElement
  <2> QED
    BY <1>10, <2>2
<1>12. Cardinality(Workers) \in Nat /\ Cap \in Nat
  BY BackupsAssumption, FS_CardinalityType
<1>13. Cardinality(some) + Cardinality(Workers) > Cap
  BY <1>3, <1>8, <1>10, <1>11, <1>12
<1> QED
  BY <1>1, <1>8, <1>13

LEMMA WorkersCount ==
  ASSUME NEW some, some \subseteq Workers
  PROVE  /\ IsFiniteSet(some) /\ Cardinality(some) \in Nat /\ Cardinality(Workers) \in Nat
         /\ Cardinality(some) <= Cardinality(Workers)
         /\ \A w \in Workers \ some : Cardinality(some) < Cardinality(Workers)
<1>1. IsFiniteSet(some) /\ IsFiniteSet(Workers) /\ Cardinality(some) <= Cardinality(Workers)
  BY BackupsAssumption, FS_Subset
<1>2. Cardinality(some) \in Nat /\ Cardinality(Workers) \in Nat
  BY <1>1, FS_CardinalityType
<1>3. ASSUME NEW w \in Workers \ some  PROVE Cardinality(some) < Cardinality(Workers)
  <2>1. Cardinality(some) # Cardinality(Workers)
    BY <1>1, <1>3, FS_Subset
  <2> QED
    BY <1>1, <1>2, <2>1
<1> QED
  BY <1>1, <1>2, <1>3

\* An archive that the list lost when it was full is older than about all it had.
LEMMA CutIsOutOfRoom ==
  ASSUME BackupInv, LateInv, NEW w \in Workers, Save(w), kept',
         NEW f \in ToSet(Listed), f \notin ToSet(Listed')
  PROVE  /\ OutOfRoom(f)'
         /\ Cardinality({g \in saved' : g > f}) \in Nat
<1>1. PICK h : h = worker[w].file
  OBVIOUS
<1>2. saved' = saved \cup {h} /\ h \in Held
  BY <1>1, SaveGoesOn
<1>3. /\ kept /\ h \notin ToSet(Listed) /\ h \in ToSet(Listed')
      /\ \/ ToSet(Listed') = ToSet(Listed) \cup {h}
         \/ /\ Len(Listed) = Cap
            /\ \E x \in ToSet(Listed) :
                 /\ ToSet(Listed') = (ToSet(Listed) \cup {h}) \ {x}
                 /\ \A g \in ToSet(Listed) \ {x} : Before(Listed, g, x)
  BY <1>1, SaveLeaves
<1>4. Len(Listed) = Cap /\ \A g \in ToSet(Listed) \ {f} : Before(Listed, g, f)
  BY <1>3
<1>5. Cardinality(Late(f)) < Cardinality(Workers)
  BY <1>3 DEF LateInv
<1>6. /\ Cardinality({g \in saved \cup {h} : g > f}) + Cardinality(Workers) > Cap
      /\ Cardinality({g \in saved \cup {h} : g > f}) \in Nat
  BY <1>2, <1>3, <1>4, <1>5, LastIsOld
<1> QED
  BY <1>2, <1>6 DEF OutOfRoom

LEMMA SaveKeepsLate ==
  ASSUME BackupInv, BackupInv', LateInv, NEW w \in Workers, Save(w)
  PROVE  LateInv'
<1>1. PICK h : h = worker[w].file
  OBVIOUS
<1>2. Held' \subseteq Held /\ h \in Held
  BY <1>1, SaveGoesOn
<1>3. PICK some : some \subseteq Workers \ {w} /\ Held' = {worker[v].file : v \in some}
  BY <1>1, SaveGoesOn
<1>4. ASSUME kept'
      PROVE  /\ kept /\ h \notin ToSet(Listed)
             /\ ToSet(Listed') \subseteq ToSet(Listed) \cup {h}
             /\ \A g, f : Before(Listed', g, f) =>
                  f \in ToSet(Listed) /\ (g = h \/ Before(Listed, g, f))
  BY <1>1, <1>4, SaveLeaves
<1>5. ASSUME kept', NEW f \in ToSet(Listed')  PROVE Cardinality(Late(f)') < Cardinality(Workers)
  <2>1. CASE f # h
    <3>1. f \in ToSet(Listed) /\ kept
      BY <1>4, <1>5, <2>1
    <3>2. f \in 1..made
      BY <3>1, ListedIsAList DEF BackupInv, BackupTypes, ListOf
    <3>3. Cardinality(Late(f)) < Cardinality(Workers)
      BY <3>1 DEF LateInv
    <3>4. \A g : Before(Listed', g, f) => Before(Listed, g, f) \/ g \in Held
      BY <1>2, <1>4, <1>5
    <3>5. Held' \subseteq Held \cup {made + 1}
      BY <1>2
    <3> QED
      BY <3>2, <3>3, <3>4, <3>5, LateShrinks
  <2>2. CASE f = h
    <3>1. PICK late, held : late = Late(f)' /\ held = Held'
      OBVIOUS
    <3>2. late \subseteq held
      <4>1. \A g : ~Before(Listed', g, f)
        BY <1>4, <1>5, <2>2
      <4> QED
        BY <3>1, <4>1 DEF Late
    <3>3. held \subseteq Files
      <4>1. held \subseteq Held
        BY <1>2, <3>1
      <4> QED
        BY <4>1, LateAreFiles
    <3>4. /\ Cardinality(late) <= Cardinality(held) /\ Cardinality(late) \in Nat
          /\ Cardinality(held) \in Nat
      BY <3>2, <3>3, FilesAreCounted
    <3>5. Cardinality(held) <= Cardinality(some)
      BY <1>3, <3>1, FilesOfWorkers
    <3>6. /\ Cardinality(some) < Cardinality(Workers) /\ Cardinality(some) \in Nat
          /\ Cardinality(Workers) \in Nat
      BY <1>3, WorkersCount
    <3>7. Cardinality(late) < Cardinality(Workers)
      BY <3>4, <3>5, <3>6
    <3> QED
      BY <3>1, <3>7
  <2> QED
    BY <2>1, <2>2
<1> QED
  BY <1>5 DEF LateInv

\* The list has room for the archives to keep and for the backups at work.
RoomForRecent == KeepLast + Cardinality(Workers) <= Cap + 1

LEMMA SaveKeepsRecent ==
  ASSUME RoomForRecent, BackupInv, BackupInv', RecentInv, LateInv, NEW w \in Workers, Save(w)
  PROVE  RecentInv'
<1>1. PICK h : h = worker[w].file
  OBVIOUS
<1>2. /\ UNCHANGED <<made, disk, s3>> /\ saved' = saved \cup {h} /\ disk[h] = "whole"
      /\ worker'[w].purge = {} /\ \A v \in Workers \ {w} : worker'[v] = worker[v]
  BY <1>1, SaveGoesOn
<1>3. \A f : Beyond(f) => Beyond(f)'
  BY <1>2, BeyondStays
<1>4. ASSUME NEW v \in Workers, NEW f \in worker'[v].purge  PROVE Beyond(f)'
  BY <1>2, <1>3, <1>4 DEF RecentInv
<1>5. ASSUME NEW f \in saved'  PROVE disk'[f] = "whole" \/ Beyond(f)'
  BY <1>2, <1>3, <1>5 DEF RecentInv
<1>6. ASSUME kept', NEW f \in saved' \ ToSet(Listed')  PROVE Beyond(f)'
  <2>1. kept /\ h \in ToSet(Listed')
    BY <1>1, <1>6, SaveLeaves
  <2>2. f # h /\ f \in saved
    BY <1>2, <1>6, <2>1
  <2>3. CASE f \notin ToSet(Listed)
    BY <1>3, <2>1, <2>2, <2>3 DEF RecentInv
  <2>4. CASE f \in ToSet(Listed)
    <3>1. PICK n : n = Cardinality({g \in saved' : g > f})
      OBVIOUS
    <3>2. n \in Nat /\ n + Cardinality(Workers) > Cap
      BY <1>6, <2>4, <3>1, CutIsOutOfRoom DEF OutOfRoom
    <3>3. Cardinality(Workers) \in Nat
      BY WorkersCount
    <3>4. n >= KeepLast
      BY <3>2, <3>3, BackupsAssumption DEF RoomForRecent
    <3> QED
      BY <3>1, <3>4 DEF Beyond
  <2> QED
    BY <2>3, <2>4
<1> QED
  BY <1>4, <1>5, <1>6 DEF RecentInv

LEMMA RemoveLeaves ==
  ASSUME BackupInv, NEW w \in Workers, RemoveEntry(w), NEW x, x = worker[w].file
  PROVE  /\ UNCHANGED <<made, disk, s3, saved>>
         /\ worker[w].step = "remove" /\ x \in worker[w].purge /\ Held' \subseteq Held
         /\ kept' => /\ kept /\ faults' = faults /\ ToSet(Listed') = ToSet(Listed) \ {x}
                     /\ \A g, f : Before(Listed', g, f) => Before(Listed, g, f)
<1>1. /\ worker[w].step = "remove" /\ UNCHANGED <<made, disk, s3, saved>> /\ Persist(worker[w].list)
      /\ ListOf(worker[w].list, saved) /\ x \in worker[w].purge
      /\ worker[w].list = Without(Listed, x) \/ ~kept
  BY DEF RemoveEntry, BackupInv, WorkerInv, FreshInv
<1>2. Held' \subseteq Held
  BY RemoveEntryKeeps DEF Held
<1>3. ASSUME kept'
      PROVE  /\ kept /\ faults' = faults /\ ToSet(Listed') = ToSet(Listed) \ {x}
             /\ \A g, f : Before(Listed', g, f) => Before(Listed, g, f)
  <2>1. kept /\ faults' = faults /\ Listed' = worker[w].list
    BY <1>1, <1>3, PersistLeaves
  <2>2. PICK rest : rest = Without(Listed, x)
    OBVIOUS
  <2>3. Listed' = rest
    BY <1>1, <2>1, <2>2
  <2>4. Listed \in Seq(Files) /\ IsInjective(Listed)
    BY ListedIsAList DEF BackupInv, ListOf
  <2>5. /\ ToSet(rest) = ToSet(Listed) \ {x}
        /\ \A g, f : Before(rest, g, f) => Before(Listed, g, f)
    BY <2>2, <2>4, ListWithout
  <2> QED
    BY <2>1, <2>3, <2>5
<1> QED
  BY <1>1, <1>2, <1>3

LEMMA RemoveKeepsLate ==
  ASSUME BackupInv, BackupInv', LateInv, NEW w \in Workers, RemoveEntry(w)
  PROVE  LateInv'
<1>1. PICK x : x = worker[w].file
  OBVIOUS
<1>2. Held' \subseteq Held
  BY <1>1, RemoveLeaves
<1>3. ASSUME kept'
      PROVE  /\ kept /\ ToSet(Listed') = ToSet(Listed) \ {x}
             /\ \A g, f : Before(Listed', g, f) => Before(Listed, g, f)
  BY <1>1, <1>3, RemoveLeaves
<1>4. ASSUME kept', NEW f \in ToSet(Listed')  PROVE Cardinality(Late(f)') < Cardinality(Workers)
  <2>1. f \in ToSet(Listed) /\ kept
    BY <1>3, <1>4
  <2>2. f \in 1..made
    BY <2>1, ListedIsAList DEF BackupInv, BackupTypes, ListOf
  <2>3. Cardinality(Late(f)) < Cardinality(Workers)
    BY <2>1 DEF LateInv
  <2>4. \A g : Before(Listed', g, f) => Before(Listed, g, f) \/ g \in Held
    BY <1>3, <1>4
  <2>5. Held' \subseteq Held \cup {made + 1}
    BY <1>2
  <2> QED
    BY <2>2, <2>3, <2>4, <2>5, LateShrinks
<1> QED
  BY <1>4 DEF LateInv

LEMMA RemoveKeepsRecent ==
  ASSUME BackupInv, BackupInv', RecentInv, NEW w \in Workers, RemoveEntry(w)
  PROVE  RecentInv'
<1>1. PICK x : x = worker[w].file
  OBVIOUS
<1>2. UNCHANGED <<made, disk, s3, saved>> /\ x \in worker[w].purge
  BY <1>1, RemoveLeaves
<1>3. kept' => kept /\ ToSet(Listed') = ToSet(Listed) \ {x}
  BY <1>1, RemoveLeaves
<1>4. \A f : Beyond(f) => Beyond(f)'
  BY <1>2, BeyondStays
<1>5. \A v \in Workers : worker'[v].purge \subseteq worker[v].purge
  BY RemoveEntryKeeps
<1>6. ASSUME NEW v \in Workers, NEW f \in worker'[v].purge  PROVE Beyond(f)'
  BY <1>4, <1>5, <1>6 DEF RecentInv
<1>7. ASSUME NEW f \in saved'  PROVE disk'[f] = "whole" \/ Beyond(f)'
  BY <1>2, <1>4, <1>7 DEF RecentInv
<1>8. ASSUME kept', NEW f \in saved' \ ToSet(Listed')  PROVE Beyond(f)'
  BY <1>2, <1>3, <1>4, <1>8 DEF RecentInv
<1> QED
  BY <1>6, <1>7, <1>8 DEF RecentInv

LEMMA RecentInvInit == Init => RecentInv /\ LateInv
<1> SUFFICES ASSUME Init PROVE RecentInv /\ LateInv
  OBVIOUS
<1>1. Listed = <<>> /\ ToSet(Listed) = {}
  BY DEF Init, Listed, ToSet
<1>2. \A w \in Workers : worker[w].purge = {}
  BY DEF Init, Idle
<1>3. saved = {}
  BY DEF Init
<1> QED
  BY <1>1, <1>2, <1>3 DEF RecentInv, LateInv

LEMMA QuietStepsLeaveTheList ==
  ASSUME BackupInv, NEW w \in Workers,
         \/ Dump(w) \/ LoadForSave(w) \/ Upload(w) \/ Arrive(w) \/ Plan(w) \/ Unlink(w)
         \/ DeleteFromS3(w) \/ LoadForRemove(w) \/ Fail(w)
  PROVE  ListStays
  BY DumpLeavesTheList, LoadForSaveLeavesTheList, UploadLeavesTheList, SweepsLeaveTheList

\* A step leaves the list, or writes it.
LEMMA ListSteps ==
  ASSUME BackupInv, [Next]_vars
  PROVE  ListStays \/ \E w \in Workers : Save(w) \/ RemoveEntry(w)
<1>1. CASE UNCHANGED vars
  BY <1>1 DEF ListStays, Held, Listed, vars
<1>2. CASE Next
  BY <1>2, QuietStepsLeaveTheList, ExpiryLeavesTheList DEF Next
<1> QED
  BY <1>1, <1>2

LEMMA LateInvKept ==
  ASSUME BackupInv, BackupInv', LateInv, [Next]_vars
  PROVE  LateInv'
  BY ListSteps, ListStaysLate, SaveKeepsLate, RemoveKeepsLate

LEMMA RecentInvKept ==
  ASSUME RoomForRecent, BackupInv, BackupInv', RecentInv, LateInv, [Next]_vars
  PROVE  RecentInv'
  BY ListSteps, ListStaysKeeps, SaveKeepsRecent, RemoveKeepsRecent

\* The newest keepLast backups are listed and whole on disk, as long as writes of the list
\* succeed and do not cross, when the list has room for them and for the backups at work
\* (backup_service.ts #saveMetadata, backup_retention_service.ts sweep).
THEOREM RecentStayKept ==
  ASSUME RoomForRecent
  PROVE  Spec => []RecentAreKept
<1>1. Init => BackupInv /\ RecentInv /\ LateInv
  BY BackupInvInit, RecentInvInit
<1>2. BackupInv /\ RecentInv /\ LateInv /\ [Next]_vars => (BackupInv /\ RecentInv /\ LateInv)'
  BY BackupInvKept, RecentInvKept, LateInvKept
<1>3. BackupInv /\ RecentInv => RecentAreKept
  BY RecentInvHelps
<1> QED
  BY <1>1, <1>2, <1>3, PTL DEF Spec

-----------------------------------------------------------------------------
(* What leaves the list is deleted, or older than about all it can name.   *)

Purging == UNION {worker[w].purge : w \in Workers}

\* Gone, and not about to arrive in S3 unless a sweep came in between.
Swept(f) == disk[f] = "none" /\ (f \in s3 \cup Arriving => f \in strayed)

\* An entry is removed once its archive is swept.
DeletedFirst(w) ==
  /\ worker[w].step = "deleteS3" => disk[worker[w].file] = "none"
  /\ worker[w].step \in {"reload", "remove"} => Swept(worker[w].file)

Accounted(f) == f \in ToSet(Listed) \cup Purging \/ Swept(f) \/ OutOfRoom(f)

OrphanInv ==
  kept /\ faults = 0 => (\A f \in saved : Accounted(f)) /\ \A w \in Workers : DeletedFirst(w)

LEMMA OrphanInvHelps ==
  ASSUME OrphanInv
  PROVE  OnlyFaultsOrphan
<1> SUFFICES ASSUME kept, faults = 0, NEW f \in saved \ (ToSet(Listed) \cup AtHand)
             PROVE  Gone(f) \/ OutOfRoom(f)
  BY DEF OnlyFaultsOrphan
<1>1. f \notin Purging
  BY DEF AtHand, Purging
<1>2. Swept(f) \/ OutOfRoom(f)
  BY <1>1 DEF OrphanInv, Accounted
<1> QED
  BY <1>2 DEF Swept, Gone

LEMMA OutOfRoomStays ==
  ASSUME BackupInv, BackupInv', saved \subseteq saved', NEW f, OutOfRoom(f)
  PROVE  OutOfRoom(f)'
<1>1. PICK before, after : before = {g \in saved : g > f} /\ after = {g \in saved' : g > f}
  OBVIOUS
<1>2. before \subseteq after /\ after \subseteq Files
  <2>1. saved' \subseteq 1..made' /\ made' \in 0..MaxBackups
    BY DEF BackupInv, BackupTypes
  <2>2. saved' \subseteq Files
    BY <2>1, BackupsAssumption DEF Files
  <2> QED
    BY <1>1, <2>2, Zenon
<1>3. Cardinality(before) <= Cardinality(after) /\ Cardinality(before) \in Nat /\ Cardinality(after) \in Nat
  BY <1>2, FilesAreCounted
<1>4. Cardinality(before) + Cardinality(Workers) > Cap
  BY <1>1 DEF OutOfRoom
<1>5. Cardinality(Workers) \in Nat
  BY WorkersCount
<1>6. Cardinality(after) + Cardinality(Workers) > Cap
  BY <1>3, <1>4, <1>5, BackupsAssumption
<1> QED
  BY <1>1, <1>6 DEF OutOfRoom

-----------------------------------------------------------------------------
(* What is swept stays so.                                                 *)

SweptStay ==
  /\ \A f \in saved : disk[f] = "none" =>
       disk'[f] = "none" /\ (f \in s3' \cup Arriving' => f \in s3 \cup Arriving)
  /\ strayed \subseteq strayed'

LEMMA ArrivingStays ==
  ASSUME NEW w \in Workers, NEW files,
         \A v \in Workers \ {w} : worker'[v] = worker[v],
         worker'[w].step = "put" => worker'[w].file \in files
  PROVE  Arriving' \subseteq Arriving \cup files
  BY DEF Arriving

\* A step that opens nothing and puts nothing.
LEMMA OthersSweep ==
  ASSUME NEW w \in Workers, \A v \in Workers \ {w} : worker'[v] = worker[v],
         worker'[w].step # "put", s3' \subseteq s3, strayed \subseteq strayed',
         \A f \in saved : disk'[f] = disk[f] \/ disk'[f] = "none"
  PROVE  SweptStay
<1>1. PICK none : none = {}
  OBVIOUS
<1>2. Arriving' \subseteq Arriving \cup none
  BY ArrivingStays
<1> QED
  BY <1>1, <1>2 DEF SweptStay

LEMMA DumpSweeps ==
  ASSUME BackupInv, NEW w \in Workers, Dump(w)
  PROVE  SweptStay
<1>1. UNCHANGED <<s3, saved, strayed>> /\ worker[w].step = "idle"
  BY DEF Dump
<1>2. \A f \in saved : disk'[f] = disk[f]
  <2>1. \E there \in {"whole", "partial"} : disk' = [disk EXCEPT ![made + 1] = there]
    BY DEF Dump
  <2>2. made + 1 \notin saved /\ saved \subseteq Files
    BY SavedFits DEF BackupInv, BackupTypes
  <2> QED
    BY <2>1, <2>2 DEF BackupInv, BackupTypes
<1>3. CASE UNCHANGED worker
  BY <1>1, <1>2, <1>3, OthersSweep
<1>4. ASSUME worker' = [worker EXCEPT ![w] = [Idle EXCEPT !.step = "load", !.file = made + 1]]
      PROVE  SweptStay
  <2>1. PICK r : r = [Idle EXCEPT !.step = "load", !.file = made + 1]
    OBVIOUS
  <2>2. r.step = "load"
    BY <2>1 DEF Idle
  <2>3. worker'[w] = r /\ \A v \in Workers \ {w} : worker'[v] = worker[v]
    BY <1>4, <2>1 DEF BackupInv, BackupTypes
  <2> QED
    BY <1>1, <1>2, <2>2, <2>3, OthersSweep
<1> QED
  BY <1>3, <1>4 DEF Dump

LEMMA LoadForSaveSweeps ==
  ASSUME BackupInv, NEW w \in Workers, LoadForSave(w)
  PROVE  /\ SweptStay /\ worker'[w].step = "save" /\ worker'[w].purge = worker[w].purge
         /\ \A v \in Workers \ {w} : worker'[v] = worker[v]
<1>1. UNCHANGED <<disk, s3, strayed>>
  BY DEF LoadForSave
<1>2. PICK list : list = Newest(Cap, <<worker[w].file>> \o Listed)
  OBVIOUS
<1>3. PICK r : r = [worker[w] EXCEPT !.step = "save", !.list = list]
  OBVIOUS
<1>4. r.step = "save" /\ r.purge = worker[w].purge
  BY <1>3 DEF BackupInv, BackupTypes, WorkerStates
<1>5. worker' = [worker EXCEPT ![w] = r]
  BY <1>2, <1>3 DEF LoadForSave
<1>6. worker'[w] = r /\ \A v \in Workers \ {w} : worker'[v] = worker[v]
  BY <1>5 DEF BackupInv, BackupTypes
<1> QED
  BY <1>1, <1>4, <1>6, OthersSweep

LEMMA IdlesAlone ==
  ASSUME BackupInv, NEW w \in Workers, worker' = [worker EXCEPT ![w] = Idle]
  PROVE  /\ worker'[w].step = "idle" /\ worker'[w].purge = {}
         /\ \A v \in Workers \ {w} : worker'[v] = worker[v]
  BY DEF BackupInv, BackupTypes, Idle

LEMMA UploadSweeps ==
  ASSUME BackupInv, NEW w \in Workers, Upload(w)
  PROVE  /\ SweptStay /\ worker'[w].step \in {"put", "idle"} /\ worker'[w].purge = worker[w].purge
         /\ \A v \in Workers \ {w} : worker'[v] = worker[v]
<1>1. UNCHANGED <<disk, s3, strayed>> /\ worker[w].purge = {}
  BY DEF Upload, BackupInv, WorkerInv, Sweeping
<1>2. CASE disk[worker[w].file] = "whole"
  <2>1. /\ worker'[w].step = "put" /\ worker'[w].purge = worker[w].purge
        /\ worker'[w].file = worker[w].file /\ \A v \in Workers \ {w} : worker'[v] = worker[v]
    BY <1>2, WorkerSteps DEF Upload, BackupInv, Steps
  <2>2. PICK files : files = {worker[w].file}
    OBVIOUS
  <2>3. Arriving' \subseteq Arriving \cup files
    BY <2>1, <2>2, ArrivingStays
  <2> QED
    BY <1>1, <1>2, <2>1, <2>2, <2>3 DEF SweptStay
<1>3. CASE disk[worker[w].file] # "whole"
  <2>1. /\ worker'[w].step = "idle" /\ worker'[w].purge = {}
        /\ \A v \in Workers \ {w} : worker'[v] = worker[v]
    BY <1>3, IdlesAlone DEF Upload
  <2> QED
    BY <1>1, <2>1, OthersSweep
<1> QED
  BY <1>2, <1>3

LEMMA ArriveSweeps ==
  ASSUME BackupInv, NEW w \in Workers, Arrive(w)
  PROVE  /\ SweptStay /\ worker'[w].step \in {"plan", "idle"} /\ worker'[w].purge = worker[w].purge
         /\ \A v \in Workers \ {w} : worker'[v] = worker[v]
<1>1. /\ UNCHANGED <<disk, strayed>> /\ s3' = s3 \cup {worker[w].file}
      /\ worker[w].purge = {} /\ worker[w].step = "put"
  BY DEF Arrive, BackupInv, WorkerInv, Sweeping
<1>2. /\ worker'[w].step \in {"plan", "idle"} /\ worker'[w].purge = {}
      /\ \A v \in Workers \ {w} : worker'[v] = worker[v]
  <2>1. CASE Go(w, "plan")
    BY <1>1, <2>1, WorkerSteps DEF BackupInv, Steps
  <2>2. CASE worker' = [worker EXCEPT ![w] = Idle]
    BY <2>2, IdlesAlone
  <2> QED
    BY <2>1, <2>2 DEF Arrive
<1>3. worker[w].file \in Arriving
  BY <1>1 DEF Arriving
<1>4. PICK none : none = {}
  OBVIOUS
<1>5. Arriving' \subseteq Arriving \cup none
  BY <1>2, ArrivingStays
<1> QED
  BY <1>1, <1>2, <1>3, <1>4, <1>5 DEF SweptStay

LEMMA UnlinkSweeps ==
  ASSUME BackupInv, NEW w \in Workers, Unlink(w)
  PROVE  SweptStay
<1>1. UNCHANGED <<s3, strayed>>
  BY DEF Unlink
<1>2. PICK x \in worker[w].purge : disk' \in {disk, [disk EXCEPT ![x] = "none"]}
  BY UnlinkKeeps
<1>3. saved \subseteq Files /\ disk \in [Files -> {"none", "partial", "whole"}]
  BY SavedFits DEF BackupInv, BackupTypes
<1>4. \A f \in saved : disk'[f] = disk[f] \/ disk'[f] = "none"
  BY <1>2, <1>3
<1> QED
  BY <1>1, <1>4, UnlinkKeeps, OthersSweep

LEMMA DeleteSweeps ==
  ASSUME BackupInv, NEW w \in Workers, DeleteFromS3(w)
  PROVE  /\ SweptStay /\ worker'[w].step = "reload" /\ worker'[w].purge = worker[w].purge
         /\ worker'[w].file = worker[w].file
         /\ \A v \in Workers \ {w} : worker'[v] = worker[v]
         /\ Arriving' \subseteq Arriving
<1>1. UNCHANGED disk /\ s3' \subseteq s3 /\ strayed \subseteq strayed' /\ Go(w, "reload")
  BY DEF DeleteFromS3
<1>2. /\ worker'[w].step = "reload" /\ worker'[w].purge = worker[w].purge
      /\ worker'[w].file = worker[w].file /\ \A v \in Workers \ {w} : worker'[v] = worker[v]
  BY <1>1, WorkerSteps DEF BackupInv, Steps
<1>3. PICK none : none = {}
  OBVIOUS
<1>4. Arriving' \subseteq Arriving \cup none
  BY <1>2, ArrivingStays
<1> QED
  BY <1>1, <1>2, <1>3, <1>4, OthersSweep

LEMMA SweptStays ==
  ASSUME BackupInv, [Next]_vars
  PROVE  SweptStay
<1>1. CASE UNCHANGED vars
  BY <1>1 DEF SweptStay, Arriving, vars
<1>2. ASSUME NEW w \in Workers,
             Dump(w) \/ LoadForSave(w) \/ Upload(w) \/ Arrive(w) \/ Unlink(w) \/ DeleteFromS3(w)
      PROVE  SweptStay
  BY <1>2, DumpSweeps, LoadForSaveSweeps, UploadSweeps, ArriveSweeps, UnlinkSweeps, DeleteSweeps
<1>3. ASSUME NEW w \in Workers, Save(w)  PROVE SweptStay
  <2>1. PICK h : h = worker[w].file
    OBVIOUS
  <2>2. UNCHANGED <<disk, s3, strayed>> /\ worker'[w].step = "upload"
    BY <1>3, <2>1, SaveGoesOn DEF Save
  <2> QED
    BY <1>3, <2>1, <2>2, SaveGoesOn, OthersSweep
<1>4. ASSUME NEW w \in Workers, Plan(w)  PROVE SweptStay
  <2>1. UNCHANGED <<disk, s3, strayed>>
    BY <1>4 DEF Plan
  <2> QED
    BY <1>4, <2>1, PlanKeeps, OthersSweep
<1>5. ASSUME NEW w \in Workers, LoadForRemove(w)  PROVE SweptStay
  <2>1. UNCHANGED <<disk, s3, strayed>>
    BY <1>5 DEF LoadForRemove
  <2> QED
    BY <1>5, <2>1, LoadForRemoveKeeps, OthersSweep
<1>6. ASSUME NEW w \in Workers, RemoveEntry(w)  PROVE SweptStay
  <2>1. UNCHANGED <<disk, s3, strayed>>
    BY <1>6 DEF RemoveEntry
  <2> QED
    BY <1>6, <2>1, RemoveEntryKeeps, OthersSweep
<1>7. ASSUME NEW w \in Workers, Fail(w)  PROVE SweptStay
  <2>1. UNCHANGED <<disk, s3, strayed>> /\ worker' = [worker EXCEPT ![w] = Idle]
    BY <1>7 DEF Fail
  <2> QED
    BY <2>1, IdlesAlone, OthersSweep
<1>8. CASE ListExpires
  BY <1>8 DEF ListExpires, SweptStay, Arriving
<1> QED
  BY <1>1, <1>2, <1>3, <1>4, <1>5, <1>6, <1>7, <1>8 DEF Next

-----------------------------------------------------------------------------
(* Every step keeps the account.                                           *)

LEMMA FaultsStay ==
  ASSUME BackupInv, [Next]_vars, faults' = 0
  PROVE  faults = 0
<1>1. faults \in Nat
  BY DEF BackupInv, BackupTypes
<1>2. ASSUME NEW list, Persist(list)  PROVE faults' \in {faults, faults + 1}
  BY <1>2 DEF Persist
<1>3. faults' \in {faults, faults + 1}
  <2>1. CASE UNCHANGED vars
    BY <2>1 DEF vars
  <2>2. ASSUME NEW w \in Workers, Save(w) \/ RemoveEntry(w)  PROVE faults' \in {faults, faults + 1}
    BY <1>2, <2>2 DEF Save, RemoveEntry
  <2>3. CASE Next /\ ~(\E w \in Workers : Save(w) \/ RemoveEntry(w))
    BY <2>3 DEF Next, Dump, LoadForSave, Upload, Arrive, Plan, Unlink, DeleteFromS3, LoadForRemove,
       Fail, ListExpires
  <2> QED
    BY <2>1, <2>2, <2>3
<1> QED
  BY <1>1, <1>3

\* It is enough to follow who moves and what leaves the list and the plans.
LEMMA AccountStays ==
  ASSUME BackupInv, BackupInv', OrphanInv, SweptStay, faults' = 0 => faults = 0,
         NEW w \in Workers, \A v \in Workers \ {w} : worker'[v] = worker[v],
         kept' => kept, saved \subseteq saved',
         kept' /\ faults' = 0 =>
           /\ DeletedFirst(w)'
           /\ \A f \in ToSet(Listed) \cup Purging :
                f \in ToSet(Listed') \cup Purging' \/ Swept(f)' \/ OutOfRoom(f)'
           /\ \A f \in saved' \ saved : f \in ToSet(Listed')
  PROVE  OrphanInv'
<1> SUFFICES ASSUME kept', faults' = 0
             PROVE  (\A f \in saved' : Accounted(f)') /\ \A v \in Workers : DeletedFirst(v)'
  BY DEF OrphanInv
<1>1. (\A f \in saved : Accounted(f)) /\ \A v \in Workers : DeletedFirst(v)
  BY DEF OrphanInv
<1>2. \A f \in saved : Swept(f) => Swept(f)'
  BY DEF SweptStay, Swept
<1>3. ASSUME NEW f \in saved'  PROVE Accounted(f)'
  <2>1. CASE f \notin saved
    BY <1>3, <2>1 DEF Accounted
  <2>2. CASE f \in ToSet(Listed) \cup Purging
    BY <2>2 DEF Accounted
  <2>3. CASE f \in saved /\ (Swept(f) \/ OutOfRoom(f))
    BY <1>2, <2>3, OutOfRoomStays DEF Accounted
  <2> QED
    BY <1>1, <2>1, <2>2, <2>3 DEF Accounted
<1>4. ASSUME NEW v \in Workers \ {w}  PROVE DeletedFirst(v)'
  <2>1. worker'[v] = worker[v] /\ DeletedFirst(v)
    BY <1>1
  <2>2. worker[v].step \in {"deleteS3", "reload", "remove"} => worker[v].file \in saved
    BY DEF BackupInv, WorkerInv
  <2>3. worker[v].step = "deleteS3" => disk'[worker[v].file] = "none"
    BY <2>1, <2>2 DEF DeletedFirst, SweptStay
  <2>4. worker[v].step \in {"reload", "remove"} => Swept(worker[v].file)'
    BY <1>2, <2>1, <2>2 DEF DeletedFirst
  <2> QED
    BY <2>1, <2>3, <2>4 DEF DeletedFirst
<1> QED
  BY <1>3, <1>4

\* A step that writes no list, and gives up no plan.
LEMMA QuietAccount ==
  ASSUME BackupInv, BackupInv', OrphanInv, [Next]_vars, ListStays,
         NEW w \in Workers, \A v \in Workers \ {w} : worker'[v] = worker[v],
         worker[w].purge \subseteq worker'[w].purge,
         kept' /\ faults' = 0 => DeletedFirst(w)'
  PROVE  OrphanInv'
<1>1. SweptStay /\ (faults' = 0 => faults = 0)
  BY SweptStays, FaultsStay
<1>2. saved' = saved /\ (kept' => kept /\ Listed' = Listed)
  BY DEF ListStays
<1>3. Purging \subseteq Purging'
  BY DEF Purging
<1> QED
  BY <1>1, <1>2, <1>3, AccountStays

LEMMA BackupStepsAccount ==
  ASSUME BackupInv, BackupInv', OrphanInv, [Next]_vars, NEW w \in Workers,
         Dump(w) \/ LoadForSave(w) \/ Upload(w) \/ Arrive(w) \/ Plan(w)
  PROVE  OrphanInv'
<1>1. ListStays
  BY QuietStepsLeaveTheList
<1>2. worker[w].step \notin Sweeping
  BY DEF Dump, LoadForSave, Upload, Arrive, Plan, Sweeping
<1>3. worker[w].purge = {}
  BY <1>2 DEF BackupInv, WorkerInv
<1>4. \A v \in Workers \ {w} : worker'[v] = worker[v]
  <2>1. CASE Dump(w)
    BY <2>1 DEF Dump, BackupInv, BackupTypes
  <2> QED
    BY <2>1, LoadForSaveSweeps, UploadSweeps, ArriveSweeps, PlanKeeps
<1>5. worker'[w].step \notin {"deleteS3", "reload", "remove"}
  <2>1. CASE Dump(w)
    <3>1. CASE UNCHANGED worker
      BY <1>2, <3>1 DEF Sweeping
    <3>2. ASSUME worker' = [worker EXCEPT ![w] = [Idle EXCEPT !.step = "load", !.file = made + 1]]
          PROVE  worker'[w].step \notin {"deleteS3", "reload", "remove"}
      <4>1. PICK r : r = [Idle EXCEPT !.step = "load", !.file = made + 1]
        OBVIOUS
      <4>2. r.step = "load" /\ worker'[w] = r
        BY <3>2, <4>1 DEF Idle, BackupInv, BackupTypes
      <4> QED
        BY <4>2
    <3> QED
      BY <2>1, <3>1, <3>2 DEF Dump
  <2> QED
    BY <2>1, LoadForSaveSweeps, UploadSweeps, ArriveSweeps, PlanKeeps
<1>6. DeletedFirst(w)'
  BY <1>5 DEF DeletedFirst
<1> QED
  BY <1>1, <1>3, <1>4, <1>6, QuietAccount

LEMMA SweepStepsAccount ==
  ASSUME BackupInv, BackupInv', OrphanInv, [Next]_vars, NEW w \in Workers,
         Unlink(w) \/ DeleteFromS3(w) \/ LoadForRemove(w)
  PROVE  OrphanInv'
<1>1. ListStays /\ SweptStay /\ (faults' = 0 => faults = 0)
  BY QuietStepsLeaveTheList, SweptStays, FaultsStay
<1>2. worker'[w].purge = worker[w].purge /\ \A v \in Workers \ {w} : worker'[v] = worker[v]
  BY UnlinkKeeps, DeleteSweeps, LoadForRemoveKeeps
<1>3. kept' => kept
  BY <1>1 DEF ListStays
<1>4. ASSUME kept', faults' = 0  PROVE DeletedFirst(w)'
  <2>1. DeletedFirst(w) /\ faults = 0
    BY <1>1, <1>3, <1>4 DEF OrphanInv
  <2>2. CASE Unlink(w)
    <3>1. /\ worker'[w].step = "deleteS3" /\ worker'[w].file \in worker[w].purge
          /\ disk' = [disk EXCEPT ![worker'[w].file] = "none"]
      BY <1>4, <2>1, <2>2, UnlinkKeeps
    <3>2. worker'[w].file \in Files /\ disk \in [Files -> {"none", "partial", "whole"}]
      BY <3>1, SavedFits DEF BackupInv, BackupTypes, WorkerInv
    <3> QED
      BY <3>1, <3>2 DEF DeletedFirst
  <2>3. CASE DeleteFromS3(w)
    <3>1. PICK x : x = worker[w].file
      OBVIOUS
    <3>2. /\ s3' = s3 \ {x} /\ disk' = disk /\ strayed' = strayed \cup (Arriving \cap {x})
          /\ worker[w].step = "deleteS3"
      <4>1. faults' # faults + 1
        BY <1>4, <2>1
      <4> QED
        BY <2>3, <3>1, <4>1 DEF DeleteFromS3
    <3>3. worker'[w].step = "reload" /\ worker'[w].file = x /\ Arriving' \subseteq Arriving
      BY <2>3, <3>1, DeleteSweeps
    <3>4. disk[x] = "none"
      BY <2>1, <3>1, <3>2 DEF DeletedFirst
    <3>5. Swept(x)'
      BY <3>2, <3>3, <3>4 DEF Swept
    <3> QED
      BY <3>3, <3>5 DEF DeletedFirst
  <2>4. CASE LoadForRemove(w)
    <3>1. PICK x : x = worker[w].file
      OBVIOUS
    <3>2. worker[w].step = "reload"
      BY <2>4 DEF LoadForRemove
    <3>3. Swept(x) /\ x \in saved
      BY <2>1, <3>1, <3>2 DEF DeletedFirst, BackupInv, WorkerInv
    <3>4. Swept(x)'
      BY <1>1, <3>3 DEF SweptStay, Swept
    <3>5. worker'[w].step = "remove" /\ worker'[w].file = x
      BY <2>4, <3>1, LoadForRemoveKeeps
    <3> QED
      BY <3>4, <3>5 DEF DeletedFirst
  <2> QED
    BY <2>2, <2>3, <2>4
<1> QED
  BY <1>1, <1>2, <1>4, QuietAccount

LEMMA SaveAccounts ==
  ASSUME BackupInv, BackupInv', OrphanInv, LateInv, [Next]_vars, NEW w \in Workers, Save(w)
  PROVE  OrphanInv'
<1>1. PICK h : h = worker[w].file
  OBVIOUS
<1>2. /\ saved' = saved \cup {h} /\ worker[w].purge = {}
      /\ worker'[w].step = "upload" /\ worker'[w].purge = {}
      /\ \A v \in Workers \ {w} : worker'[v] = worker[v]
  BY <1>1, SaveGoesOn
<1>3. SweptStay /\ (faults' = 0 => faults = 0)
  BY SweptStays, FaultsStay
<1>4. kept' => kept /\ h \in ToSet(Listed')
  BY <1>1, SaveLeaves
<1>5. \A f \in Purging : f \in Purging'
  BY <1>2 DEF Purging
<1>6. kept' => \A f \in ToSet(Listed) : f \in ToSet(Listed') \/ OutOfRoom(f)'
  BY CutIsOutOfRoom
<1>7. DeletedFirst(w)'
  BY <1>2 DEF DeletedFirst
<1> QED
  BY <1>2, <1>3, <1>4, <1>5, <1>6, <1>7, AccountStays

LEMMA RemoveAccounts ==
  ASSUME BackupInv, BackupInv', OrphanInv, [Next]_vars, NEW w \in Workers, RemoveEntry(w)
  PROVE  OrphanInv'
<1>1. PICK x : x = worker[w].file
  OBVIOUS
<1>2. /\ saved' = saved /\ worker[w].step = "remove" /\ x \in worker[w].purge
      /\ kept' => kept /\ ToSet(Listed') = ToSet(Listed) \ {x}
  BY <1>1, RemoveLeaves
<1>3. /\ worker'[w].purge = worker[w].purge \ {x} /\ worker'[w].step \in {"idle", "unlink"}
      /\ \A v \in Workers \ {w} : worker'[v] = worker[v]
  BY <1>1, RemoveEntryKeeps
<1>4. SweptStay /\ (faults' = 0 => faults = 0)
  BY SweptStays, FaultsStay
<1>5. \A f \in Purging \ {x} : f \in Purging'
  BY <1>3 DEF Purging
<1>6. kept' /\ faults' = 0 => Swept(x)'
  <2>1. HAVE kept' /\ faults' = 0
  <2>2. Swept(x)
    BY <1>1, <1>2, <1>4, <2>1 DEF OrphanInv, DeletedFirst
  <2>3. x \in saved
    BY <1>2 DEF BackupInv, WorkerInv
  <2> QED
    BY <1>4, <2>2, <2>3 DEF SweptStay, Swept
<1>7. DeletedFirst(w)'
  BY <1>3 DEF DeletedFirst
<1> QED
  BY <1>2, <1>3, <1>4, <1>5, <1>6, <1>7, AccountStays

LEMMA OrphanInvInit == Init => OrphanInv
<1> SUFFICES ASSUME Init PROVE OrphanInv
  OBVIOUS
<1>1. saved = {}
  BY DEF Init
<1>2. \A w \in Workers : worker[w].step = "idle"
  BY DEF Init, Idle
<1> QED
  BY <1>1, <1>2 DEF OrphanInv, DeletedFirst

LEMMA OrphanInvKept ==
  ASSUME BackupInv, BackupInv', OrphanInv, LateInv, [Next]_vars
  PROVE  OrphanInv'
<1>1. CASE UNCHANGED vars
  BY <1>1 DEF OrphanInv, Accounted, OutOfRoom, Listed, Purging, Swept, Arriving, DeletedFirst, vars
<1>2. ASSUME NEW w \in Workers,
             \/ Dump(w) \/ LoadForSave(w) \/ Save(w) \/ Upload(w) \/ Arrive(w) \/ Plan(w) \/ Unlink(w)
             \/ DeleteFromS3(w) \/ LoadForRemove(w) \/ RemoveEntry(w)
      PROVE  OrphanInv'
  BY <1>2, BackupStepsAccount, SweepStepsAccount, SaveAccounts, RemoveAccounts
<1>3. ASSUME NEW w \in Workers, Fail(w)  PROVE OrphanInv'
  <2>1. faults' # 0
    BY <1>3 DEF Fail, BackupInv, BackupTypes
  <2> QED
    BY <2>1 DEF OrphanInv
<1>4. CASE ListExpires
  <2>1. UNCHANGED <<made, disk, s3, sidecar, worker, saved, faults, kept, strayed>>
    BY <1>4 DEF ListExpires
  <2>2. kept => Listed' = Listed
    BY <1>4, ListExpiresKeeps
  <2> QED
    BY <2>1, <2>2 DEF OrphanInv, Accounted, OutOfRoom, Purging, Swept, Arriving, DeletedFirst
<1> QED
  BY <1>1, <1>2, <1>3, <1>4 DEF Next

\* Without failures, and as long as writes of the list do not cross, a backup that was saved
\* and is not listed any more is deleted, but in S3 when a sweep fell into its upload, or
\* almost as many newer ones were saved as the list may have: for any workers, cap and
\* keepLast, whether or not sweeps follow the backups (deleteBackup, #uploadToS3, and the cut
\* of #saveMetadata).
THEOREM NothingIsOrphaned == Spec => []OnlyFaultsOrphan
<1>1. Init => BackupInv /\ LateInv /\ OrphanInv
  BY BackupInvInit, RecentInvInit, OrphanInvInit
<1>2. BackupInv /\ LateInv /\ OrphanInv /\ [Next]_vars => (BackupInv /\ LateInv /\ OrphanInv)'
  BY BackupInvKept, LateInvKept, OrphanInvKept
<1>3. OrphanInv => OnlyFaultsOrphan
  BY OrphanInvHelps
<1> QED
  BY <1>1, <1>2, <1>3, PTL DEF Spec

-----------------------------------------------------------------------------
(***************************************************************************)
(* The import of a dump, of any length and any lines.                      *)
(***************************************************************************)

ImportSteps == {"start", "split", "refused", "run", "threw", "done"}

ImportModes == {"none", "dry-run", "transactional", "psql"}

ImportRecords ==
  [step : ImportSteps, mode : ImportModes, next : Nat, executed : Nat, skipped : Nat, errors : Nat]

ImportTypes ==
  /\ dump \in Seq(Lines)
  /\ split \in [line : 1..(Len(dump) + 1), open : BOOLEAN, tokens : Seq(1..Len(dump))]
  /\ import \in ImportRecords
  /\ searchPath \in {"tenant", "other"}

\* The lines up to the splitter's that start a token.
StartLines == {n \in 1..(split.line - 1) : dump[n] # "end" /\ ~InBlock(n)}

\* The splitter is in a block when the line it is at is, and has the tokens of the lines
\* before that one, each once.
CutInv ==
  /\ split.open <=> InBlock(split.line)
  /\ {Tokens[i] : i \in 1..Len(Tokens)} = StartLines
  /\ \A i, j \in 1..Len(Tokens) : Tokens[i] = Tokens[j] => i = j

\* The lines of some kinds of the first tokens.
RanTo(n, kinds) == {Tokens[i] : i \in {k \in 1..(n - 1) : Kind(k) \in kinds}}

\* What a transactional import comes to, in its transaction or committed.
TransactionInv(effect) ==
  /\ import.next \in 1..(Len(Tokens) + 1)
  /\ LinesOf({"copy"}) = {}
  /\ effect = RanTo(import.next, {"good"})
  /\ import.executed = Cardinality(RanTo(import.next, {"good", "commented"}))
  /\ import.executed + import.skipped + import.errors = import.next - 1

PsqlInv ==
  /\ import.next \in 1..(Len(Tokens) + 1)
  /\ applied = RanTo(import.next, {"good", "copy"})

\* What each step has left.
StepInv ==
  /\ import.step \in {"start", "split"} => /\ import = [Result0 EXCEPT !.step = import.step]
                                           /\ applied = {} /\ pending = {} /\ searchPath = "tenant"
  /\ import.step \in {"run", "done"} => split.line = Len(dump) + 1 /\ import.mode # "none"
  /\ import.step = "run" => import.mode # "dry-run"
  /\ Running("transactional") => applied = {} /\ TransactionInv(pending)
  /\ import.mode = "transactional" /\ import.step = "done" =>
       TransactionInv(applied) /\ import.next = Len(Tokens) + 1
  /\ import.mode = "psql" /\ import.step \in {"run", "done"} => PsqlInv
  /\ import.mode = "psql" /\ import.step = "done" => import.next = Len(Tokens) + 1

ImportInv == ImportTypes /\ CutInv /\ StepInv /\ ThrowsAndLeavesNothing /\ KeepsSearchPath

\* A block goes on unless its line ends it, and one begins with its header.
LEMMA BlocksGoOn ==
  ASSUME dump \in Seq(Lines), NEW n \in 1..Len(dump)
  PROVE  InBlock(n + 1) <=> IF InBlock(n) THEN dump[n] # "end" ELSE dump[n] = "copy"
<1>1. ASSUME InBlock(n + 1)  PROVE IF InBlock(n) THEN dump[n] # "end" ELSE dump[n] = "copy"
  <2>1. PICK h \in 1..n : dump[h] = "copy" /\ \A m \in (h + 1)..n : dump[m] # "end"
    BY <1>1 DEF InBlock
  <2>2. CASE h = n
    BY <2>1, <2>2
  <2>3. CASE h # n
    BY <2>1, <2>3 DEF InBlock
  <2> QED
    BY <2>2, <2>3
<1>2. ASSUME InBlock(n), dump[n] # "end"  PROVE InBlock(n + 1)
  <2>1. PICK h \in 1..(n - 1) : dump[h] = "copy" /\ \A m \in (h + 1)..(n - 1) : dump[m] # "end"
    BY <1>2 DEF InBlock
  <2> QED
    BY <1>2, <2>1 DEF InBlock
<1>3. ASSUME dump[n] = "copy"  PROVE InBlock(n + 1)
  BY <1>3 DEF InBlock
<1> QED
  BY <1>1, <1>2, <1>3

\* A dump whose tokens are no blocks has no header: the first one would start a token.
LEMMA NoBlocks ==
  ASSUME ImportTypes, CutInv, split.line = Len(dump) + 1, Count({"copy"}) = 0
  PROVE  LinesOf({"copy"}) = {}
<1> DEFINE headers == LinesOf({"copy"})
<1>1. SUFFICES ASSUME headers # {}  PROVE FALSE
  OBVIOUS
<1>2. headers \subseteq Nat /\ Len(dump) \in Nat
  BY DEF LinesOf, ImportTypes
<1>3. PICK n \in headers : \A m \in headers : ~(<<m, n>> \in OpToRel(<, Nat))
  BY <1>1, <1>2, NatLessThanWellFounded, WFMin
<1>4. \A m \in headers : ~(m < n)
  BY <1>2, <1>3 DEF OpToRel
<1>5. n \in 1..Len(dump) /\ dump[n] = "copy"
  BY DEF LinesOf
<1>6. ~InBlock(n)
  BY <1>2, <1>4, <1>5 DEF InBlock, LinesOf
<1>7. n \in StartLines
  BY <1>2, <1>5, <1>6 DEF StartLines
<1>8. PICK i \in 1..Len(Tokens) : Tokens[i] = n
  BY <1>7 DEF CutInv
<1> DEFINE blocks == {k \in 1..Len(Tokens) : Kind(k) \in {"copy"}}
<1>9. i \in blocks
  BY <1>5, <1>8 DEF Kind
<1>10. Len(Tokens) \in Nat
  BY DEF ImportTypes, Tokens
<1>11. IsFiniteSet(blocks)
  <2>1. IsFiniteSet(1..Len(Tokens)) /\ blocks \subseteq 1..Len(Tokens)
    BY <1>10, FS_Interval
  <2> HIDE DEF blocks
  <2> QED
    BY <2>1, FS_Subset
<1> QED
  BY <1>9, <1>11, FS_EmptySet DEF Count

\* The lines of one token more.
LEMMA RunsOn ==
  ASSUME ImportTypes, CutInv, NEW n \in 1..Len(Tokens), NEW kinds
  PROVE  /\ RanTo(n + 1, kinds) = IF Kind(n) \in kinds THEN RanTo(n, kinds) \cup {Tokens[n]} ELSE RanTo(n, kinds)
         /\ Tokens[n] \notin RanTo(n, kinds)
         /\ IsFiniteSet(RanTo(n, kinds)) /\ Cardinality(RanTo(n, kinds)) \in Nat
<1>1. Len(Tokens) \in Nat /\ \A i \in 1..Len(Tokens) : Tokens[i] \in 1..Len(dump)
  BY DEF ImportTypes, Tokens
<1>2. {k \in 1..(n + 1 - 1) : Kind(k) \in kinds} =
        {k \in 1..(n - 1) : Kind(k) \in kinds} \cup (IF Kind(n) \in kinds THEN {n} ELSE {})
  BY <1>1
<1>3. Tokens[n] \notin RanTo(n, kinds)
  BY <1>1 DEF RanTo, CutInv
<1>4. RanTo(n, kinds) \subseteq 1..Len(dump)
  BY <1>1 DEF RanTo
<1>5. Len(dump) \in Nat
  BY DEF ImportTypes
<1>6. IsFiniteSet(RanTo(n, kinds))
  <2>1. IsFiniteSet(1..Len(dump))
    BY <1>5, FS_Interval
  <2> QED
    BY <1>4, <2>1, FS_Subset
<1>7. RanTo(n + 1, kinds) = IF Kind(n) \in kinds THEN RanTo(n, kinds) \cup {Tokens[n]} ELSE RanTo(n, kinds)
  BY <1>2 DEF RanTo
<1> QED
  BY <1>3, <1>6, <1>7, FS_CardinalityType

\* The kind of a token.
LEMMA KindsOfTokens ==
  ASSUME ImportTypes, CutInv, NEW i \in 1..Len(Tokens)
  PROVE  /\ Kind(i) \in Lines \ {"end"} /\ Tokens[i] \in 1..Len(dump)
         /\ LinesOf({"copy"}) = {} => Kind(i) # "copy"
         /\ LinesOf({"commit"}) = {} => Kind(i) # "commit"
         /\ LinesOf({"commented"}) = {} => Kind(i) # "commented"
<1>1. Tokens[i] \in StartLines /\ Tokens[i] \in 1..Len(dump)
  BY DEF ImportTypes, CutInv, Tokens
<1>2. dump[Tokens[i]] \in Lines
  BY <1>1 DEF ImportTypes
<1> QED
  BY <1>1, <1>2 DEF Kind, StartLines, LinesOf

\* What the lines of all tokens are.
LEMMA AllRan ==
  ASSUME ImportTypes, CutInv, split.line = Len(dump) + 1, NEW kinds, "end" \notin kinds
  PROVE  RanTo(Len(Tokens) + 1, kinds) = {n \in LinesOf(kinds) : ~InBlock(n)}
<1>1. Len(Tokens) \in Nat /\ Len(dump) \in Nat /\ \A i \in 1..Len(Tokens) : Tokens[i] \in 1..Len(dump)
  BY DEF ImportTypes, Tokens
<1>2. RanTo(Len(Tokens) + 1, kinds) = {n \in {Tokens[i] : i \in 1..Len(Tokens)} : dump[n] \in kinds}
  BY <1>1 DEF RanTo, Kind
<1>3. RanTo(Len(Tokens) + 1, kinds) = {n \in StartLines : dump[n] \in kinds}
  BY <1>2 DEF CutInv
<1> QED
  BY <1>1, <1>3 DEF StartLines, LinesOf
-----------------------------------------------------------------------------
(* The steps.                                                              *)

\* A record with another step.
LEMMA StepChanges ==
  ASSUME NEW r \in ImportRecords, NEW step \in ImportSteps, NEW s, s = [r EXCEPT !.step = step]
  PROVE  /\ s \in ImportRecords /\ s.step = step /\ s.mode = r.mode /\ s.next = r.next
         /\ s.executed = r.executed /\ s.skipped = r.skipped /\ s.errors = r.errors
  BY DEF ImportRecords

LEMMA CountsAreNat ==
  ASSUME ImportTypes, NEW kinds  PROVE Count(kinds) \in Nat
<1> DEFINE counted == {i \in 1..Len(Tokens) : Kind(i) \in kinds}
<1>1. Len(Tokens) \in Nat
  BY DEF ImportTypes, Tokens
<1>2. IsFiniteSet(1..Len(Tokens)) /\ counted \subseteq 1..Len(Tokens)
  BY <1>1, FS_Interval
<1> HIDE DEF counted
<1>3. Cardinality(counted) \in Nat
  BY <1>2, FS_Subset, FS_CardinalityType
<1> QED
  BY <1>3 DEF Count, counted

\* A step that leaves the dump, its tokens and where the import stands among them.
LEMMA SameTokens ==
  ASSUME UNCHANGED <<dump, split>>
  PROVE  /\ Tokens' = Tokens /\ (CutInv <=> CutInv')
         /\ \A n, kinds : RanTo(n, kinds)' = RanTo(n, kinds)
         /\ \A kinds : LinesOf(kinds)' = LinesOf(kinds)
  BY DEF Tokens, CutInv, StartLines, InBlock, RanTo, Kind, LinesOf

LEMMA LineIsCut ==
  ASSUME ImportInv, CutLine  PROVE ImportInv'
<1>1. /\ split.line \in 1..Len(dump) /\ dump[split.line] \in Lines
      /\ Len(dump) \in Nat /\ Len(Tokens) \in Nat /\ Tokens \in Seq(1..Len(dump))
  BY DEF ImportInv, ImportTypes, CutLine, Tokens
<1>2. UNCHANGED <<dump, import, pending, applied, searchPath>> /\ import.step = "split"
  BY DEF CutLine
<1>3. \A n : InBlock(n)' <=> InBlock(n)
  BY <1>2 DEF InBlock
<1> DEFINE line == dump[split.line]
<1>4. /\ split'.line = split.line + 1
      /\ split'.open <=> IF split.open THEN line # "end" ELSE line = "copy"
      /\ Tokens' = IF split.open \/ line = "end" THEN Tokens ELSE Append(Tokens, split.line)
  BY DEF CutLine, Tokens
<1>5. split'.open <=> InBlock(split.line)'
  <2>1. InBlock(split.line)' <=> InBlock(split.line + 1)
    BY <1>2, <1>4 DEF InBlock
  <2>2. dump \in Seq(Lines) /\ (split.open <=> InBlock(split.line))
    BY DEF ImportInv, ImportTypes, CutInv
  <2>3. InBlock(split.line + 1) <=> IF InBlock(split.line) THEN line # "end" ELSE line = "copy"
    BY <1>1, <2>2, BlocksGoOn
  <2> HIDE DEF line
  <2> QED
    BY <1>4, <2>1, <2>2, <2>3, Zenon
<1>6. StartLines' = IF split.open \/ line = "end" THEN StartLines ELSE StartLines \cup {split.line}
  <2>1. StartLines' = {n \in 1..split.line : dump[n] # "end" /\ ~InBlock(n)}
    BY <1>1, <1>2, <1>3, <1>4 DEF StartLines
  <2>2. 1..split.line = 1..(split.line - 1) \cup {split.line}
    BY <1>1
  <2>3. split.open <=> InBlock(split.line)
    BY DEF ImportInv, CutInv
  <2> QED
    BY <2>1, <2>2, <2>3 DEF StartLines
<1>7. /\ {Tokens'[i] : i \in 1..Len(Tokens')} = StartLines'
      /\ \A i, j \in 1..Len(Tokens') : Tokens'[i] = Tokens'[j] => i = j
  <2>1. CASE split.open \/ line = "end"
    BY <1>4, <1>6, <2>1 DEF ImportInv, CutInv
  <2>2. CASE ~(split.open \/ line = "end")
    <3>1. /\ Len(Tokens') = Len(Tokens) + 1 /\ Tokens'[Len(Tokens) + 1] = split.line
          /\ \A i \in 1..Len(Tokens) : Tokens'[i] = Tokens[i]
      BY <1>1, <1>4, <2>2
    <3>2. 1..Len(Tokens') = 1..Len(Tokens) \cup {Len(Tokens) + 1}
      BY <1>1, <3>1
    <3>3. {Tokens'[i] : i \in 1..Len(Tokens')} = {Tokens[i] : i \in 1..Len(Tokens)} \cup {split.line}
      BY <3>1, <3>2
    <3>4. \A i \in 1..Len(Tokens) : Tokens[i] # split.line
      BY <1>1 DEF ImportInv, CutInv, StartLines
    <3>5. \A i, j \in 1..Len(Tokens') : Tokens'[i] = Tokens'[j] => i = j
      BY <3>1, <3>2, <3>4 DEF ImportInv, CutInv
    <3> QED
      BY <1>6, <2>2, <3>3, <3>5 DEF ImportInv, CutInv
  <2> QED
    BY <2>1, <2>2
<1>8. split' \in [line : 1..(Len(dump) + 1), open : BOOLEAN, tokens : Seq(1..Len(dump))]
  <2>1. Append(split.tokens, split.line) \in Seq(1..Len(dump)) /\ split.tokens \in Seq(1..Len(dump))
    BY <1>1 DEF Tokens
  <2>2. PICK open \in BOOLEAN : open = IF split.open THEN line # "end" ELSE line = "copy"
    BY DEF ImportInv, ImportTypes
  <2>3. PICK tokens \in Seq(1..Len(dump)) :
          tokens = IF split.open \/ line = "end" THEN split.tokens ELSE Append(split.tokens, split.line)
    BY <2>1
  <2>4. split' = [line |-> split.line + 1, open |-> open, tokens |-> tokens]
    BY <2>2, <2>3 DEF CutLine
  <2> QED
    BY <1>1, <2>4
<1>9. ImportTypes' /\ CutInv'
  <2>1. CutInv'
    BY <1>5, <1>7 DEF CutInv
  <2>2. ImportTypes'
    BY <1>2, <1>8 DEF ImportInv, ImportTypes
  <2> QED
    BY <2>1, <2>2
<1>10. StepInv'
  BY <1>2 DEF ImportInv, StepInv, Result0, Running
<1>11. ThrowsAndLeavesNothing' /\ KeepsSearchPath'
  BY <1>2 DEF ImportInv, ThrowsAndLeavesNothing, KeepsSearchPath, LinesOf
<1> QED
  BY <1>9, <1>10, <1>11 DEF ImportInv

\* The steps before the first statement, and a dry run.
LEMMA ImportBegins ==
  ASSUME ImportInv, Refuse \/ ReadDump \/ DryRun \/ Begin  PROVE ImportInv'
<1>1. UNCHANGED <<dump, split, pending, applied, searchPath>>
  BY DEF Refuse, ReadDump, DryRun, Begin
<1>2. CutInv'
  BY <1>1, SameTokens DEF ImportInv
<1>3. /\ import = [Result0 EXCEPT !.step = import.step]
      /\ applied = {} /\ pending = {} /\ searchPath = "tenant"
  BY DEF ImportInv, StepInv, Refuse, ReadDump, DryRun, Begin, IsCut
<1>4. Len(dump) \in Nat /\ split.line \in 1..(Len(dump) + 1) /\ Len(Tokens) \in Nat
  BY DEF ImportInv, ImportTypes, Tokens
<1>5. Count(SkippedKinds) \in Nat /\ Count(Lines \ SkippedKinds) \in Nat
  BY CountsAreNat DEF ImportInv
<1>6. ImportTypes'
  <2>1. import' \in ImportRecords
    BY <1>5 DEF ImportInv, ImportTypes, ImportRecords, ImportSteps, ImportModes, Refuse, ReadDump, DryRun, Begin
  <2> QED
    BY <1>1, <2>1 DEF ImportInv, ImportTypes
<1>7. KeepsSearchPath' /\ ThrowsAndLeavesNothing'
  BY <1>1, <1>3 DEF KeepsSearchPath, ThrowsAndLeavesNothing
<1>8. CASE Refuse \/ ReadDump
  <2>1. import' = [import EXCEPT !.step = "refused"] \/ import' = [import EXCEPT !.step = "split"]
    BY <1>8 DEF Refuse, ReadDump
  <2>2. import'.mode = "none" /\ import'.step \in {"refused", "split"}
        /\ import' = [Result0 EXCEPT !.step = import'.step]
    BY <1>3, <2>1 DEF Result0
  <2>3. StepInv'
    BY <1>1, <1>3, <2>2 DEF StepInv, Running
  <2> QED
    BY <1>2, <1>6, <1>7, <2>3 DEF ImportInv
<1>9. CASE DryRun
  <2>1. import'.step = "done" /\ import'.mode = "dry-run" /\ split.line = Len(dump) + 1
    BY <1>3, <1>4, <1>9 DEF DryRun, IsCut, Result0
  <2>2. StepInv'
    BY <1>1, <2>1 DEF StepInv, Running
  <2> QED
    BY <1>2, <1>6, <1>7, <2>2 DEF ImportInv
<1>10. CASE Begin
  <2>1. split.line = Len(dump) + 1
    <3>1. IsCut
      BY <1>10 DEF Begin
    <3> QED
      BY <1>4, <3>1 DEF IsCut
  <2>2. /\ import'.next = 1 /\ import'.executed = 0 /\ import'.skipped = 0 /\ import'.errors = 0
        /\ \/ Count({"copy"}) = 0 /\ import'.step = "run" /\ import'.mode = "transactional"
           \/ import'.step \in {"run", "threw"} /\ import'.mode = "psql"
    <3>1. /\ import.next = 1 /\ import.executed = 0 /\ import.skipped = 0 /\ import.errors = 0
          /\ import = [Result0 EXCEPT !.step = import.step]
      BY <1>3 DEF Result0
    <3>2. CASE Count({"copy"}) = 0
      BY <1>3, <1>10, <3>1, <3>2 DEF Begin, Result0
    <3>3. CASE Count({"copy"}) # 0
      <4>1. PICK psqlReady \in BOOLEAN :
              import' = [import EXCEPT !.step = IF psqlReady THEN "run" ELSE "threw", !.mode = "psql"]
        BY <1>10, <3>3 DEF Begin
      <4>2. PICK step \in {"run", "threw"} : step = IF psqlReady THEN "run" ELSE "threw"
        OBVIOUS
      <4>3. import' = [import EXCEPT !.step = step, !.mode = "psql"]
        BY <4>1, <4>2
      <4> QED
        BY <1>3, <4>3 DEF Result0
    <3> QED
      BY <3>2, <3>3
  <2>3. \A kinds : RanTo(1, kinds)' = {}
    BY DEF RanTo
  <2>4. import'.mode = "transactional" => LinesOf({"copy"})' = {}
    BY <1>1, <2>1, <2>2, NoBlocks, SameTokens DEF ImportInv
  <2>5. 1 \in 1..(Len(Tokens') + 1)
    BY <1>1, <1>4, SameTokens
  <2>6. Running("transactional")' => applied' = {} /\ TransactionInv(pending)'
    <3>1. SUFFICES ASSUME Running("transactional")'
                   PROVE  applied' = {} /\ TransactionInv(pending)'
      OBVIOUS
    <3>2. import'.mode = "transactional"
      BY <3>1 DEF Running
    <3>3. RanTo(import.next, {"good"})' = {} /\ RanTo(import.next, {"good", "commented"})' = {}
      BY <2>2, <2>3
    <3>4. Cardinality(RanTo(import.next, {"good", "commented"})') = 0
      BY <3>3, FS_EmptySet
    <3>5. applied' = {} /\ pending' = {}
      BY <1>1, <1>3
    <3> QED
      BY <2>2, <2>4, <2>5, <3>2, <3>3, <3>4, <3>5 DEF TransactionInv
  <2>7. import'.mode = "psql" => PsqlInv'
    BY <1>1, <1>3, <2>2, <2>3, <2>5 DEF PsqlInv
  <2>8. StepInv'
    BY <1>1, <2>1, <2>2, <2>6, <2>7 DEF StepInv, Running
  <2> QED
    BY <1>2, <1>6, <1>7, <2>8 DEF ImportInv
<1> QED
  BY <1>8, <1>9, <1>10

\* A step of an import whose dump is cut leaves its types and tokens.
LEMMA ImportKeeps ==
  ASSUME ImportInv, UNCHANGED <<dump, split>>,
         import' \in ImportRecords,
         searchPath' \in {"tenant", "other"}
  PROVE  ImportTypes' /\ CutInv'
  BY SameTokens DEF ImportInv, ImportTypes

\* A statement of a transactional import, skipped or run.
LEMMA StatementRuns ==
  ASSUME ImportInv, SkipStatement \/ RunStatement  PROVE ImportInv'
<1> DEFINE n == import.next
<1>1. UNCHANGED <<dump, split, applied>> /\ Running("transactional") /\ n <= Len(Tokens)
  BY DEF SkipStatement, RunStatement
<1>2. import.step = "run" /\ import.mode = "transactional" /\ applied = {} /\ TransactionInv(pending)
  BY <1>1 DEF ImportInv, StepInv, Running
<1>3. /\ n \in 1..Len(Tokens) /\ Len(Tokens) \in Nat
      /\ import \in ImportRecords
      /\ searchPath \in {"tenant", "other"}
  BY <1>1, <1>2 DEF ImportInv, ImportTypes, Tokens, TransactionInv
<1>4. At \in Lines \ {"end", "copy"} /\ (LinesOf({"commented"}) = {} => At # "commented")
  BY <1>2, <1>3, KindsOfTokens DEF ImportInv, At, TransactionInv
<1>5. Kind(n) = At
  BY DEF At
<1> HIDE DEF n
<1>6. /\ RanTo(n + 1, {"good"}) = IF At = "good" THEN RanTo(n, {"good"}) \cup {Tokens[n]} ELSE RanTo(n, {"good"})
      /\ RanTo(n + 1, {"good", "commented"}) =
           IF At \in {"good", "commented"} THEN RanTo(n, {"good", "commented"}) \cup {Tokens[n]}
           ELSE RanTo(n, {"good", "commented"})
  BY <1>3, <1>5, RunsOn DEF ImportInv
<1>7. Cardinality(RanTo(n + 1, {"good", "commented"})) =
        Cardinality(RanTo(n, {"good", "commented"})) + (IF At \in {"good", "commented"} THEN 1 ELSE 0)
  <2>1. /\ Tokens[n] \notin RanTo(n, {"good", "commented"}) /\ IsFiniteSet(RanTo(n, {"good", "commented"}))
        /\ Cardinality(RanTo(n, {"good", "commented"})) \in Nat
    BY <1>3, RunsOn DEF ImportInv
  <2> QED
    BY <1>6, <2>1, FS_AddElement
<1>8. /\ import'.step = "run" /\ import'.mode = "transactional" /\ import'.next = n + 1
      /\ import'.executed = import.executed + (IF At \in {"good", "commented"} THEN 1 ELSE 0)
      /\ import'.executed + import'.skipped + import'.errors = import.executed + import.skipped + import.errors + 1
      /\ import' \in ImportRecords
  <2>1. import.next \in Nat /\ import.executed \in Nat /\ import.skipped \in Nat /\ import.errors \in Nat
    BY <1>3 DEF ImportRecords
  <2>2. PICK next \in Nat : next = import.next + 1
    BY <2>1
  <2> DEFINE CountsAre(e, k, f) ==
        import' = [import EXCEPT !.next = next, !.executed = e, !.skipped = k, !.errors = f]
  <2>3. \/ At = "path" /\ \E k \in Nat : k = import.skipped + 1 /\ CountsAre(import.executed, k, import.errors)
        \/ At \in {"bad", "row"} /\ \E f \in Nat : f = import.errors + 1 /\ CountsAre(import.executed, import.skipped, f)
        \/ /\ At \in {"good", "commented"}
           /\ \E e \in Nat : e = import.executed + 1 /\ CountsAre(e, import.skipped, import.errors)
    <3>1. CASE SkipStatement
      <4>1. PICK k \in Nat : k = import.skipped + 1
        BY <2>1
      <4>2. At = "path" /\ import' = [import EXCEPT !.next = next, !.skipped = k]
        BY <2>2, <3>1, <4>1 DEF SkipStatement, Skipped
      <4> QED
        BY <1>3, <4>1, <4>2 DEF ImportRecords
    <3>2. CASE RunStatement
      <4>1. At # "path" /\ At # "commit"
        BY <3>2 DEF RunStatement, Skipped
      <4>2. At \in {"good", "commented", "bad", "row"}
        BY <1>4, <4>1 DEF Lines
      <4>3. CASE At \in {"bad", "row"}
        <5>1. PICK f \in Nat : f = import.errors + 1
          BY <2>1
        <5>2. import' = [import EXCEPT !.next = next, !.errors = f]
          BY <2>2, <3>2, <4>3, <5>1 DEF RunStatement
        <5> QED
          BY <1>3, <4>3, <5>1, <5>2 DEF ImportRecords
      <4>4. CASE At \in {"good", "commented"}
        <5>1. PICK e \in Nat : e = import.executed + 1
          BY <2>1
        <5>2. import' = [import EXCEPT !.next = next, !.executed = e]
          BY <2>2, <3>2, <4>4, <5>1 DEF RunStatement
        <5> QED
          BY <1>3, <4>4, <5>1, <5>2 DEF ImportRecords
      <4> QED
        BY <4>2, <4>3, <4>4
    <3> QED
      BY <3>1, <3>2
  <2>4. PICK e \in Nat, k \in Nat, f \in Nat :
          /\ CountsAre(e, k, f)
          /\ e = import.executed + (IF At \in {"good", "commented"} THEN 1 ELSE 0)
          /\ e + k + f = import.executed + import.skipped + import.errors + 1
    <3>1. CASE At = "path" /\ \E k \in Nat : k = import.skipped + 1 /\ CountsAre(import.executed, k, import.errors)
      <4>1. PICK k \in Nat : k = import.skipped + 1 /\ CountsAre(import.executed, k, import.errors)
        BY <3>1
      <4>2. ~(At \in {"good", "commented"})
        BY <3>1
      <4>3. /\ import.executed = import.executed + (IF At \in {"good", "commented"} THEN 1 ELSE 0)
            /\ import.executed + k + import.errors = import.executed + import.skipped + import.errors + 1
        BY <2>1, <4>1, <4>2
      <4> HIDE DEF Becomes
      <4> QED
        BY <2>1, <4>1, <4>3
    <3>2. CASE /\ At \in {"bad", "row"}
               /\ \E f \in Nat : f = import.errors + 1 /\ CountsAre(import.executed, import.skipped, f)
      <4>1. PICK f \in Nat : f = import.errors + 1 /\ CountsAre(import.executed, import.skipped, f)
        BY <3>2
      <4>2. ~(At \in {"good", "commented"})
        BY <3>2
      <4>3. /\ import.executed = import.executed + (IF At \in {"good", "commented"} THEN 1 ELSE 0)
            /\ import.executed + import.skipped + f = import.executed + import.skipped + import.errors + 1
        BY <2>1, <4>1, <4>2
      <4> HIDE DEF Becomes
      <4> QED
        BY <2>1, <4>1, <4>3
    <3>3. CASE /\ At \in {"good", "commented"}
               /\ \E e \in Nat : e = import.executed + 1 /\ CountsAre(e, import.skipped, import.errors)
      <4>1. PICK e \in Nat : e = import.executed + 1 /\ CountsAre(e, import.skipped, import.errors)
        BY <3>3
      <4>2. /\ e = import.executed + (IF At \in {"good", "commented"} THEN 1 ELSE 0)
            /\ e + import.skipped + import.errors = import.executed + import.skipped + import.errors + 1
        BY <2>1, <3>3, <4>1
      <4> HIDE DEF Becomes
      <4> QED
        BY <2>1, <4>1, <4>2
    <3> HIDE DEF Becomes
    <3> QED
      BY <2>3, <3>1, <3>2, <3>3
  <2>5. /\ import' \in ImportRecords /\ import'.step = import.step /\ import'.mode = import.mode
        /\ import'.next = next /\ import'.executed = e /\ import'.skipped = k /\ import'.errors = f
    <3>1. import' = [import EXCEPT !.next = next, !.executed = e, !.skipped = k, !.errors = f]
      BY <2>4
    <3>2. import \in ImportRecords
      BY <1>3
    <3> HIDE DEF Becomes
    <3> QED
      BY <3>1, <3>2 DEF ImportRecords
  <2> HIDE DEF Becomes
  <2> QED
    BY <1>2, <2>2, <2>4, <2>5 DEF n
<1>9. pending' = IF At = "good" THEN pending \cup {Tokens[n]} ELSE pending
  BY DEF SkipStatement, RunStatement, Skipped, n
<1>10. /\ searchPath' \in {"tenant", "other"}
       /\ LinesOf({"commented"}) = {} => searchPath' = searchPath
  BY <1>3, <1>4 DEF SkipStatement, RunStatement, Skipped
<1>11. /\ Tokens' = Tokens /\ LinesOf({"copy"})' = LinesOf({"copy"}) /\ LinesOf({"commented"})' = LinesOf({"commented"})
       /\ RanTo(import.next, {"good"})' = RanTo(n + 1, {"good"})
       /\ RanTo(import.next, {"good", "commented"})' = RanTo(n + 1, {"good", "commented"})
  BY <1>1, <1>8, SameTokens
<1>12. TransactionInv(pending)'
  <2>1. pending' = RanTo(n + 1, {"good"})
    BY <1>2, <1>6, <1>9 DEF TransactionInv, n
  <2>2. import'.executed = Cardinality(RanTo(n + 1, {"good", "commented"}))
    BY <1>2, <1>7, <1>8 DEF TransactionInv, n
  <2>3. import'.next \in 1..(Len(Tokens) + 1)
    BY <1>3, <1>8
  <2>4. import'.executed + import'.skipped + import'.errors = import'.next - 1
    BY <1>2, <1>3, <1>8 DEF TransactionInv, n
  <2> QED
    BY <1>2, <1>11, <2>1, <2>2, <2>3, <2>4 DEF TransactionInv
<1>13. ImportTypes' /\ CutInv'
  BY <1>1, <1>8, <1>10, ImportKeeps
<1>14. StepInv'
  BY <1>1, <1>2, <1>8, <1>12 DEF StepInv, Running, ImportInv
<1>15. ThrowsAndLeavesNothing' /\ KeepsSearchPath'
  BY <1>2, <1>8, <1>10, <1>11 DEF ThrowsAndLeavesNothing, KeepsSearchPath, ImportInv
<1> QED
  BY <1>13, <1>14, <1>15 DEF ImportInv

\* The end of a transaction, whichever.
LEMMA TransactionEnds ==
  ASSUME ImportInv, RunCommit \/ EndTransaction \/ LoseTransaction  PROVE ImportInv'
<1>1. UNCHANGED <<dump, split, searchPath>> /\ Running("transactional")
  BY DEF RunCommit, EndTransaction, LoseTransaction
<1>2. /\ import.step = "run" /\ import.mode = "transactional" /\ applied = {} /\ TransactionInv(pending)
      /\ split.line = Len(dump) + 1
  BY <1>1 DEF ImportInv, StepInv, Running
<1>3. import \in ImportRecords
  BY DEF ImportInv, ImportTypes
<1>4. \/ EndTransaction /\ import' = [import EXCEPT !.step = "done"]
      \/ ~EndTransaction /\ import' = [import EXCEPT !.step = "threw"]
  BY <1>2, <1>3 DEF RunCommit, EndTransaction, LoseTransaction, TransactionInv
<1>5. /\ import' \in ImportRecords
      /\ import'.mode = "transactional" /\ import'.step = IF EndTransaction THEN "done" ELSE "threw"
      /\ import'.next = import.next /\ import'.executed = import.executed
      /\ import'.skipped = import.skipped /\ import'.errors = import.errors
  <2>1. "done" \in ImportSteps /\ "threw" \in ImportSteps
    BY DEF ImportSteps
  <2>2. CASE EndTransaction
    BY <1>2, <1>3, <1>4, <2>1, <2>2, StepChanges
  <2>3. CASE ~EndTransaction
    BY <1>2, <1>3, <1>4, <2>1, <2>3, StepChanges
  <2> QED
    BY <2>2, <2>3
<1>6. ImportTypes' /\ CutInv'
  BY <1>1, <1>5, ImportKeeps DEF ImportInv, ImportTypes
<1>7. /\ Tokens' = Tokens /\ \A kinds : LinesOf(kinds)' = LinesOf(kinds)
      /\ \A kinds : RanTo(import.next, kinds)' = RanTo(import.next, kinds)
  BY <1>1, <1>5, SameTokens
<1>8. EndTransaction => TransactionInv(applied)' /\ import'.next = Len(Tokens') + 1
  <2>1. SUFFICES ASSUME EndTransaction  PROVE TransactionInv(applied)' /\ import'.next = Len(Tokens') + 1
    OBVIOUS
  <2>2. applied' = pending /\ import.next > Len(Tokens)
    BY <1>2, <2>1 DEF EndTransaction
  <2>3. Len(Tokens) \in Nat
    BY DEF ImportInv, ImportTypes, Tokens
  <2> QED
    BY <1>2, <1>5, <1>7, <2>2, <2>3 DEF TransactionInv
<1>9. StepInv'
  BY <1>1, <1>2, <1>5, <1>8 DEF StepInv, Running
<1>10. ~EndTransaction /\ LinesOf({"commit"}) = {} => applied' = {}
  <2>1. CASE RunCommit
    <3>1. import.next \in 1..Len(Tokens) /\ Kind(import.next) = "commit"
      BY <1>2, <2>1 DEF RunCommit, At, TransactionInv
    <3> QED
      BY <3>1, KindsOfTokens DEF ImportInv
  <2>2. CASE LoseTransaction
    BY <1>2, <2>2 DEF LoseTransaction
  <2> QED
    BY <2>1, <2>2
<1>11. ThrowsAndLeavesNothing' /\ KeepsSearchPath'
  BY <1>1, <1>2, <1>5, <1>7, <1>10 DEF ThrowsAndLeavesNothing, KeepsSearchPath, ImportInv
<1> QED
  BY <1>6, <1>9, <1>11 DEF ImportInv

\* psql.
LEMMA PsqlSteps ==
  ASSUME ImportInv, PsqlStatement \/ PsqlEnds \/ PsqlFails  PROVE ImportInv'
<1>1. UNCHANGED <<dump, split>> /\ Running("psql")
  BY DEF PsqlStatement, PsqlEnds, PsqlFails
<1>2. import.step = "run" /\ import.mode = "psql" /\ PsqlInv /\ split.line = Len(dump) + 1
  BY <1>1 DEF ImportInv, StepInv, Running
<1>3. /\ import \in ImportRecords
      /\ searchPath \in {"tenant", "other"} /\ Len(Tokens) \in Nat
  BY DEF ImportInv, ImportTypes, Tokens
<1>4. \A kinds : Count(kinds) \in Nat
  <2>1. SUFFICES ASSUME NEW kinds  PROVE Count(kinds) \in Nat
    OBVIOUS
  <2>2. Count(kinds) \in Nat
    BY CountsAreNat DEF ImportInv
  <2> QED
    BY <2>2
<1>5. /\ import' \in ImportRecords
      /\ import'.mode = "psql"
      /\ import'.next = IF PsqlStatement THEN import.next + 1 ELSE import.next
      /\ import'.step = IF PsqlStatement THEN "run" ELSE IF PsqlEnds THEN "done" ELSE "threw"
  <2>1. CASE PsqlStatement
    <3>1. PICK next \in Nat : next = import.next + 1
      BY <1>3 DEF ImportRecords
    <3>2. import' = [import EXCEPT !.next = next]
      BY <2>1, <3>1 DEF PsqlStatement
    <3>3. import' \in ImportRecords /\ import'.mode = "psql" /\ import'.step = "run" /\ import'.next = next
      BY <1>2, <1>3, <3>2 DEF ImportRecords
    <3> QED
      BY <2>1, <3>1, <3>3
  <2>2. CASE ~PsqlStatement /\ PsqlEnds
    <3>1. PICK skipped \in Nat, executed \in Nat :
            import' = [import EXCEPT !.step = "done", !.skipped = skipped, !.executed = executed]
      BY <1>4, <2>2 DEF PsqlEnds
    <3>2. import' \in ImportRecords /\ import'.mode = "psql" /\ import'.step = "done" /\ import'.next = import.next
      BY <1>2, <1>3, <3>1 DEF ImportRecords, ImportSteps
    <3> QED
      BY <2>2, <3>2
  <2>3. CASE ~PsqlStatement /\ ~PsqlEnds
    <3>1. import' = [import EXCEPT !.step = "threw"]
      BY <2>3 DEF PsqlFails
    <3>2. "threw" \in ImportSteps
      BY DEF ImportSteps
    <3> QED
      BY <1>2, <1>3, <2>3, <3>1, <3>2, StepChanges
  <2> QED
    BY <2>1, <2>2, <2>3
<1>6. searchPath' \in {"tenant", "other"}
  BY <1>3 DEF PsqlStatement, PsqlEnds, PsqlFails
<1>7. ImportTypes' /\ CutInv'
  BY <1>1, <1>5, <1>6, ImportKeeps
<1>8. Tokens' = Tokens /\ \A n, kinds : RanTo(n, kinds)' = RanTo(n, kinds)
  BY <1>1, SameTokens
<1>9. PsqlInv'
  <2>1. CASE PsqlStatement
    <3>1. /\ import.next \in 1..Len(Tokens) /\ Kind(import.next) = At
          /\ applied' = IF At \in {"good", "copy"} THEN applied \cup {Tokens[import.next]} ELSE applied
      BY <1>2, <2>1 DEF PsqlStatement, At, PsqlInv
    <3>2. RanTo(import.next + 1, {"good", "copy"}) = applied'
      BY <1>2, <3>1, RunsOn DEF ImportInv, PsqlInv
    <3>3. RanTo(import.next, {"good", "copy"})' = RanTo(import.next + 1, {"good", "copy"})
      BY <1>5, <1>8, <2>1
    <3> QED
      BY <1>3, <1>5, <1>8, <2>1, <3>1, <3>2, <3>3 DEF PsqlInv
  <2>2. CASE ~PsqlStatement
    <3>1. applied' = applied /\ import'.next = import.next
      BY <1>5, <2>2 DEF PsqlEnds, PsqlFails
    <3>2. RanTo(import.next, {"good", "copy"})' = RanTo(import.next, {"good", "copy"})
      BY <1>8, <3>1
    <3> QED
      BY <1>2, <1>8, <3>1, <3>2 DEF PsqlInv
  <2> QED
    BY <2>1, <2>2
<1>10. import'.step = "done" => import'.next = Len(Tokens') + 1
  BY <1>2, <1>3, <1>5, <1>8 DEF PsqlEnds, PsqlInv
<1>11. StepInv'
  BY <1>1, <1>2, <1>5, <1>9, <1>10 DEF StepInv, Running
<1>12. ThrowsAndLeavesNothing' /\ KeepsSearchPath'
  BY <1>5 DEF ThrowsAndLeavesNothing, KeepsSearchPath
<1> QED
  BY <1>7, <1>11, <1>12 DEF ImportInv

\* What a finished import comes to.
LEMMA ImportEnds ==
  ASSUME ImportInv  PROVE ImportIsExact
<1>1. Len(Tokens) \in Nat /\ Len(dump) \in Nat
  BY DEF ImportInv, ImportTypes, Tokens
<1>2. ASSUME import.step = "done", import.mode = "transactional"
      PROVE  /\ applied = {n \in LinesOf({"good"}) : ~InBlock(n)} /\ LinesOf({"copy"}) = {}
             /\ import.executed = Cardinality(RanTo(Len(Tokens) + 1, {"good", "commented"}))
             /\ import.executed + import.skipped + import.errors = Len(Tokens)
  BY <1>1, <1>2, AllRan DEF ImportInv, StepInv, TransactionInv
<1>3. ASSUME import.step = "done", import.mode = "psql"
      PROVE  applied = {n \in LinesOf({"good", "copy"}) : ~InBlock(n)}
  BY <1>1, <1>3, AllRan DEF ImportInv, StepInv, PsqlInv
<1>4. DoneMeansApplied
  <2>1. SUFFICES ASSUME import.step = "done", import.mode # "dry-run"
                 PROVE  {n \in LinesOf({"good"}) : ~InBlock(n)} = applied \ LinesOf({"copy"})
    BY DEF DoneMeansApplied
  <2>2. import.mode \in {"transactional", "psql"}
    BY <2>1 DEF ImportInv, ImportTypes, ImportRecords, StepInv, ImportModes
  <2> QED
    BY <1>2, <1>3, <2>1, <2>2 DEF LinesOf
<1>5. ResultIsExact
  <2>1. SUFFICES ASSUME import.step = "done", import.mode = "transactional"
                 PROVE  /\ import.executed = Cardinality(applied \cup LinesOf({"commented"}))
                        /\ import.executed + import.skipped + import.errors = Len(Tokens)
    BY DEF ResultIsExact
  <2>2. \A n \in 1..Len(dump) : ~InBlock(n)
    BY <1>1, <1>2, <2>1 DEF InBlock, LinesOf
  <2>3. RanTo(Len(Tokens) + 1, {"good", "commented"}) = {n \in LinesOf({"good", "commented"}) : ~InBlock(n)}
    BY <2>1, AllRan DEF ImportInv, StepInv
  <2>4. RanTo(Len(Tokens) + 1, {"good", "commented"}) = applied \cup LinesOf({"commented"})
    BY <1>2, <2>1, <2>2, <2>3 DEF LinesOf
  <2> QED
    BY <1>2, <2>1, <2>4
<1> QED
  BY <1>4, <1>5 DEF ImportIsExact, ImportInv

\* An import is what its result and its failure say it is, for any dump: what is done is
\* applied, line by line, and what threw in a transaction has left nothing
\* (services/sql_import_service.ts).
THEOREM ImportsStayExact == ImportSpec => []ImportIsExact
<1>1. ImportInit(Seq(Lines)) => ImportInv
  <2>1. SUFFICES ASSUME ImportInit(Seq(Lines))  PROVE ImportInv
    OBVIOUS
  <2>2. /\ dump \in Seq(Lines) /\ Len(dump) \in Nat /\ split = [line |-> 1, open |-> FALSE, tokens |-> <<>>]
        /\ import = Result0 /\ applied = {} /\ pending = {} /\ searchPath = "tenant"
    BY <2>1 DEF ImportInit
  <2>3. ImportTypes
    <3>1. Result0 \in ImportRecords
      BY DEF ImportRecords, Result0, ImportSteps, ImportModes
    <3> QED
      BY <2>2, <3>1 DEF ImportTypes
  <2>4. CutInv
    BY <2>2 DEF CutInv, Tokens, StartLines, InBlock
  <2>5. StepInv
    BY <2>2 DEF StepInv, Result0, Running
  <2>6. ThrowsAndLeavesNothing /\ KeepsSearchPath
    BY <2>2 DEF ThrowsAndLeavesNothing, KeepsSearchPath, Result0
  <2> QED
    BY <2>3, <2>4, <2>5, <2>6 DEF ImportInv
<1>2. ImportInv /\ [ImportNext]_importVars => ImportInv'
  <2>1. SUFFICES ASSUME ImportInv, [ImportNext]_importVars  PROVE ImportInv'
    OBVIOUS
  <2>2. CASE UNCHANGED importVars
    <3>1. UNCHANGED <<dump, split, import, pending, applied, searchPath>>
      BY <2>2 DEF importVars
    <3>2. ImportTypes' /\ CutInv'
      BY <2>1, <3>1, ImportKeeps DEF ImportInv, ImportTypes
    <3>3. /\ Tokens' = Tokens /\ \A kinds : LinesOf(kinds)' = LinesOf(kinds)
          /\ \A kinds : RanTo(import.next, kinds)' = RanTo(import.next, kinds)
      BY <3>1, SameTokens
    <3>4. StepInv' /\ ThrowsAndLeavesNothing' /\ KeepsSearchPath'
      BY <2>1, <3>1, <3>3
      DEF ImportInv, StepInv, ThrowsAndLeavesNothing, KeepsSearchPath, TransactionInv, PsqlInv, Running, Result0
    <3> QED
      BY <3>2, <3>4 DEF ImportInv
  <2> QED
    BY <2>1, <2>2, LineIsCut, ImportBegins, StatementRuns, TransactionEnds, PsqlSteps DEF ImportNext
<1> QED
  BY <1>1, <1>2, ImportEnds, PTL DEF ImportSpec
-----------------------------------------------------------------------------
(***************************************************************************)
(* The SQL splitter, for every input.                                      *)
(***************************************************************************)

Inputs == Seq(Symbols)

\* Some positions have a first one.
LEMMA LeastExists ==
  ASSUME NEW some, some \subseteq Nat, some # {}
  PROVE  \E k \in some : \A m \in some : k <= m
<1>1. PICK k \in some : \A m \in some : ~(<<m, k>> \in OpToRel(<, Nat))
  BY NatLessThanWellFounded, WFMin
<1>2. k \in Nat /\ \A m \in some : m \in Nat
  OBVIOUS
<1>3. \A m \in some : ~(m < k)
  BY <1>1, <1>2 DEF OpToRel
<1> QED
  BY <1>2, <1>3

\* Positions of an input have a last one.
LEMMA GreatestExists ==
  ASSUME NEW n \in Nat, NEW some, some \subseteq 0..n, some # {}
  PROVE  \E k \in some : \A m \in some : m <= k
<1> DEFINE ages == {n - k : k \in some}
<1>0. \A k \in some : k \in Nat /\ k <= n /\ n - k \in Nat
  OBVIOUS
<1>1. ages \subseteq Nat /\ ages # {}
  BY <1>0
<1>2. PICK a \in ages : \A b \in ages : a <= b
  <2> HIDE DEF ages
  <2> QED
    BY <1>1, LeastExists
<1>3. PICK k \in some : a = n - k
  OBVIOUS
<1>4. \A m \in some : n - k <= n - m
  BY <1>2, <1>3
<1> QED
  BY <1>0, <1>4

\* What FirstFrom finds.
LEMMA FirstFound ==
  ASSUME NEW s \in Inputs, NEW i \in Nat, NEW some, some \subseteq 1..Len(s)
  PROVE  /\ FirstFrom(s, i, some) \in Nat /\ FirstFrom(s, i, some) <= Len(s)
         /\ i <= Len(s) => i <= FirstFrom(s, i, some)
         /\ \A k \in some : i <= k /\ (\A m \in some : i <= m => k <= m) => FirstFrom(s, i, some) = k
         /\ \A n \in Nat : n <= Len(s) /\ (\A k \in some : i <= k => n <= k) => n <= FirstFrom(s, i, some)
<1> DEFINE rest == {k \in some : i <= k}
<1>0. Len(s) \in Nat
  BY LenProperties DEF Inputs
<1>1. CASE rest = {}
  <2>1. FirstFrom(s, i, some) = Len(s)
    BY <1>0, <1>1 DEF FirstFrom
  <2> QED
    BY <1>0, <1>1, <2>1
<1>2. CASE rest # {}
  <2>0. \A k \in 1..Len(s) : k \in Nat
    BY <1>0
  <2>1. rest \subseteq Nat
    BY <2>0
  <2>2. PICK k \in rest : \A m \in rest : k <= m
    <3> HIDE DEF rest
    <3> QED
      BY <1>2, <2>1, LeastExists
  <2> DEFINE found == CHOOSE e \in some : e >= i /\ \A m \in some : m >= i => e <= m
  <2>3. k \in some /\ k >= i /\ \A m \in some : m >= i => k <= m
    BY <1>0, <2>2
  <2>4. FirstFrom(s, i, some) = found
    BY <2>3 DEF FirstFrom
  <2>5. found \in some /\ found >= i /\ \A m \in some : m >= i => found <= m
    BY <2>3
  <2> HIDE DEF found
  <2> QED
    BY <1>0, <2>4, <2>5
<1> QED
  BY <1>1, <1>2

-----------------------------------------------------------------------------
(* Lexemes.                                                                *)

\* A lexeme ends in the input, not before it begins.
LEMMA LexemeEnds ==
  ASSUME NEW s \in Inputs, NEW i \in 1..Len(s)
  PROVE  LexemeEnd(s, i) \in i..Len(s)
<1>0. Len(s) \in Nat
  BY LenProperties DEF Inputs
<1> DEFINE same == {k \in 1..Len(s) : s[k] = s[i]}
<1>1. same \subseteq 1..Len(s) /\ Newlines(s) \subseteq 1..Len(s) /\ Closings(s) \subseteq 1..Len(s)
  BY <1>0 DEF Newlines, Closings
<1>2. ASSUME NEW some, some \subseteq 1..Len(s)
      PROVE  FirstFrom(s, i, some) \in i..Len(s)
  <2>1. i \in Nat /\ i <= Len(s)
    BY <1>0
  <2> QED
    <3>1. PICK f : f = FirstFrom(s, i, some) /\ f \in Nat /\ f <= Len(s) /\ i <= f
      BY <1>2, <2>1, FirstFound
    <3> QED
      BY <1>0, <2>1, <3>1
<1>3. CASE IsQuoted(s, i)
  <2>1. LexemeEnd(s, i) = FirstFrom(s, i + 1, same)
    BY <1>3 DEF LexemeEnd, IsQuoted, IsLineComment, IsBlockComment, IsMeta, IsPair, Tags
  <2>2. CASE i = Len(s)
    <3>1. ~\E k \in same : k >= i + 1
      BY <1>0, <2>2
    <3> QED
      BY <1>0, <2>1, <2>2, <3>1 DEF FirstFrom
  <2>3. CASE i < Len(s)
    BY <1>0, <1>1, <2>1, <2>3, FirstFound
  <2> QED
    BY <1>0, <2>2, <2>3
<1>4. CASE IsLineComment(s, i) \/ IsMeta(s, i)
  <2>1. LexemeEnd(s, i) = FirstFrom(s, i, Newlines(s))
    BY <1>4 DEF LexemeEnd, IsQuoted, IsLineComment, IsBlockComment, IsMeta, IsPair, Tags
  <2> QED
    BY <1>1, <1>2, <2>1
<1>5. CASE IsBlockComment(s, i)
  <2>1. LexemeEnd(s, i) = FirstFrom(s, i + 3, Closings(s))
    BY <1>5 DEF LexemeEnd, IsQuoted, IsLineComment, IsBlockComment, IsMeta, IsPair, Tags
  <2>2. \A k \in Closings(s) : i + 3 <= k => i <= k
    BY <1>0 DEF Closings
  <2> QED
    BY <1>0, <1>1, <2>1, <2>2, FirstFound
<1>6. CASE ~IsQuoted(s, i) /\ ~IsLineComment(s, i) /\ ~IsBlockComment(s, i) /\ ~IsMeta(s, i)
  <2>1. LexemeEnd(s, i) = i
    BY <1>6 DEF LexemeEnd
  <2> QED
    BY <1>0, <2>1
<1> QED
  BY <1>3, <1>4, <1>5, <1>6

\* The input begins with a lexeme.
LEMMA FirstBegins ==
  ASSUME NEW s \in Inputs
  PROVE  Begins(s, 1)
<1>1. {} \in SUBSET (1..(1 - 1)) /\ 1 \in {} \cup {1}
  OBVIOUS
<1> QED
  BY <1>1 DEF Begins

\* After a lexeme another begins.
LEMMA NextBegins ==
  ASSUME NEW s \in Inputs, NEW i \in 1..Len(s), Begins(s, i)
  PROVE  Begins(s, LexemeEnd(s, i) + 1)
<1>0. Len(s) \in Nat
  BY LenProperties DEF Inputs
<1>1. PICK e : e = LexemeEnd(s, i) /\ e \in Nat /\ i <= e
  BY <1>0, LexemeEnds
<1>2. PICK before \in SUBSET (1..(i - 1)) :
        1 \in before \cup {i} /\ \A h \in before : LexemeEnd(s, h) + 1 \in before \cup {i}
  BY DEF Begins
<1> DEFINE upTo == before \cup {i}
<1>3. upTo \in SUBSET (1..((e + 1) - 1))
  BY <1>0, <1>1, <1>2
<1>4. 1 \in upTo \cup {e + 1}
  BY <1>2
<1>5. \A h \in upTo : LexemeEnd(s, h) + 1 \in upTo \cup {e + 1}
  BY <1>1, <1>2
<1>6. Begins(s, e + 1)
  BY <1>3, <1>4, <1>5 DEF Begins
<1> QED
  BY <1>1, <1>6

\* A lexeme ends before another begins.
LEMMA LexemesAreApart ==
  ASSUME NEW s \in Inputs, NEW h \in 1..(Len(s) + 1), NEW i \in 1..(Len(s) + 1), h < i,
         Begins(s, h), Begins(s, i)
  PROVE  LexemeEnd(s, h) < i
<1>0. Len(s) \in Nat
  BY LenProperties DEF Inputs
<1>1. PICK P \in SUBSET (1..(i - 1)) :
        1 \in P \cup {i} /\ \A g \in P : LexemeEnd(s, g) + 1 \in P \cup {i}
  BY DEF Begins
<1>2. PICK Q \in SUBSET (1..(h - 1)) :
        1 \in Q \cup {h} /\ \A g \in Q : LexemeEnd(s, g) + 1 \in Q \cup {h}
  BY DEF Begins
<1>3. 1 \in P
  BY <1>0, <1>1
<1>4. h \in P
  <2> SUFFICES ASSUME h \notin P PROVE FALSE
    OBVIOUS
  <2>1. 1 \in P \cap Q
    BY <1>2, <1>3
  <2>2. P \cap Q \subseteq 0..Len(s)
    BY <1>0, <1>2
  <2>3. PICK g \in P \cap Q : \A m \in P \cap Q : m <= g
    BY <1>0, <2>1, <2>2, GreatestExists
  <2>4. g \in 1..Len(s) /\ g < h
    BY <1>0, <1>2
  <2>5. PICK n : n = LexemeEnd(s, g) + 1 /\ n \in Nat /\ g < n
    BY <1>0, <2>4, LexemeEnds
  <2>6. n \in P \cup {i} /\ n \in Q \cup {h}
    BY <1>1, <1>2, <2>5
  <2>7. n \in P \cap Q
    BY <1>0, <1>2, <2>6
  <2> QED
    BY <1>0, <2>2, <2>3, <2>5, <2>7
<1>5. h \in 1..Len(s)
  BY <1>0
<1>6. LexemeEnd(s, h) + 1 \in P \cup {i} /\ LexemeEnd(s, h) \in Nat
  BY <1>0, <1>1, <1>4, <1>5, LexemeEnds
<1> QED
  BY <1>0, <1>1, <1>6

-----------------------------------------------------------------------------
(* What stands at some positions, one position further.                    *)

\* The positions more are some and one more, i, the last of them.
NthGrows(some, more, i) ==
  /\ Cardinality(some) \in Nat
  /\ Cardinality(more) = Cardinality(some) + 1
  /\ Nth(more, Cardinality(some) + 1) = i
  /\ \A j \in 1..Cardinality(some) : Nth(more, j) = Nth(some, j)

LEMMA LastIsNth ==
  ASSUME NEW n \in Nat, NEW some, some \subseteq 0..n, NEW i \in 0..n, \A k \in some : k < i
  PROVE  NthGrows(some, some \cup {i}, i)
<1> DEFINE more == some \cup {i}
<1>1. IsFiniteSet(0..n)
  BY FS_Interval
<1>2. IsFiniteSet(some) /\ IsFiniteSet(more) /\ i \notin some
  <2>1. some \subseteq 0..n /\ more \subseteq 0..n
    OBVIOUS
  <2>2. i \notin some
    <3>1. ~(i < i)
      OBVIOUS
    <3> QED
      BY <3>1
  <2> QED
    BY <1>1, <2>1, <2>2, FS_Subset
<1>3. PICK c \in Nat : c = Cardinality(some)
  BY <1>2, FS_CardinalityType
<1>4. Cardinality(more) = c + 1
  BY <1>2, <1>3, FS_AddElement
<1>5. {k \in more : k <= i} = more
  <2>1. \A k \in more : k <= i
    OBVIOUS
  <2> QED
    BY <2>1
<1>6. ASSUME NEW x \in some
      PROVE  /\ {k \in more : k <= x} = {k \in some : k <= x}
             /\ Cardinality({k \in more : k <= x}) \in Nat
             /\ Cardinality({k \in more : k <= x}) <= c
  <2>1. x < i
    OBVIOUS
  <2>2. {k \in more : k <= x} = {k \in some : k <= x}
    BY <2>1
  <2>3. IsFiniteSet({k \in some : k <= x}) /\ Cardinality({k \in some : k <= x}) <= c
    BY <1>2, <1>3, FS_Subset
  <2> QED
    BY <2>2, <2>3, FS_CardinalityType
<1>7. Nth(more, c + 1) = i
  <2>1. i \in more /\ Cardinality({k \in more : k <= i}) = c + 1
    BY <1>4, <1>5
  <2>2. \A x \in some : Cardinality({k \in more : k <= x}) # c + 1
    BY <1>3, <1>6
  <2>3. \A x \in more : Cardinality({k \in more : k <= x}) = c + 1 => x = i
    BY <2>2
  <2> HIDE DEF more
  <2> QED
    BY <2>1, <2>3 DEF Nth
<1>8. ASSUME NEW j \in 1..c
      PROVE  Nth(more, j) = Nth(some, j)
  <2>1. Cardinality({k \in more : k <= i}) # j
    BY <1>3, <1>4, <1>5
  <2>2. \A x : (x \in more /\ Cardinality({k \in more : k <= x}) = j)
               <=> (x \in some /\ Cardinality({k \in some : k <= x}) = j)
    BY <1>6, <2>1
  <2> HIDE DEF more
  <2> QED
    BY <2>2 DEF Nth
<1> QED
  BY <1>3, <1>4, <1>7, <1>8 DEF NthGrows

\* A sequence that has one element more.
LEMMA OneMore ==
  ASSUME NEW c \in Nat, NEW old, NEW new,
         old = [n \in 1..c |-> old[n]], new = [n \in 1..(c + 1) |-> new[n]],
         \A n \in 1..c : new[n] = old[n]
  PROVE  /\ \E some : old \in Seq(some) /\ new[c + 1] \in some
         /\ Len(old) = c
         /\ new = Append(old, new[c + 1])
<1> DEFINE last == new[c + 1]
           some == {old[n] : n \in 1..c} \cup {last}
<1>1. \A n \in 1..c : old[n] \in some
  OBVIOUS
<1>2. old \in Seq(some) /\ Len(old) = c /\ last \in some
  <2> HIDE DEF some
  <2>1. last \in some
    BY DEF some
  <2>2. old \in [1..c -> some]
    BY <1>1
  <2>3. old \in Seq(some)
    BY <2>2
  <2> QED
    BY <2>1, <2>2, <2>3
<1> DEFINE longer == Append(old, last)
<1>3. /\ longer \in Seq(some) /\ Len(longer) = c + 1
      /\ \A n \in 1..c : longer[n] = old[n]
      /\ longer[c + 1] = last
  <2> HIDE DEF some, last
  <2> QED
    BY <1>2, AppendProperties
<1>4. longer = [n \in 1..(c + 1) |-> longer[n]]
  <2> HIDE DEF some, longer
  <2> QED
    BY <1>3
<1>5. \A n \in 1..(c + 1) : longer[n] = new[n]
  <2> HIDE DEF some, longer
  <2> SUFFICES ASSUME NEW n \in 1..(c + 1) PROVE longer[n] = new[n]
    OBVIOUS
  <2>1. CASE n = c + 1
    BY <1>3, <2>1
  <2>2. CASE n # c + 1
    <3>1. n \in 1..c
      BY <2>2
    <3> QED
      BY <1>3, <3>1
  <2> QED
    BY <2>1, <2>2
<1>6. new = longer
  <2> HIDE DEF some, longer
  <2> QED
    BY <1>4, <1>5
<1> QED
  BY <1>2, <1>6

LEMMA TextGrows ==
  ASSUME NEW s \in Inputs, NEW some, some \subseteq 1..Len(s), NEW i \in 1..Len(s),
         \A k \in some : k < i
  PROVE  Text(s, some \cup {i}) = Append(Text(s, some), s[i])
<1> DEFINE more == some \cup {i}
           old == Text(s, some)
           new == Text(s, more)
<1>0. Len(s) \in Nat
  BY LenProperties DEF Inputs
<1>1. some \subseteq 0..Len(s) /\ i \in 0..Len(s)
  BY <1>0
<1>2. NthGrows(some, more, i)
  BY <1>0, <1>1, LastIsNth
<1>3. PICK c \in Nat : c = Cardinality(some)
  BY <1>2 DEF NthGrows
<1> HIDE DEF more
<1>4. old = [n \in 1..c |-> s[Nth(some, n)]] /\ new = [n \in 1..(c + 1) |-> s[Nth(more, n)]]
  BY <1>2, <1>3 DEF Text, NthGrows
<1>5. /\ old = [n \in 1..c |-> old[n]] /\ new = [n \in 1..(c + 1) |-> new[n]]
      /\ \A n \in 1..c : new[n] = old[n]
      /\ new[c + 1] = s[i]
  <2> HIDE DEF old, new
  <2>1. \A n \in 1..c : n \in 1..(c + 1) /\ Nth(more, n) = Nth(some, n)
    BY <1>2, <1>3 DEF NthGrows
  <2>2. c + 1 \in 1..(c + 1) /\ Nth(more, c + 1) = i
    BY <1>2, <1>3 DEF NthGrows
  <2> QED
    BY <1>4, <2>1, <2>2
<1>6. new = Append(old, new[c + 1])
  <2> HIDE DEF old, new
  <2> QED
    BY <1>5, OneMore
<1> QED
  BY <1>5, <1>6 DEF more

LEMMA PiecesGrow ==
  ASSUME NEW s \in Inputs, NEW some, some \subseteq 0..Len(s), NEW i \in 0..Len(s),
         \A k \in some : k < i
  PROVE  PiecesAfter(s, some \cup {i}) = Append(PiecesAfter(s, some), PieceAfter(s, i))
<1> DEFINE more == some \cup {i}
           old == PiecesAfter(s, some)
           new == PiecesAfter(s, more)
<1>0. Len(s) \in Nat
  BY LenProperties DEF Inputs
<1>2. NthGrows(some, more, i)
  BY <1>0, LastIsNth
<1>3. PICK c \in Nat : c = Cardinality(some)
  BY <1>2 DEF NthGrows
<1> HIDE DEF more
<1>4. /\ old = [n \in 1..c |-> PieceAfter(s, Nth(some, n))]
      /\ new = [n \in 1..(c + 1) |-> PieceAfter(s, Nth(more, n))]
  BY <1>2, <1>3 DEF PiecesAfter, NthGrows
<1>5. /\ old = [n \in 1..c |-> old[n]] /\ new = [n \in 1..(c + 1) |-> new[n]]
      /\ \A n \in 1..c : new[n] = old[n]
      /\ new[c + 1] = PieceAfter(s, i)
  <2> HIDE DEF old, new
  <2>1. \A n \in 1..c : n \in 1..(c + 1) /\ Nth(more, n) = Nth(some, n)
    BY <1>2, <1>3 DEF NthGrows
  <2>2. c + 1 \in 1..(c + 1) /\ Nth(more, c + 1) = i
    BY <1>2, <1>3 DEF NthGrows
  <2> QED
    BY <1>4, <2>1, <2>2
<1>6. new = Append(old, new[c + 1])
  <2> HIDE DEF old, new
  <2> QED
    BY <1>5, OneMore
<1> QED
  BY <1>5, <1>6 DEF more

\* There is no text at no positions.
LEMMA NoText ==
  ASSUME NEW s
  PROVE  Text(s, {}) = <<>> /\ PiecesAfter(s, {}) = <<>>
<1>1. Cardinality({}) = 0
  BY FS_EmptySet
<1> QED
  BY <1>1 DEF Text, PiecesAfter

-----------------------------------------------------------------------------
(* Where the splitter stands at a position n, and what it has then.        *)

\* In a construct, in the lexeme that begins at h.
LexingFrom(s, state, h, n) ==
  /\ h \in 1..(n - 1) /\ Begins(s, h)
  /\ state \in {"quote"} \cup Tags =>
       s[h] = state /\ \A k \in (h + 1)..(n - 1) : s[k] # state
  /\ state = "line_comment" =>
       IsLineComment(s, h) /\ \A k \in h..(n - 1) : s[k] # "newline"
  /\ state = "block_comment" =>
       IsBlockComment(s, h) /\ \A k \in Closings(s) : h + 3 <= k => n < k

\* c is the last cut.
CutAt(s, n, c) == c \in Cuts(s) /\ c < n /\ \A d \in Cuts(s) : d < n => d <= c

\* What is kept since then, and the cuts before it with something between them and the next.
KeptSince(s, c, n) == {i \in 1..Len(s) \ Dropped(s) : c < i /\ i < n}

Filled(s, n) == {d \in Cuts(s) : d < n /\ PieceAfter(s, d) # <<>>}

Constructs == {"quote", "line_comment", "block_comment"} \cup Tags

LEMMA CutsArePositions ==
  ASSUME NEW s \in Inputs
  PROVE  /\ Len(s) \in Nat
         /\ Cuts(s) \subseteq 0..(Len(s) + 1) /\ 0 \in Cuts(s) /\ Len(s) + 1 \in Cuts(s)
         /\ \A d \in Cuts(s) : d \in Nat
<1>1. Len(s) \in Nat
  BY LenProperties DEF Inputs
<1> QED
  BY <1>1 DEF Cuts

\* In a lexeme nothing is cut, and only a psql command is dropped.
LEMMA InLexeme ==
  ASSUME NEW s \in Inputs, NEW h \in 1..Len(s), Begins(s, h), NEW n \in h..LexemeEnd(s, h)
  PROVE  /\ n \in 1..Len(s)
         /\ n # h \/ s[n] # "semi" => n \notin Cuts(s)
         /\ n \in Dropped(s) <=> IsMeta(s, h)
<1>0. Len(s) \in Nat
  BY LenProperties DEF Inputs
<1>1. PICK e : e = LexemeEnd(s, h) /\ e \in Nat /\ h <= e /\ e <= Len(s)
  BY <1>0, LexemeEnds
<1>2. n \in 1..Len(s) /\ h <= n /\ n <= e
  BY <1>0, <1>1
<1>3. n # h => ~Begins(s, n)
  <2> SUFFICES ASSUME h < n, Begins(s, n) PROVE FALSE
    BY <1>2
  <2>1. h \in 1..(Len(s) + 1) /\ n \in 1..(Len(s) + 1)
    BY <1>0, <1>2
  <2>2. LexemeEnd(s, h) < n
    BY <2>1, LexemesAreApart
  <2> QED
    BY <1>1, <1>2, <2>2
<1>4. n # h \/ s[n] # "semi" => n \notin Cuts(s)
  BY <1>0, <1>2, <1>3 DEF Cuts
<1>5. IsMeta(s, h) => n \in Dropped(s)
  <2>1. h \in 1..n
    BY <1>0, <1>2
  <2> QED
    BY <1>1, <1>2, <2>1 DEF Dropped
<1>6. n \in Dropped(s) => IsMeta(s, h)
  <2> SUFFICES ASSUME n \in Dropped(s) PROVE IsMeta(s, h)
    OBVIOUS
  <2>1. PICK g \in 1..n : IsMeta(s, g) /\ Begins(s, g) /\ n <= LexemeEnd(s, g)
    BY DEF Dropped
  <2>2. g \in 1..Len(s) /\ g \in 1..(Len(s) + 1) /\ h \in 1..(Len(s) + 1) /\ g <= n
    BY <1>0, <1>2
  <2>3. LexemeEnd(s, g) \in Nat
    BY <1>0, <2>2, LexemeEnds
  <2>4. ~(g < h)
    <3> SUFFICES ASSUME g < h PROVE FALSE
      OBVIOUS
    <3>1. LexemeEnd(s, g) < h
      BY <2>1, <2>2, LexemesAreApart
    <3> QED
      BY <1>2, <2>1, <2>2, <2>3, <3>1
  <2>5. ~(h < g)
    <3> SUFFICES ASSUME h < g PROVE FALSE
      OBVIOUS
    <3>1. LexemeEnd(s, h) < g
      BY <2>1, <2>2, LexemesAreApart
    <3> QED
      BY <1>1, <1>2, <2>2, <3>1
  <2>6. g = h
    BY <2>2, <2>4, <2>5
  <2> QED
    BY <2>1, <2>6
<1> QED
  BY <1>2, <1>4, <1>5, <1>6

\* One position more that is kept.
LEMMA OneKept ==
  ASSUME NEW s \in Inputs, NEW n \in 1..Len(s), NEW c, CutAt(s, n, c),
         n \notin Cuts(s), n \notin Dropped(s)
  PROVE  /\ CutAt(s, n + 1, c)
         /\ Text(s, KeptSince(s, c, n + 1)) = Append(Text(s, KeptSince(s, c, n)), s[n])
<1>0. Len(s) \in Nat /\ n \in Nat /\ c \in Nat /\ c < n /\ \A d \in Cuts(s) : d \in Nat
  BY CutsArePositions DEF CutAt
<1>1. CutAt(s, n + 1, c)
  <2>1. \A d \in Cuts(s) : d < n + 1 => d < n
    BY <1>0
  <2> QED
    BY <1>0, <2>1 DEF CutAt
<1>2. \A i \in 1..Len(s) : i < n + 1 <=> i < n \/ i = n
  BY <1>0
<1>3. KeptSince(s, c, n + 1) = KeptSince(s, c, n) \cup {n}
  BY <1>0, <1>2 DEF KeptSince
<1>4. KeptSince(s, c, n) \subseteq 1..Len(s) /\ \A k \in KeptSince(s, c, n) : k < n
  BY DEF KeptSince
<1> QED
  BY <1>1, <1>3, <1>4, TextGrows

\* Positions that are dropped.
LEMMA LineDropped ==
  ASSUME NEW s \in Inputs, NEW n \in 1..Len(s), NEW e \in n..Len(s), NEW c, CutAt(s, n, c),
         \A k \in n..e : k \notin Cuts(s) /\ k \in Dropped(s)
  PROVE  CutAt(s, e + 1, c) /\ KeptSince(s, c, e + 1) = KeptSince(s, c, n)
<1>0. /\ Len(s) \in Nat /\ n \in Nat /\ e \in Nat /\ n <= e
      /\ c \in Nat /\ c < n /\ \A d \in Cuts(s) : d \in Nat
  BY CutsArePositions DEF CutAt
<1>1. CutAt(s, e + 1, c)
  <2>1. \A d \in Cuts(s) : d < e + 1 => d < n
    BY <1>0
  <2>2. c < e + 1
    BY <1>0
  <2> QED
    BY <1>0, <2>1, <2>2 DEF CutAt
<1>2. \A i \in 1..Len(s) \ Dropped(s) : i < e + 1 <=> i < n
  BY <1>0
<1> QED
  BY <1>1, <1>2 DEF KeptSince

\* The next cut.
LEMMA NextCut ==
  ASSUME NEW s \in Inputs, NEW n \in 1..(Len(s) + 1), NEW c, CutAt(s, n, c), n \in Cuts(s)
  PROVE  /\ CutAt(s, n + 1, n) /\ KeptSince(s, n, n + 1) = {}
         /\ PieceAfter(s, c) = Trim(Text(s, KeptSince(s, c, n)))
         /\ PieceAfter(s, c) = <<>> => PiecesAfter(s, Filled(s, n)) = PiecesAfter(s, Filled(s, c))
         /\ PieceAfter(s, c) # <<>> =>
              PiecesAfter(s, Filled(s, n)) = Append(PiecesAfter(s, Filled(s, c)), PieceAfter(s, c))
<1>0. /\ Len(s) \in Nat /\ n \in Nat /\ n <= Len(s) + 1
      /\ c \in Cuts(s) /\ c \in Nat /\ c < n /\ \A d \in Cuts(s) : d \in Nat
      /\ \A d \in Cuts(s) : d < n => d <= c
  BY CutsArePositions DEF CutAt
<1>1. CutAt(s, n + 1, n)
  <2>1. n < n + 1 /\ \A d \in Cuts(s) : d < n + 1 => d <= n
    BY <1>0
  <2> QED
    BY <2>1 DEF CutAt
<1>2. KeptSince(s, n, n + 1) = {}
  <2>1. \A i \in 1..Len(s) : ~(n < i /\ i < n + 1)
    BY <1>0
  <2> QED
    BY <2>1 DEF KeptSince
<1>3. PieceAfter(s, c) = Trim(Text(s, KeptSince(s, c, n)))
  <2> DEFINE upTo == {i \in 1..Len(s) \ Dropped(s) : c < i /\ \A d \in Cuts(s) : d > c => i < d}
  <2>1. ASSUME NEW i \in 1..Len(s), c < i
        PROVE  (\A d \in Cuts(s) : d > c => i < d) <=> i < n
    BY <1>0
  <2>2. upTo = KeptSince(s, c, n)
    BY <2>1 DEF KeptSince
  <2> QED
    BY <2>2 DEF PieceAfter
<1>4. \A d \in Cuts(s) : d < n <=> d < c \/ d = c
  BY <1>0
<1>5. CASE PieceAfter(s, c) = <<>>
  <2>1. Filled(s, n) = Filled(s, c)
    BY <1>4, <1>5 DEF Filled
  <2> QED
    BY <1>1, <1>2, <1>3, <1>5, <2>1
<1>6. CASE PieceAfter(s, c) # <<>>
  <2>1. Filled(s, n) = Filled(s, c) \cup {c}
    BY <1>0, <1>4, <1>6 DEF Filled
  <2>2. c \in 0..Len(s) /\ \A d \in Filled(s, c) : d < c
    BY <1>0 DEF Filled
  <2>3. Filled(s, c) \subseteq 0..Len(s)
    <3>1. \A d \in Filled(s, c) : d \in Nat /\ d < c
      BY <1>0 DEF Filled
    <3>2. \A d \in Nat : d < c => d \in 0..Len(s)
      BY <1>0
    <3> QED
      BY <3>1, <3>2
  <2>4. PiecesAfter(s, Filled(s, n)) = Append(PiecesAfter(s, Filled(s, c)), PieceAfter(s, c))
    BY <2>1, <2>2, <2>3, PiecesGrow
  <2> QED
    BY <1>1, <1>2, <1>3, <1>6, <2>4
<1> QED
  BY <1>5, <1>6

\* A construct that goes on at n.
LEMMA ConstructGoesOn ==
  ASSUME NEW s \in Inputs, NEW state \in Constructs, NEW n \in 1..Len(s), NEW h,
         LexingFrom(s, state, h, n)
  PROVE  /\ h \in 1..Len(s) /\ Begins(s, h) /\ n \in h..LexemeEnd(s, h)
         /\ n \notin Cuts(s) /\ n \notin Dropped(s)
<1>0. Len(s) \in Nat /\ n \in Nat /\ h \in 1..Len(s) /\ h \in Nat /\ h < n /\ h <= n /\ Begins(s, h)
  <2>1. Len(s) \in Nat
    BY LenProperties DEF Inputs
  <2> QED
    BY <2>1 DEF LexingFrom
<1> DEFINE same == {k \in 1..Len(s) : s[k] = s[h]}
<1>1. /\ ~IsMeta(s, h)
      /\ \/ state \in {"quote"} \cup Tags /\ LexemeEnd(s, h) = FirstFrom(s, h + 1, same)
         \/ state = "line_comment" /\ LexemeEnd(s, h) = FirstFrom(s, h, Newlines(s))
         \/ state = "block_comment" /\ LexemeEnd(s, h) = FirstFrom(s, h + 3, Closings(s))
  BY DEF LexingFrom, Constructs, Tags, LexemeEnd, IsQuoted, IsLineComment, IsBlockComment, IsMeta, IsPair
<1>2. LexemeEnd(s, h) \in Nat
  BY <1>0, LexemeEnds
<1>3. n <= LexemeEnd(s, h)
  <2>0. n <= Len(s)
    BY <1>0
  <2>1. CASE state \in {"quote"} \cup Tags /\ LexemeEnd(s, h) = FirstFrom(s, h + 1, same)
    <3>1. \A k \in same : h + 1 <= k => n <= k
      BY <1>0, <2>1 DEF LexingFrom
    <3>2. h + 1 \in Nat /\ same \subseteq 1..Len(s)
      BY <1>0
    <3> QED
      BY <1>0, <2>0, <2>1, <3>1, <3>2, FirstFound
  <2>2. CASE state = "line_comment" /\ LexemeEnd(s, h) = FirstFrom(s, h, Newlines(s))
    <3>1. \A k \in Newlines(s) : h <= k => n <= k
      BY <1>0, <2>2 DEF LexingFrom, Newlines
    <3>2. Newlines(s) \subseteq 1..Len(s)
      BY DEF Newlines
    <3> QED
      BY <1>0, <2>0, <2>2, <3>1, <3>2, FirstFound
  <2>3. CASE state = "block_comment" /\ LexemeEnd(s, h) = FirstFrom(s, h + 3, Closings(s))
    <3>0. \A k \in Closings(s) : k \in 1..Len(s) /\ k \in Nat
      BY <1>0 DEF Closings
    <3>1. \A k \in Closings(s) : h + 3 <= k => n <= k
      BY <1>0, <2>3, <3>0 DEF LexingFrom
    <3>2. h + 3 \in Nat /\ Closings(s) \subseteq 1..Len(s)
      BY <1>0, <3>0
    <3> QED
      BY <1>0, <2>0, <2>3, <3>1, <3>2, FirstFound
  <2> QED
    BY <1>1, <2>1, <2>2, <2>3
<1>4. n \in h..LexemeEnd(s, h) /\ n # h
  BY <1>0, <1>2, <1>3
<1>5. n \notin Cuts(s) /\ (n \in Dropped(s) <=> IsMeta(s, h))
  BY <1>0, <1>4, InLexeme
<1> QED
  BY <1>0, <1>1, <1>4, <1>5

\* The end of a string, of a dollar quote and of a line comment.
LEMMA ConstructEnds ==
  ASSUME NEW s \in Inputs, NEW state \in Constructs, NEW n \in 1..Len(s), NEW h,
         LexingFrom(s, state, h, n),
         \/ state \in {"quote"} \cup Tags /\ s[n] = state
         \/ state = "line_comment" /\ s[n] = "newline"
  PROVE  LexemeEnd(s, h) = n /\ Begins(s, n + 1)
<1>0. Len(s) \in Nat /\ n \in Nat /\ h \in 1..Len(s) /\ h \in Nat /\ h < n /\ Begins(s, h)
  <2>1. Len(s) \in Nat
    BY LenProperties DEF Inputs
  <2> QED
    BY <2>1 DEF LexingFrom
<1>1. LexemeEnd(s, h) = n
  <2>1. CASE state \in {"quote"} \cup Tags /\ s[n] = state
    <3> DEFINE same == {k \in 1..Len(s) : s[k] = s[h]}
    <3>1. LexemeEnd(s, h) = FirstFrom(s, h + 1, same) /\ s[h] = state
      BY <2>1 DEF LexingFrom, Tags, LexemeEnd, IsQuoted, IsLineComment, IsBlockComment, IsMeta, IsPair
    <3>2. n \in same /\ h + 1 <= n /\ h + 1 \in Nat /\ same \subseteq 1..Len(s)
      BY <1>0, <2>1, <3>1
    <3>3. \A m \in same : h + 1 <= m => n <= m
      BY <1>0, <2>1, <3>1 DEF LexingFrom
    <3> HIDE DEF same
    <3> QED
      BY <3>1, <3>2, <3>3, FirstFound
  <2>2. CASE state = "line_comment" /\ s[n] = "newline"
    <3>1. LexemeEnd(s, h) = FirstFrom(s, h, Newlines(s))
      BY <2>2 DEF LexingFrom, Tags, LexemeEnd, IsQuoted, IsLineComment, IsBlockComment, IsMeta, IsPair
    <3>2. n \in Newlines(s) /\ h <= n /\ Newlines(s) \subseteq 1..Len(s)
      BY <1>0, <2>2 DEF Newlines
    <3>3. \A m \in Newlines(s) : h <= m => n <= m
      BY <1>0, <2>2 DEF LexingFrom, Newlines
    <3> QED
      BY <1>0, <3>1, <3>2, <3>3, FirstFound
  <2> QED
    BY <2>1, <2>2
<1> QED
  BY <1>0, <1>1, NextBegins

\* The end of a block comment.
LEMMA CommentEnds ==
  ASSUME NEW s \in Inputs, ~HasOddComment(s), NEW n \in 1..Len(s), NEW h,
         LexingFrom(s, "block_comment", h, n), IsPair(s, n, "star", "slash")
  PROVE  /\ h \in 1..Len(s) /\ Begins(s, h) /\ n + 1 \in h..LexemeEnd(s, h)
         /\ n + 1 \notin Cuts(s) /\ n + 1 \notin Dropped(s)
         /\ Begins(s, n + 2)
<1>0. Len(s) \in Nat /\ n \in Nat /\ h \in 1..Len(s) /\ h \in Nat /\ h < n /\ Begins(s, h)
  <2>1. Len(s) \in Nat
    BY LenProperties DEF Inputs
  <2> QED
    BY <2>1 DEF LexingFrom
<1>1. n + 1 \in Closings(s)
  <2>1. n < Len(s) /\ (n + 1) - 1 = n
    BY <1>0 DEF IsPair
  <2>2. n + 1 \in 2..Len(s)
    BY <1>0, <2>1
  <2> QED
    BY <2>1, <2>2 DEF Closings
<1>2. IsBlockComment(s, h)
  BY DEF LexingFrom
<1>3. n # h + 1
  BY <1>0, <1>2 DEF HasOddComment
<1>4. h + 3 <= n + 1 /\ h + 3 \in Nat
  BY <1>0, <1>3
<1>5. \A k \in Closings(s) : k \in 1..Len(s) /\ k \in Nat
  BY <1>0 DEF Closings
<1>6. \A k \in Closings(s) : h + 3 <= k => n + 1 <= k
  BY <1>0, <1>5 DEF LexingFrom
<1>7. Closings(s) \subseteq 1..Len(s)
  BY <1>5
<1>8. LexemeEnd(s, h) = FirstFrom(s, h + 3, Closings(s))
  BY <1>2 DEF LexemeEnd, IsQuoted, IsLineComment, IsBlockComment, IsMeta, IsPair, Tags
<1>9. LexemeEnd(s, h) = n + 1
  BY <1>1, <1>4, <1>6, <1>7, <1>8, FirstFound
<1>10. Begins(s, (n + 1) + 1)
  BY <1>0, <1>9, NextBegins
<1>11. n + 1 \in h..LexemeEnd(s, h) /\ n + 1 # h /\ (n + 1) + 1 = n + 2
  BY <1>0, <1>9
<1>12. ~IsMeta(s, h)
  BY <1>2 DEF IsBlockComment, IsMeta, IsPair
<1>13. n + 1 \notin Cuts(s) /\ n + 1 \notin Dropped(s)
  BY <1>0, <1>11, <1>12, InLexeme
<1> QED
  BY <1>0, <1>10, <1>11, <1>13

\* A construct that does not end at n.
LEMMA ConstructStays ==
  ASSUME NEW s \in Inputs, NEW state \in Constructs, NEW n \in 1..Len(s), NEW h,
         LexingFrom(s, state, h, n),
         state \in {"quote"} \cup Tags => s[n] # state,
         state = "line_comment" => s[n] # "newline",
         state = "block_comment" => ~IsPair(s, n, "star", "slash")
  PROVE  LexingFrom(s, state, h, n + 1)
<1>0. /\ Len(s) \in Nat /\ n \in Nat /\ n <= Len(s) /\ h \in Nat /\ h < n /\ Begins(s, h)
      /\ h \in 1..((n + 1) - 1) /\ (n + 1) - 1 = n
  <2>1. Len(s) \in Nat
    BY LenProperties DEF Inputs
  <2> QED
    BY <2>1 DEF LexingFrom
<1>1. ASSUME state \in {"quote"} \cup Tags
      PROVE  s[h] = state /\ \A k \in (h + 1)..n : s[k] # state
  <2>1. s[h] = state /\ \A k \in (h + 1)..(n - 1) : s[k] # state
    BY <1>1 DEF LexingFrom
  <2>2. \A k \in (h + 1)..n : k = n \/ k \in (h + 1)..(n - 1)
    BY <1>0
  <2> QED
    BY <1>1, <2>1, <2>2
<1>2. ASSUME state = "line_comment"
      PROVE  IsLineComment(s, h) /\ \A k \in h..n : s[k] # "newline"
  <2>1. IsLineComment(s, h) /\ \A k \in h..(n - 1) : s[k] # "newline"
    BY <1>2 DEF LexingFrom
  <2>2. \A k \in h..n : k = n \/ k \in h..(n - 1)
    BY <1>0
  <2> QED
    BY <1>2, <2>1, <2>2
<1>3. ASSUME state = "block_comment"
      PROVE  IsBlockComment(s, h) /\ \A k \in Closings(s) : h + 3 <= k => n + 1 < k
  <2>1. IsBlockComment(s, h) /\ \A k \in Closings(s) : h + 3 <= k => n < k
    BY <1>3 DEF LexingFrom
  <2>2. n + 1 \notin Closings(s)
    BY <1>0, <1>3 DEF Closings
  <2>3. \A k \in Closings(s) : k \in Nat /\ k # n + 1
    BY <1>0, <2>2 DEF Closings
  <2> QED
    BY <1>0, <2>1, <2>3
<1> QED
  BY <1>0, <1>1, <1>2, <1>3 DEF LexingFrom

-----------------------------------------------------------------------------
(* The splitter's states.                                                  *)

\* A lexeme begins where the splitter stands, or it is in one.
PlaceAt(s, state, n) ==
  /\ state = "default" => Begins(s, n)
  /\ state \in Constructs => \E h : LexingFrom(s, state, h, n)

\* It has what stands after the last cut, and the pieces before it.
TextAt(s, n, text, pieces) ==
  \E c : /\ CutAt(s, n, c)
         /\ text = Text(s, KeptSince(s, c, n))
         /\ pieces = PiecesAfter(s, Filled(s, c))

SplitTypes ==
  /\ sql \in Inputs
  /\ at \in 1..(Len(sql) + 1)
  /\ lexing \in {"default", "done"} \cup Constructs
  /\ current \in Seq(Symbols)

PlaceInv == lexing # "done" /\ ~HasOddComment(sql) => PlaceAt(sql, lexing, at)

TextInv == lexing # "done" /\ ~HasOddComment(sql) => TextAt(sql, at, current, statements)

\* The invariant: without odd comments, the splitter stands where PostgreSQL's lexemes
\* say and has what stands between their cuts; at the end that is the pieces.
SplitInv == SplitTypes /\ PlaceInv /\ TextInv /\ SplitsLikePostgres

LEMMA KeepOne ==
  ASSUME NEW s \in Inputs, NEW n \in 1..Len(s), NEW text, NEW pieces, TextAt(s, n, text, pieces),
         n \notin Cuts(s), n \notin Dropped(s)
  PROVE  TextAt(s, n + 1, Append(text, s[n]), pieces)
<1>1. PICK c : /\ CutAt(s, n, c)
               /\ text = Text(s, KeptSince(s, c, n))
               /\ pieces = PiecesAfter(s, Filled(s, c))
  BY DEF TextAt
<1>2. CutAt(s, n + 1, c) /\ Text(s, KeptSince(s, c, n + 1)) = Append(text, s[n])
  BY <1>1, OneKept
<1> QED
  BY <1>1, <1>2 DEF TextAt

\* One element of a sequence, and two.
LEMMA OneTaken ==
  ASSUME NEW S, NEW s \in Seq(S), NEW n \in 1..Len(s)
  PROVE  SubSeq(s, n, n) = <<s[n]>>
<1>0. Len(s) \in Nat /\ n \in Nat
  BY LenProperties
<1> DEFINE one == SubSeq(s, n, n)
           single == <<s[n]>>
<1>1. one \in Seq(S) /\ Len(one) = 1 /\ one[1] = s[n]
  BY <1>0
<1>2. single \in Seq(S) /\ Len(single) = 1 /\ single[1] = s[n]
  BY <1>0
<1>3. \A i \in 1..1 : i = 1
  OBVIOUS
<1> HIDE DEF one, single
<1>4. \A i \in 1..Len(one) : one[i] = single[i]
  BY <1>1, <1>2, <1>3
<1>5. one = single
  BY <1>1, <1>2, <1>4, SeqEqual
<1> QED
  BY <1>5 DEF one, single

LEMMA TwoTaken ==
  ASSUME NEW S, NEW s \in Seq(S), NEW n \in 1..Len(s), n < Len(s)
  PROVE  SubSeq(s, n, n + 1) = <<s[n], s[n + 1]>>
<1>0. Len(s) \in Nat /\ n \in Nat /\ s[n] \in S /\ s[n + 1] \in S
  BY LenProperties
<1> DEFINE two == SubSeq(s, n, n + 1)
           pair == <<s[n], s[n + 1]>>
<1>1. two \in Seq(S) /\ Len(two) = 2 /\ two[1] = s[n] /\ two[2] = s[n + 1]
  BY <1>0
<1>2. pair \in Seq(S) /\ Len(pair) = 2 /\ pair[1] = s[n] /\ pair[2] = s[n + 1]
  BY <1>0
<1>3. \A i \in 1..2 : i = 1 \/ i = 2
  OBVIOUS
<1> HIDE DEF two, pair
<1>4. \A i \in 1..Len(two) : two[i] = pair[i]
  BY <1>1, <1>2, <1>3
<1>5. two = pair
  BY <1>1, <1>2, <1>4, SeqEqual
<1> QED
  BY <1>5 DEF two, pair

\* What a turn of the loop takes.
LEMMA TakeOne ==
  ASSUME SplitTypes, at <= Len(sql), NEW state, Take(1, state)
  PROVE  /\ at \in 1..Len(sql) /\ sql[at] \in Symbols /\ Len(sql) \in Nat
         /\ sql' = sql /\ at' = at + 1 /\ lexing' = state /\ statements' = statements
         /\ current' = Append(current, sql[at]) /\ current' \in Seq(Symbols)
<1>1. Len(sql) \in Nat /\ at \in 1..Len(sql) /\ sql[at] \in Symbols /\ at + (1 - 1) = at
  BY LenProperties DEF SplitTypes, Inputs
<1>2. SubSeq(sql, at, at) = <<sql[at]>>
  BY <1>1, OneTaken DEF SplitTypes, Inputs
<1>3. current' = current \o <<sql[at]>>
  <2>1. current' = current \o SubSeq(sql, at, at + (1 - 1))
    BY DEF Take
  <2> QED
    BY <1>1, <1>2, <2>1, Zenon
<1>4. current' = Append(current, sql[at]) /\ current' \in Seq(Symbols)
  BY <1>1, <1>3, AppendIsConcat, AppendProperties DEF SplitTypes
<1> QED
  BY <1>1, <1>4 DEF Take

LEMMA TakeTwo ==
  ASSUME SplitTypes, at < Len(sql), NEW state, Take(2, state)
  PROVE  /\ at \in 1..Len(sql) /\ at + 1 \in 1..Len(sql) /\ Len(sql) \in Nat
         /\ sql' = sql /\ at' = at + 2 /\ lexing' = state /\ statements' = statements
         /\ current' = Append(Append(current, sql[at]), sql[at + 1]) /\ current' \in Seq(Symbols)
<1>1. /\ Len(sql) \in Nat /\ at \in 1..Len(sql) /\ at + 1 \in 1..Len(sql)
      /\ sql[at] \in Symbols /\ sql[at + 1] \in Symbols /\ at + (2 - 1) = at + 1
  BY LenProperties DEF SplitTypes, Inputs
<1>2. SubSeq(sql, at, at + 1) = <<sql[at], sql[at + 1]>>
  BY <1>1, TwoTaken DEF SplitTypes, Inputs
<1>3. current' = current \o <<sql[at], sql[at + 1]>>
  <2>1. current' = current \o SubSeq(sql, at, at + (2 - 1))
    BY DEF Take
  <2> QED
    BY <1>1, <1>2, <2>1, Zenon
<1>4. PICK x \in Symbols, y \in Symbols : x = sql[at] /\ y = sql[at + 1]
  BY <1>1
<1>5. current \o <<x, y>> = Append(Append(current, x), y)
  BY DEF SplitTypes
<1>6. Append(Append(current, x), y) \in Seq(Symbols)
  BY AppendProperties DEF SplitTypes
<1> QED
  BY <1>1, <1>3, <1>4, <1>5, <1>6 DEF Take

\* A turn that takes one symbol, and one that takes two.
LEMMA StepOne ==
  ASSUME SplitInv, at <= Len(sql), lexing # "done",
         NEW state \in {"default"} \cup Constructs, Take(1, state),
         ~HasOddComment(sql) => at \notin Cuts(sql) /\ at \notin Dropped(sql),
         ~HasOddComment(sql) => PlaceAt(sql, state, at + 1)
  PROVE  SplitInv'
<1>1. /\ at \in 1..Len(sql) /\ Len(sql) \in Nat
      /\ sql' = sql /\ at' = at + 1 /\ lexing' = state /\ statements' = statements
      /\ current' = Append(current, sql[at]) /\ current' \in Seq(Symbols)
  BY TakeOne DEF SplitInv
<1>2. state # "done"
  BY DEF Constructs, Tags
<1>3. SplitTypes'
  BY <1>1 DEF SplitInv, SplitTypes
<1>4. PlaceInv'
  BY <1>1 DEF PlaceInv
<1>5. ~HasOddComment(sql) => TextAt(sql, at + 1, Append(current, sql[at]), statements)
  BY <1>1, KeepOne DEF SplitInv, SplitTypes, TextInv
<1>6. TextInv'
  BY <1>1, <1>5 DEF TextInv
<1>7. SplitsLikePostgres'
  BY <1>1, <1>2 DEF SplitsLikePostgres
<1> QED
  BY <1>3, <1>4, <1>6, <1>7 DEF SplitInv

LEMMA StepTwo ==
  ASSUME SplitInv, at < Len(sql), lexing # "done",
         NEW state \in {"default"} \cup Constructs, Take(2, state),
         ~HasOddComment(sql) => at \notin Cuts(sql) /\ at \notin Dropped(sql),
         ~HasOddComment(sql) => at + 1 \notin Cuts(sql) /\ at + 1 \notin Dropped(sql),
         ~HasOddComment(sql) => PlaceAt(sql, state, at + 2)
  PROVE  SplitInv'
<1>1. /\ at \in 1..Len(sql) /\ at + 1 \in 1..Len(sql) /\ Len(sql) \in Nat
      /\ sql' = sql /\ at' = at + 2 /\ lexing' = state /\ statements' = statements
      /\ current' = Append(Append(current, sql[at]), sql[at + 1]) /\ current' \in Seq(Symbols)
  BY TakeTwo DEF SplitInv
<1>2. state # "done"
  BY DEF Constructs, Tags
<1>3. SplitTypes'
  BY <1>1 DEF SplitInv, SplitTypes
<1>4. PlaceInv'
  BY <1>1 DEF PlaceInv
<1>5. ASSUME ~HasOddComment(sql)
      PROVE  TextAt(sql, at + 2, Append(Append(current, sql[at]), sql[at + 1]), statements)
  <2>1. sql \in Inputs /\ TextAt(sql, at, current, statements)
    BY <1>5 DEF SplitInv, SplitTypes, TextInv
  <2>2. TextAt(sql, at + 1, Append(current, sql[at]), statements)
    BY <1>1, <1>5, <2>1, KeepOne
  <2>3. TextAt(sql, (at + 1) + 1, Append(Append(current, sql[at]), sql[at + 1]), statements)
    BY <1>1, <1>5, <2>1, <2>2, KeepOne
  <2>4. (at + 1) + 1 = at + 2
    BY <1>1
  <2> QED
    BY <2>3, <2>4
<1>6. TextInv'
  BY <1>1, <1>5 DEF TextInv
<1>7. SplitsLikePostgres'
  BY <1>1, <1>2 DEF SplitsLikePostgres
<1> QED
  BY <1>3, <1>4, <1>6, <1>7 DEF SplitInv

\* What the splitter sees of the input is what PostgreSQL sees.
LEMMA SeesTheInput ==
  ASSUME SplitTypes, at <= Len(sql)
  PROVE  /\ Len(sql) \in Nat /\ at \in 1..Len(sql) /\ at \in 1..(Len(sql) + 1) /\ Ch(at) = sql[at]
         /\ \A first, second : first # "none" /\ second # "none"
              => (Pair(first, second) <=> IsPair(sql, at, first, second))
<1>1. Len(sql) \in Nat /\ at \in 1..Len(sql)
  BY LenProperties DEF SplitTypes, Inputs
<1>2. Ch(at) = sql[at]
  BY <1>1 DEF Ch
<1>3. CASE at < Len(sql)
  BY <1>1, <1>2, <1>3 DEF Ch, Pair, IsPair
<1>4. CASE at = Len(sql)
  BY <1>1, <1>2, <1>4 DEF Ch, Pair, IsPair
<1> QED
  BY <1>1, <1>2, <1>3, <1>4

\* In default, a lexeme begins that is not a semicolon and no psql command.
LEMMA BeginsKept ==
  ASSUME NEW s \in Inputs, NEW n \in 1..Len(s), Begins(s, n), s[n] # "semi", ~IsMeta(s, n)
  PROVE  n \notin Cuts(s) /\ n \notin Dropped(s)
<1>1. n \in n..LexemeEnd(s, n)
  <2>1. n \in Nat /\ LexemeEnd(s, n) \in Nat /\ n <= LexemeEnd(s, n)
    <3>1. Len(s) \in Nat
      BY LenProperties DEF Inputs
    <3> QED
      BY <3>1, LexemeEnds
  <2> QED
    BY <2>1
<1> QED
  BY <1>1, InLexeme

-----------------------------------------------------------------------------
(* Each step.                                                              *)

LEMMA OpenCommentKeeps ==
  ASSUME SplitInv, OpenComment
  PROVE  SplitInv'
<1>1. /\ SplitTypes /\ at <= Len(sql) /\ lexing = "default" /\ OpensComment
      /\ ~HasOddComment(sql) => Begins(sql, at)
  BY DEF SplitInv, OpenComment, In, PlaceInv, PlaceAt
<1>2. /\ Len(sql) \in Nat /\ at \in 1..Len(sql) /\ Ch(at) = sql[at]
      /\ IsLineComment(sql, at) \/ IsBlockComment(sql, at)
  BY <1>1, SeesTheInput DEF OpensComment, IsLineComment, IsBlockComment
<1>3. PICK state : state = IF sql[at] = "dash" THEN "line_comment" ELSE "block_comment"
  OBVIOUS
<1>4. Take(1, state) /\ state \in Constructs
  BY <1>2, <1>3 DEF OpenComment, Constructs
<1>5. ASSUME ~HasOddComment(sql)
      PROVE  at \notin Cuts(sql) /\ at \notin Dropped(sql) /\ PlaceAt(sql, state, at + 1)
  <2>1. sql[at] # "semi" /\ ~IsMeta(sql, at) /\ sql[at] # "newline"
    BY <1>2 DEF IsLineComment, IsBlockComment, IsPair, IsMeta
  <2>2. \A k \in at..((at + 1) - 1) : k = at
    BY <1>2
  <2>3. \A k \in Closings(sql) : at + 3 <= k => at + 1 < k
    BY <1>2 DEF Closings
  <2>4. at \in 1..((at + 1) - 1)
    BY <1>2
  <2>5. /\ state \notin {"quote"} \cup Tags /\ state # "default"
        /\ state = "line_comment" => IsLineComment(sql, at)
        /\ state = "block_comment" => IsBlockComment(sql, at)
    BY <1>2, <1>3 DEF IsLineComment, IsBlockComment, IsPair, Tags
  <2>6. LexingFrom(sql, state, at, at + 1)
    BY <1>1, <1>5, <2>1, <2>2, <2>3, <2>4, <2>5 DEF LexingFrom
  <2>7. at \notin Cuts(sql) /\ at \notin Dropped(sql)
    BY <1>1, <1>2, <1>5, <2>1, BeginsKept DEF SplitTypes
  <2> QED
    BY <2>5, <2>6, <2>7 DEF PlaceAt
<1> QED
  BY <1>1, <1>4, <1>5, StepOne

LEMMA OpenQuoteKeeps ==
  ASSUME SplitInv, OpenQuote
  PROVE  SplitInv'
<1>1. /\ SplitTypes /\ at <= Len(sql) /\ lexing = "default"
      /\ ~HasOddComment(sql) => Begins(sql, at)
  BY DEF SplitInv, OpenQuote, In, PlaceInv, PlaceAt
<1>2. Len(sql) \in Nat /\ at \in 1..Len(sql) /\ Ch(at) = sql[at]
  BY <1>1, SeesTheInput
<1>3. PICK state \in {"quote"} \cup Tags : state = sql[at]
  BY <1>2 DEF OpenQuote
<1>4. Take(1, state) /\ state \in Constructs
  BY <1>2, <1>3 DEF OpenQuote, Constructs
<1>5. ASSUME ~HasOddComment(sql)
      PROVE  at \notin Cuts(sql) /\ at \notin Dropped(sql) /\ PlaceAt(sql, state, at + 1)
  <2>1. sql[at] # "semi" /\ ~IsMeta(sql, at)
    BY <1>3 DEF IsMeta, Tags
  <2>2. at \in 1..((at + 1) - 1) /\ \A k \in (at + 1)..((at + 1) - 1) : FALSE
    BY <1>2
  <2>3. state \notin {"default", "line_comment", "block_comment"}
    BY DEF Tags
  <2>4. LexingFrom(sql, state, at, at + 1)
    BY <1>1, <1>3, <1>5, <2>2, <2>3 DEF LexingFrom
  <2>5. at \notin Cuts(sql) /\ at \notin Dropped(sql)
    BY <1>1, <1>2, <1>5, <2>1, BeginsKept DEF SplitTypes
  <2> QED
    BY <2>3, <2>4, <2>5 DEF PlaceAt
<1> QED
  BY <1>1, <1>4, <1>5, StepOne

LEMMA EndStatementKeeps ==
  ASSUME SplitInv, EndStatement
  PROVE  SplitInv'
<1>1. /\ SplitTypes /\ at <= Len(sql) /\ lexing = "default"
      /\ ~HasOddComment(sql) => Begins(sql, at) /\ TextAt(sql, at, current, statements)
  BY DEF SplitInv, EndStatement, In, PlaceInv, PlaceAt, TextInv
<1>2. /\ Len(sql) \in Nat /\ at \in 1..Len(sql) /\ at \in 1..(Len(sql) + 1) /\ sql[at] = "semi"
      /\ sql \in Inputs
  BY <1>1, SeesTheInput DEF EndStatement, SplitTypes
<1>3. /\ sql' = sql /\ lexing' = "default" /\ at' = at + 1 /\ current' = <<>>
      /\ statements' = IF Trim(current) = <<>> THEN statements ELSE Append(statements, Trim(current))
  BY <1>1 DEF EndStatement, Push
<1>4. SplitTypes'
  BY <1>2, <1>3 DEF SplitTypes
<1>5. PlaceInv'
  <2>1. LexemeEnd(sql, at) = at
    BY <1>2 DEF LexemeEnd, IsQuoted, IsLineComment, IsBlockComment, IsMeta, IsPair, Tags
  <2>2. ~HasOddComment(sql) => Begins(sql, at + 1)
    BY <1>1, <1>2, <2>1, NextBegins
  <2>3. "default" \notin Constructs
    BY DEF Constructs, Tags
  <2> QED
    BY <1>3, <2>2, <2>3 DEF PlaceInv, PlaceAt
<1>6. ASSUME ~HasOddComment(sql)
      PROVE  TextAt(sql, at + 1, <<>>, statements')
  <2>1. PICK c : /\ CutAt(sql, at, c)
                 /\ current = Text(sql, KeptSince(sql, c, at))
                 /\ statements = PiecesAfter(sql, Filled(sql, c))
    BY <1>1, <1>6 DEF TextAt
  <2>2. at \in Cuts(sql)
    BY <1>1, <1>2, <1>6 DEF Cuts
  <2>3. /\ CutAt(sql, at + 1, at) /\ KeptSince(sql, at, at + 1) = {}
        /\ PieceAfter(sql, c) = Trim(current)
        /\ PieceAfter(sql, c) = <<>> => PiecesAfter(sql, Filled(sql, at)) = statements
        /\ PieceAfter(sql, c) # <<>> =>
             PiecesAfter(sql, Filled(sql, at)) = Append(statements, PieceAfter(sql, c))
    BY <1>2, <2>1, <2>2, NextCut
  <2>4. statements' = PiecesAfter(sql, Filled(sql, at))
    BY <1>3, <2>3
  <2>5. Text(sql, {}) = <<>>
    BY NoText
  <2> QED
    BY <2>3, <2>4, <2>5 DEF TextAt
<1>7. TextInv'
  BY <1>3, <1>6 DEF TextInv
<1>8. SplitsLikePostgres'
  BY <1>3 DEF SplitsLikePostgres
<1> QED
  BY <1>4, <1>5, <1>7, <1>8 DEF SplitInv

LEMMA DropMetaKeeps ==
  ASSUME SplitInv, DropMeta
  PROVE  SplitInv'
<1>1. /\ SplitTypes /\ at <= Len(sql) /\ lexing = "default" /\ Meta
      /\ ~HasOddComment(sql) => Begins(sql, at) /\ TextAt(sql, at, current, statements)
  BY DEF SplitInv, DropMeta, In, PlaceInv, PlaceAt, TextInv
<1>2. /\ Len(sql) \in Nat /\ at \in 1..Len(sql) /\ IsMeta(sql, at) /\ sql[at] = "back"
      /\ sql \in Inputs
  BY <1>1, SeesTheInput DEF Meta, IsMeta, SplitTypes
<1>3. LexemeEnd(sql, at) = FirstFrom(sql, at, Newlines(sql))
  BY <1>2 DEF LexemeEnd, IsQuoted, IsLineComment, IsBlockComment, IsMeta, IsPair, Tags
<1>4. PICK e : e = LexemeEnd(sql, at) /\ e \in at..Len(sql)
  BY <1>2, LexemeEnds
<1>5. /\ sql' = sql /\ lexing' = "default" /\ at' = e + 1 /\ current' = current
      /\ statements' = statements
  BY <1>1, <1>3, <1>4 DEF DropMeta
<1>6. SplitTypes'
  BY <1>1, <1>2, <1>4, <1>5 DEF SplitTypes
<1>7. PlaceInv'
  <2>1. ~HasOddComment(sql) => Begins(sql, e + 1)
    BY <1>1, <1>2, <1>4, NextBegins
  <2>2. "default" \notin Constructs
    BY DEF Constructs, Tags
  <2> QED
    BY <1>5, <2>1, <2>2 DEF PlaceInv, PlaceAt
<1>8. ASSUME ~HasOddComment(sql)
      PROVE  TextAt(sql, e + 1, current, statements)
  <2>1. PICK c : /\ CutAt(sql, at, c)
                 /\ current = Text(sql, KeptSince(sql, c, at))
                 /\ statements = PiecesAfter(sql, Filled(sql, c))
    BY <1>1, <1>8 DEF TextAt
  <2>2. \A k \in at..e : k \notin Cuts(sql) /\ k \in Dropped(sql)
    BY <1>1, <1>2, <1>4, <1>8, InLexeme
  <2>3. CutAt(sql, e + 1, c) /\ KeptSince(sql, c, e + 1) = KeptSince(sql, c, at)
    BY <1>2, <1>4, <2>1, <2>2, LineDropped
  <2> QED
    BY <2>1, <2>3 DEF TextAt
<1>9. TextInv'
  BY <1>5, <1>8 DEF TextInv
<1>10. SplitsLikePostgres'
  BY <1>5 DEF SplitsLikePostgres
<1> QED
  BY <1>6, <1>7, <1>9, <1>10 DEF SplitInv

LEMMA PlainKeeps ==
  ASSUME SplitInv, Plain
  PROVE  SplitInv'
<1>1. /\ SplitTypes /\ at <= Len(sql) /\ lexing = "default" /\ Take(1, "default")
      /\ ~HasOddComment(sql) => Begins(sql, at)
  BY DEF SplitInv, Plain, In, PlaceInv, PlaceAt
<1>2. Len(sql) \in Nat /\ at \in 1..Len(sql) /\ Ch(at) = sql[at] /\ sql \in Inputs
  BY <1>1, SeesTheInput DEF SplitTypes
<1>3. /\ ~IsQuoted(sql, at) /\ ~IsLineComment(sql, at) /\ ~IsBlockComment(sql, at)
      /\ ~IsMeta(sql, at) /\ sql[at] # "semi"
  BY <1>1, <1>2, SeesTheInput
     DEF Plain, OpensComment, Meta, IsQuoted, IsLineComment, IsBlockComment, IsMeta
<1>4. LexemeEnd(sql, at) = at
  BY <1>3 DEF LexemeEnd
<1>5. "default" \notin Constructs
  BY DEF Constructs, Tags
<1>6. ASSUME ~HasOddComment(sql)
      PROVE  at \notin Cuts(sql) /\ at \notin Dropped(sql) /\ PlaceAt(sql, "default", at + 1)
  <2>1. Begins(sql, at + 1)
    BY <1>1, <1>2, <1>4, <1>6, NextBegins
  <2>2. at \notin Cuts(sql) /\ at \notin Dropped(sql)
    BY <1>1, <1>2, <1>3, <1>6, BeginsKept
  <2> QED
    BY <1>5, <2>1, <2>2 DEF PlaceAt
<1> QED
  BY <1>1, <1>5, <1>6, StepOne

\* In a construct: where it began.
LEMMA InConstruct ==
  ASSUME SplitInv, at <= Len(sql), lexing \in Constructs, ~HasOddComment(sql)
  PROVE  \E h : LexingFrom(sql, lexing, h, at)
BY DEF SplitInv, PlaceInv, PlaceAt, Constructs, Tags

\* A turn that takes one symbol of a construct, which ends with it or does not.
LEMMA ConstructTurn ==
  ASSUME SplitInv, at <= Len(sql), NEW state \in Constructs, lexing = state,
         NEW ends \in BOOLEAN, Take(1, IF ends THEN "default" ELSE state),
         ends => \/ state \in {"quote"} \cup Tags /\ sql[at] = state
                 \/ state = "line_comment" /\ sql[at] = "newline",
         ~ends => /\ state \in {"quote"} \cup Tags => sql[at] # state
                  /\ state = "line_comment" => sql[at] # "newline"
                  /\ state = "block_comment" => ~IsPair(sql, at, "star", "slash")
  PROVE  SplitInv'
<1>1. SplitTypes /\ sql \in Inputs /\ at \in 1..Len(sql) /\ lexing # "done" /\ "default" \notin Constructs
  BY SeesTheInput DEF SplitInv, SplitTypes, Constructs, Tags
<1>2. PICK next \in {"default"} \cup Constructs : next = IF ends THEN "default" ELSE state
  OBVIOUS
<1>3. ASSUME ~HasOddComment(sql)
      PROVE  at \notin Cuts(sql) /\ at \notin Dropped(sql) /\ PlaceAt(sql, next, at + 1)
  <2>1. PICK h : LexingFrom(sql, state, h, at)
    BY <1>3, InConstruct
  <2>2. at \notin Cuts(sql) /\ at \notin Dropped(sql)
    BY <1>1, <2>1, ConstructGoesOn
  <2>3. CASE ends
    <3>1. Begins(sql, at + 1)
      BY <1>1, <2>1, <2>3, ConstructEnds
    <3> QED
      BY <1>1, <1>2, <2>2, <2>3, <3>1 DEF PlaceAt
  <2>4. CASE ~ends
    <3>1. LexingFrom(sql, state, h, at + 1)
      BY <1>1, <2>1, <2>4, ConstructStays
    <3> QED
      BY <1>1, <1>2, <2>2, <2>4, <3>1 DEF PlaceAt
  <2> QED
    BY <2>3, <2>4
<1> QED
  BY <1>1, <1>2, <1>3, StepOne

LEMMA InQuoteKeeps ==
  ASSUME SplitInv, InQuote
  PROVE  SplitInv'
<1>1. /\ SplitTypes /\ at <= Len(sql) /\ lexing = "quote" /\ "quote" \in Constructs
      /\ "quote" \in {"quote"} \cup Tags
  BY DEF SplitInv, InQuote, In, Constructs
<1>2. /\ Len(sql) \in Nat /\ at \in 1..Len(sql) /\ Ch(at) = sql[at] /\ sql \in Inputs
      /\ Pair("quote", "quote") <=> IsPair(sql, at, "quote", "quote")
  BY <1>1, SeesTheInput DEF SplitTypes
<1>3. CASE ~Pair("quote", "quote")
  <2>1. PICK ends \in BOOLEAN : ends <=> sql[at] = "quote"
    OBVIOUS
  <2>2. Take(1, IF ends THEN "default" ELSE "quote")
    BY <1>2, <1>3, <2>1 DEF InQuote
  <2>3. "quote" # "line_comment" /\ "quote" # "block_comment"
    OBVIOUS
  <2> QED
    BY <1>1, <2>1, <2>2, <2>3, ConstructTurn
<1>4. CASE Pair("quote", "quote")
  <2>1. at < Len(sql) /\ sql[at] = "quote" /\ sql[at + 1] = "quote" /\ Take(2, "quote")
    BY <1>2, <1>4 DEF IsPair, InQuote
  <2>2. ASSUME ~HasOddComment(sql)
        PROVE  /\ at \notin Cuts(sql) /\ at \notin Dropped(sql)
               /\ at + 1 \notin Cuts(sql) /\ at + 1 \notin Dropped(sql)
               /\ PlaceAt(sql, "quote", at + 2)
    <3>1. PICK h : LexingFrom(sql, "quote", h, at)
      BY <1>1, <2>2, InConstruct
    <3>2. at \notin Cuts(sql) /\ at \notin Dropped(sql) /\ Begins(sql, at + 1)
      BY <1>1, <1>2, <2>1, <3>1, ConstructGoesOn, ConstructEnds
    <3>3. at + 1 \in 1..Len(sql) /\ sql[at + 1] # "semi" /\ ~IsMeta(sql, at + 1)
      BY <1>2, <2>1 DEF IsMeta
    <3>4. at + 1 \notin Cuts(sql) /\ at + 1 \notin Dropped(sql)
      BY <1>2, <3>2, <3>3, BeginsKept
    <3>5. at + 1 \in 1..((at + 2) - 1) /\ \A k \in ((at + 1) + 1)..((at + 2) - 1) : FALSE
      BY <1>2
    <3>6. LexingFrom(sql, "quote", at + 1, at + 2)
      BY <2>1, <3>2, <3>5 DEF LexingFrom
    <3> QED
      BY <3>2, <3>4, <3>6 DEF PlaceAt
  <2> QED
    BY <1>1, <2>1, <2>2, StepTwo
<1> QED
  BY <1>3, <1>4

LEMMA InLineCommentKeeps ==
  ASSUME SplitInv, InLineComment
  PROVE  SplitInv'
<1>1. /\ SplitTypes /\ at <= Len(sql) /\ lexing = "line_comment" /\ "line_comment" \in Constructs
      /\ "line_comment" \notin {"quote"} \cup Tags
  BY DEF SplitInv, InLineComment, In, Constructs, Tags
<1>2. PICK ends \in BOOLEAN : ends <=> sql[at] = "newline"
  OBVIOUS
<1>3. Take(1, IF ends THEN "default" ELSE "line_comment")
  BY <1>1, <1>2, SeesTheInput DEF InLineComment
<1> QED
  BY <1>1, <1>2, <1>3, ConstructTurn

LEMMA InBlockCommentKeeps ==
  ASSUME SplitInv, InBlockComment
  PROVE  SplitInv'
<1>1. /\ SplitTypes /\ at <= Len(sql) /\ lexing = "block_comment" /\ "block_comment" \in Constructs
      /\ "block_comment" \notin {"quote"} \cup Tags /\ "default" \notin Constructs
  BY DEF SplitInv, InBlockComment, In, Constructs, Tags
<1>2. /\ Len(sql) \in Nat /\ at \in 1..Len(sql) /\ sql \in Inputs
      /\ Pair("star", "slash") <=> IsPair(sql, at, "star", "slash")
  BY <1>1, SeesTheInput DEF SplitTypes
<1>3. CASE ~Pair("star", "slash")
  <2>1. Take(1, IF FALSE THEN "default" ELSE "block_comment")
    BY <1>3 DEF InBlockComment
  <2> QED
    BY <1>1, <1>2, <1>3, <2>1, ConstructTurn
<1>4. CASE Pair("star", "slash")
  <2>1. at < Len(sql) /\ Take(2, "default")
    BY <1>2, <1>4 DEF IsPair, InBlockComment
  <2>2. ASSUME ~HasOddComment(sql)
        PROVE  /\ at \notin Cuts(sql) /\ at \notin Dropped(sql)
               /\ at + 1 \notin Cuts(sql) /\ at + 1 \notin Dropped(sql)
               /\ PlaceAt(sql, "default", at + 2)
    <3>1. PICK h : LexingFrom(sql, "block_comment", h, at)
      BY <1>1, <2>2, InConstruct
    <3>2. at \notin Cuts(sql) /\ at \notin Dropped(sql)
      BY <1>1, <1>2, <3>1, ConstructGoesOn
    <3>3. at + 1 \notin Cuts(sql) /\ at + 1 \notin Dropped(sql) /\ Begins(sql, at + 2)
      BY <1>2, <1>4, <2>2, <3>1, CommentEnds
    <3> QED
      BY <1>1, <3>2, <3>3 DEF PlaceAt
  <2> QED
    BY <1>1, <2>1, <2>2, StepTwo
<1> QED
  BY <1>3, <1>4

LEMMA InDollarQuoteKeeps ==
  ASSUME SplitInv, InDollarQuote
  PROVE  SplitInv'
<1>1. PICK state \in Tags : state = lexing
  BY DEF InDollarQuote
<1>2. /\ SplitTypes /\ at <= Len(sql) /\ state \in Constructs /\ state \in {"quote"} \cup Tags
      /\ state # "line_comment" /\ state # "block_comment"
  BY <1>1 DEF SplitInv, InDollarQuote, Constructs, Tags
<1>3. PICK ends \in BOOLEAN : ends <=> sql[at] = state
  OBVIOUS
<1>4. Take(1, IF ends THEN "default" ELSE state)
  BY <1>1, <1>2, <1>3, SeesTheInput DEF InDollarQuote
<1> QED
  BY <1>1, <1>2, <1>3, <1>4, ConstructTurn

LEMMA FlushTrailingKeeps ==
  ASSUME SplitInv, FlushTrailing
  PROVE  SplitInv'
<1>1. /\ sql \in Inputs /\ Len(sql) \in Nat /\ at = Len(sql) + 1 /\ at \in 1..(Len(sql) + 1)
      /\ ~HasOddComment(sql) => TextAt(sql, at, current, statements)
  <2>1. Len(sql) \in Nat
    BY LenProperties DEF SplitInv, SplitTypes, Inputs
  <2> QED
    BY <2>1 DEF SplitInv, SplitTypes, FlushTrailing, TextInv
<1>2. /\ sql' = sql /\ lexing' = "done" /\ at' = at /\ current' = current
      /\ statements' = IF Trim(current) = <<>> THEN statements ELSE Append(statements, Trim(current))
  BY DEF FlushTrailing, Push
<1>3. SplitTypes'
  BY <1>2 DEF SplitInv, SplitTypes
<1>4. PlaceInv' /\ TextInv'
  BY <1>2 DEF PlaceInv, TextInv
<1>5. ASSUME ~HasOddComment(sql)
      PROVE  statements' = Pieces(sql)
  <2>1. PICK c : /\ CutAt(sql, at, c)
                 /\ current = Text(sql, KeptSince(sql, c, at))
                 /\ statements = PiecesAfter(sql, Filled(sql, c))
    BY <1>1, <1>5 DEF TextAt
  <2>2. at \in Cuts(sql)
    BY <1>1, CutsArePositions
  <2>3. /\ PieceAfter(sql, c) = Trim(current)
        /\ PieceAfter(sql, c) = <<>> => PiecesAfter(sql, Filled(sql, at)) = statements
        /\ PieceAfter(sql, c) # <<>> =>
             PiecesAfter(sql, Filled(sql, at)) = Append(statements, PieceAfter(sql, c))
    BY <1>1, <2>1, <2>2, NextCut
  <2>4. statements' = PiecesAfter(sql, Filled(sql, at))
    BY <1>2, <2>3
  <2>5. \A d \in Cuts(sql) : d < at <=> d <= Len(sql)
    BY <1>1, CutsArePositions
  <2>6. Filled(sql, at) = {d \in Cuts(sql) : d <= Len(sql) /\ PieceAfter(sql, d) # <<>>}
    BY <2>5 DEF Filled
  <2> QED
    BY <2>4, <2>6 DEF Pieces
<1>6. SplitsLikePostgres'
  BY <1>2, <1>5 DEF SplitsLikePostgres
<1> QED
  BY <1>3, <1>4, <1>6 DEF SplitInv

LEMMA SplitBegins ==
  ASSUME SplitInit(Inputs)
  PROVE  SplitInv
<1>1. /\ sql \in Inputs /\ at = 1 /\ lexing = "default" /\ current = <<>> /\ statements = <<>>
      /\ Len(sql) \in Nat
  BY LenProperties DEF SplitInit, Inputs
<1>2. SplitTypes
  BY <1>1 DEF SplitTypes
<1>3. PlaceInv
  BY <1>1, FirstBegins DEF PlaceInv, PlaceAt, Constructs, Tags
<1>4. CutAt(sql, 1, 0) /\ KeptSince(sql, 0, 1) = {} /\ Filled(sql, 0) = {}
  <2>1. 0 \in Cuts(sql) /\ \A d \in Cuts(sql) : d \in Nat
    BY <1>1, CutsArePositions
  <2>2. \A d \in Cuts(sql) : (d < 1 => d <= 0) /\ ~(d < 0)
    BY <2>1
  <2>3. \A i \in 1..Len(sql) : ~(i < 1)
    BY <1>1
  <2> QED
    BY <2>1, <2>2, <2>3 DEF CutAt, KeptSince, Filled
<1>5. Text(sql, {}) = <<>> /\ PiecesAfter(sql, {}) = <<>>
  BY NoText
<1>6. TextInv
  BY <1>1, <1>4, <1>5 DEF TextInv, TextAt
<1>7. SplitsLikePostgres
  BY <1>1 DEF SplitsLikePostgres
<1> QED
  BY <1>2, <1>3, <1>6, <1>7 DEF SplitInv

\* For every input: the statements that the splitter has at the end are what stands between
\* the semicolons that are not quoted and not in a comment, without the psql commands.
THEOREM SplitsStayRight == SplitSpec => []SplitsLikePostgres
<1>1. SplitInit(Seq(Symbols)) => SplitInv
  BY SplitBegins DEF Inputs
<1>2. ASSUME SplitInv, [SplitNext]_splitVars
      PROVE  SplitInv'
  <2>1. CASE SplitNext
    BY <1>2, <2>1, OpenCommentKeeps, OpenQuoteKeeps, EndStatementKeeps, DropMetaKeeps, PlainKeeps,
       InQuoteKeeps, InLineCommentKeeps, InBlockCommentKeeps, InDollarQuoteKeeps, FlushTrailingKeeps
       DEF SplitNext
  <2>2. CASE UNCHANGED splitVars
    BY <1>2, <2>2
       DEF SplitInv, SplitTypes, PlaceInv, TextInv, SplitsLikePostgres, splitVars
  <2> QED
    BY <1>2, <2>1, <2>2
<1>3. SplitInv => SplitsLikePostgres
  BY DEF SplitInv
<1> QED
  BY <1>1, <1>2, <1>3, PTL DEF SplitSpec
=============================================================================
