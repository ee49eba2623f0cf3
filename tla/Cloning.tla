------------------------------- MODULE Cloning -------------------------------
(***************************************************************************)
(* The clone of a tenant (services/clone_service.ts, jobs/clone_tenant.ts):*)
(* one destination, and the deliveries of its clone job, which the queue   *)
(* retries, and delivers again when one stalls.                            *)
(***************************************************************************)
EXTENDS Naturals

CONSTANTS
  CloneJobs,        \* deliveries of the clone job
  SourceTables,     \* tables of the source, numbered in alphabetical order
  MigratedTables,   \* those the tenant migrations create in the destination
  TokenTable,       \* the number of auth_access_tokens
  MaxCloneAttempts, \* attempts the queue gives a delivery
  MaxCloneFaults    \* bound on failures

ASSUME CloningAssumption ==
  /\ SourceTables \subseteq Nat
  /\ \E n \in SourceTables : SourceTables = 1..n
  /\ MigratedTables \subseteq SourceTables
  /\ TokenTable \in SourceTables
  /\ MaxCloneAttempts \in Nat \ {0}

VARIABLES
  options,     \* the job's payload
  storage,     \* the destination's schema
  rows,        \* committed contents of each table of the destination
  cloneStatus, \* status of the destination's row
  cloneJob,    \* what each delivery does
  cloneFaults, \* history: failures, but for those of a clean-up
  finished,    \* history: a job has made the destination active
  again,       \* history: an attempt began after one had finished
  overlapped,  \* history: two attempts ran at the same time
  unclean      \* history: a clean-up failed

cloneVars == <<options, storage, rows, cloneStatus, cloneJob,
               cloneFaults, finished, again, overlapped, unclean>>

Contents == {"none", "copied", "cleared"}

CloneSteps == {"waiting", "hooks", "provision", "migrate", "list", "copy", "tokens",
               "sequences", "commit", "activate", "announce", "fail", "destroy", "done"}

\* seen: the status of the loaded row; inserted: the contents of its open
\* transaction; table: the table it copies next.
CloneStates == [step : CloneSteps, attempts : Nat, seen : {"provisioning", "active", "failed"},
                inserted : [SourceTables -> Contents], table : Nat]

NoneCopied == [t \in SourceTables |-> "none"]

CloneInit(payloads) ==
  /\ options \in payloads
  /\ storage = "none"
  /\ rows = NoneCopied
  /\ cloneStatus = "provisioning"
  /\ cloneJob = [j \in CloneJobs |-> [step |-> "waiting", attempts |-> 0, seen |-> "provisioning",
                                      inserted |-> NoneCopied, table |-> 1]]
  /\ cloneFaults = 0
  /\ finished = FALSE
  /\ again = FALSE
  /\ overlapped = FALSE
  /\ unclean = FALSE

Step(j, step) == cloneJob' = [cloneJob EXCEPT ![j].step = step]

\* An error thrown by a step: one of the faults of the behaviour.
Fault == cloneFaults < MaxCloneFaults /\ cloneFaults' = cloneFaults + 1

\* A step that works and goes on, or throws to another step and does nothing.
Throws(j, to) == Fault /\ Step(j, to) /\ UNCHANGED <<storage, rows, cloneStatus, finished>>

Inserting(j) == cloneJob[j].step \in {"copy", "tokens", "sequences", "commit"}

\* Both ends of the job: the queue tries again while attempts are left.
AfterFailure(j) == IF cloneJob[j].attempts < MaxCloneAttempts THEN "waiting" ELSE "done"

StartClone(j) ==
  /\ cloneJob[j].step = "waiting"
  /\ cloneJob' = [cloneJob EXCEPT ![j].step = "hooks", ![j].attempts = @ + 1,
                                  ![j].seen = cloneStatus]
  /\ again' = (again \/ finished)
  /\ overlapped' = (overlapped \/ \E i \in CloneJobs : cloneJob[i].step \notin {"waiting", "done"})
  /\ UNCHANGED <<options, storage, rows, cloneStatus, cloneFaults, finished, unclean>>

\* tenant:clone inserts the row of a new destination and clones by itself, once, when
\* the source is active.
StartCloneCommand(j) ==
  /\ \A i \in CloneJobs : cloneJob[i].attempts = 0
  /\ cloneJob' = [i \in CloneJobs |-> [cloneJob[i] EXCEPT
                   !.step = IF i = j THEN "provision" ELSE "done", !.attempts = MaxCloneAttempts]]
  /\ UNCHANGED <<options, storage, rows, cloneStatus, cloneFaults,
                 finished, again, overlapped, unclean>>

\* A before-hook that throws fails the job before anything is to clean up.
BeforeClone(j) ==
  /\ cloneJob[j].step = "hooks"
  /\ \/ Step(j, "provision") /\ UNCHANGED <<storage, rows, cloneStatus, cloneFaults, finished>>
     \/ Throws(j, AfterFailure(j))
  /\ UNCHANGED <<options, again, overlapped, unclean>>

\* CREATE SCHEMA IF NOT EXISTS.
ProvisionClone(j) ==
  /\ cloneJob[j].step = "provision"
  /\ \/ /\ storage' = IF storage = "none" THEN "empty" ELSE storage
        /\ Step(j, "migrate")
        /\ UNCHANGED <<rows, cloneStatus, cloneFaults, finished>>
     \/ Throws(j, "fail")
  /\ UNCHANGED <<options, again, overlapped, unclean>>

\* The migrations need the schema, and do nothing when they have run.
MigrateClone(j) ==
  /\ cloneJob[j].step = "migrate"
  /\ \/ /\ storage # "none"
        /\ storage' = "migrated"
        /\ Step(j, IF options.schemaOnly THEN "activate" ELSE "list")
        /\ UNCHANGED <<rows, cloneStatus, cloneFaults, finished>>
     \/ storage = "none" /\ Step(j, "fail")
        /\ UNCHANGED <<storage, rows, cloneStatus, cloneFaults, finished>>
     \/ Throws(j, "fail")
  /\ UNCHANGED <<options, again, overlapped, unclean>>

BeginCopy(j) ==
  /\ cloneJob[j].step = "list"
  /\ cloneJob' = [cloneJob EXCEPT ![j].step = "copy", ![j].table = 1,
                                  ![j].inserted = NoneCopied]
  /\ UNCHANGED <<options, storage, rows, cloneStatus, cloneFaults,
                 finished, again, overlapped, unclean>>

Advance(j, content) ==
  LET t == cloneJob[j].table
  IN cloneJob' = [cloneJob EXCEPT
       ![j].inserted = [@ EXCEPT ![t] = content],
       ![j].table = @ + 1,
       ![j].step = IF t + 1 \in SourceTables THEN "copy" ELSE "tokens"]

\* INSERT ... SELECT. Rows that another delivery has committed are duplicates; an
\* insert waits for those that it has not. A table the destination lacks is skipped.
CopyTable(j) ==
  LET t == cloneJob[j].table IN
  /\ cloneJob[j].step = "copy"
  /\ \/ /\ t \notin MigratedTables
        /\ Advance(j, "none")
        /\ UNCHANGED cloneFaults
     \/ /\ t \in MigratedTables
        /\ \A i \in CloneJobs \ {j} : Inserting(i) => cloneJob[i].inserted[t] = "none"
        /\ IF storage = "migrated" /\ rows[t] # "copied" THEN Advance(j, "copied") ELSE Step(j, "fail")
        /\ UNCHANGED cloneFaults
     \/ Fault /\ Step(j, "fail")
  /\ UNCHANGED <<options, storage, rows, cloneStatus, finished, again, overlapped, unclean>>

\* #runWithSavepoint: an operation that fails is logged, and the copy goes on.
UnderSavepoint(worked) == (worked /\ UNCHANGED cloneFaults) \/ (~worked /\ Fault)

\* TRUNCATE of the tokens.
ClearTokens(j) ==
  /\ cloneJob[j].step = "tokens"
  /\ \E worked \in BOOLEAN :
       /\ UnderSavepoint(worked)
       /\ cloneJob' = [cloneJob EXCEPT ![j].step = "sequences",
            ![j].inserted = IF worked /\ options.clearSessions THEN [@ EXCEPT ![TokenTable] = "cleared"] ELSE @]
  /\ UNCHANGED <<options, storage, rows, cloneStatus, finished, again, overlapped, unclean>>

\* The block that would set the sequences past the copied ids is given parameters, which a
\* DO statement cannot have: it fails for every table, is rolled back to its savepoint and
\* logged, and the sequences stay as the migrations made them.
ResetSequences(j) ==
  /\ cloneJob[j].step = "sequences"
  /\ Step(j, "commit")
  /\ UNCHANGED <<options, storage, rows, cloneStatus, cloneFaults, finished, again, overlapped, unclean>>

CommitCopy(j) ==
  /\ cloneJob[j].step = "commit"
  /\ \/ /\ rows' = [t \in SourceTables |-> IF cloneJob[j].inserted[t] = "none"
                                           THEN rows[t] ELSE cloneJob[j].inserted[t]]
        /\ Step(j, "activate")
        /\ UNCHANGED <<storage, cloneStatus, cloneFaults, finished>>
     \/ Throws(j, "fail")
  /\ UNCHANGED <<options, again, overlapped, unclean>>

\* save() writes the status when it differs from the one that was loaded.
SaveCloneStatus(j, status) == cloneStatus' = IF cloneJob[j].seen = status THEN cloneStatus ELSE status

ActivateClone(j) ==
  /\ cloneJob[j].step = "activate"
  /\ \/ /\ SaveCloneStatus(j, "active")
        /\ cloneJob' = [cloneJob EXCEPT ![j].step = "announce", ![j].seen = "active"]
        /\ finished' = TRUE
        /\ UNCHANGED <<storage, rows, cloneFaults>>
     \/ Throws(j, "fail")
  /\ UNCHANGED <<options, again, overlapped, unclean>>

\* Variant of AnnounceClone: the event is dispatched inside clone's try.
AnnounceInsideTry(j) ==
  /\ cloneJob[j].step = "announce"
  /\ \/ Step(j, "done") /\ UNCHANGED <<storage, rows, cloneStatus, cloneFaults, finished>>
     \/ Throws(j, "fail")
  /\ UNCHANGED <<options, again, overlapped, unclean>>

\* After-hooks are logged when they throw; a listener of TenantCloned fails the job.
AnnounceClone(j) ==
  /\ cloneJob[j].step = "announce"
  /\ \/ Step(j, "done") /\ UNCHANGED <<storage, rows, cloneStatus, cloneFaults, finished>>
     \/ Throws(j, AfterFailure(j))
  /\ UNCHANGED <<options, again, overlapped, unclean>>

\* The catch block: a save that throws skips the destroy.
FailClone(j) ==
  /\ cloneJob[j].step = "fail"
  /\ \/ /\ SaveCloneStatus(j, "failed")
        /\ cloneJob' = [cloneJob EXCEPT ![j].step = "destroy", ![j].seen = "failed"]
        /\ UNCHANGED unclean
     \/ unclean' = TRUE /\ Step(j, AfterFailure(j)) /\ UNCHANGED cloneStatus
  /\ UNCHANGED <<options, storage, rows, cloneFaults, finished, again, overlapped>>

\* DROP SCHEMA waits for the open transactions; its failure is logged.
DestroyClone(j) ==
  /\ cloneJob[j].step = "destroy"
  /\ \A i \in CloneJobs \ {j} : Inserting(i) => cloneJob[i].inserted = NoneCopied
  /\ \/ storage' = "none" /\ rows' = NoneCopied /\ UNCHANGED unclean
     \/ unclean' = TRUE /\ UNCHANGED <<storage, rows>>
  /\ Step(j, AfterFailure(j))
  /\ UNCHANGED <<options, cloneStatus, cloneFaults, finished, again, overlapped>>

\* The worker dies: its transaction is rolled back, and the queue delivers again.
CloneDies(j) ==
  /\ cloneJob[j].step \notin {"waiting", "done"}
  /\ Fault
  /\ unclean' = TRUE
  /\ Step(j, AfterFailure(j))
  /\ UNCHANGED <<options, storage, rows, cloneStatus, finished, again, overlapped>>

CloneNext ==
  \E j \in CloneJobs :
       \/ StartClone(j) \/ StartCloneCommand(j) \/ BeforeClone(j) \/ ProvisionClone(j)
       \/ MigrateClone(j) \/ BeginCopy(j)
       \/ CopyTable(j) \/ ClearTokens(j) \/ ResetSequences(j) \/ CommitCopy(j)
       \/ ActivateClone(j) \/ AnnounceClone(j) \/ FailClone(j) \/ DestroyClone(j) \/ CloneDies(j)

CloneSpec ==
  CloneInit([schemaOnly : BOOLEAN, clearSessions : BOOLEAN]) /\ [][CloneNext]_cloneVars

-----------------------------------------------------------------------------
(* Properties.                                                             *)

\* The copy is one transaction (clone_service.ts:121): the tables of the clone
\* all have their rows, or none has.
CopyIsAllOrNothing ==
  \/ \A t \in MigratedTables : rows[t] = "none"
  \/ \A t \in MigratedTables : rows[t] # "none"

\* What a finished clone holds stays there, and its row active, unless an attempt
\* overlapped the one that finished it, or began after it.
FinishedIsKept ==
  finished /\ ~again /\ ~overlapped => cloneStatus = "active" /\ storage = "migrated"

\* A finished clone has every row it was asked for, whatever failed under a
\* savepoint (clone_service.ts:171), and without failures no tokens if they were
\* to be cleared. Its sequences are not set, and this says nothing of them.
FinishedIsWhole ==
  finished /\ ~again /\ ~overlapped =>
    IF options.schemaOnly THEN rows = NoneCopied
    ELSE /\ \A t \in MigratedTables : rows[t] # "none"
         /\ cloneFaults = 0 /\ options.clearSessions => rows[TokenTable] = "cleared"

\* A failed clone leaves no storage behind once its jobs are over, unless the
\* clean-up itself failed, or two attempts overlapped: one that loaded the row as
\* active before the other failed it saves nothing when it finishes.
FailedLeavesNothing ==
  /\ \A j \in CloneJobs : cloneJob[j].step \in {"waiting", "done"}
  /\ cloneStatus = "failed"
  /\ ~unclean /\ ~overlapped
  => storage = "none"

\* A clone is whole or it is nothing, and one that finished stays.
ClonesAreSound == CopyIsAllOrNothing /\ FinishedIsKept /\ FinishedIsWhole /\ FailedLeavesNothing
=============================================================================
