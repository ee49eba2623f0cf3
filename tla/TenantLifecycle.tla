--------------------------- MODULE TenantLifecycle ---------------------------
(***************************************************************************)
(* The life of a tenant: the row the registry keeps for it (status and     *)
(* deletedAt), the storage the isolation driver keeps for it (a schema, a  *)
(* database), the InstallTenant and UninstallTenant jobs, and the console  *)
(* commands, admin routes and cron runs that change them.                  *)
(*                                                                         *)
(* Every entry point is a handler that awaits between its steps, and       *)
(* nothing locks the row: a worker (a queue worker, an ace process or a    *)
(* request) loads the row once and then works from that copy, one awaited  *)
(* call per step, interleaved with every other worker.                     *)
(***************************************************************************)
EXTENDS Naturals, FiniteSets

CONSTANTS
  Tenants,      \* tenant ids
  NoTenant,     \* the tenant of a worker that has none
  Workers,      \* processes: queue workers, ace commands, admin requests
  Ops,          \* the entry points this deployment uses
  ActivateFrom, \* the statuses operators activate tenants from
  SuspendFrom,  \* the statuses operators suspend tenants from
  MaxAttempts,  \* attempts the queue gives a job
  MaxFaults     \* bound on the faults of a behaviour

\* No code path stores the "deleted" of TenantStatus: deletedAt alone tells.
Statuses  == {"absent", "provisioning", "active", "suspended", "failed"}
Deletions == {"live", "fresh", "expired"}
JobKinds  == {"install", "uninstall"}
Jobs      == JobKinds \X Tenants

Operations == {"create", "install", "uninstall", "destroyKeep", "destroyDrop",
               "activate", "suspend", "restore", "purge", "doctor", "fresh"}

ASSUME ConstantsAssumption ==
  /\ NoTenant \notin Tenants
  /\ Ops \subseteq Operations
  /\ ActivateFrom \subseteq Statuses \ {"absent"}
  /\ SuspendFrom \subseteq Statuses \ {"absent"}
  /\ MaxAttempts \in Nat
  /\ MaxFaults \in Nat

VARIABLES
  status,    \* the rows' status column; "absent" while there is no row
  deletion,  \* the rows' deletedAt: null, set, or set longer ago than the retention
  old,       \* tenants whose createdAt is past the doctor's 30 minutes
  storage,   \* tenants whose schema exists
  waiting,   \* jobs waiting in the queue
  left,      \* attempts each job still has
  proc,      \* what each worker is doing
  faults     \* faults so far

row  == <<status, deletion, old>>
jobs == <<waiting, left>>
vars == <<row, storage, jobs, proc, faults>>

Steps == {"idle", "dispatch", "markProvisioning", "provision", "markActive",
          "markFailed", "drop", "recreate", "markDeleted", "save", "fix", "announce"}

\* status and deletion are the row as the worker's copy last saw it in the
\* database (Lucid's $original); todo is what is left of a loop over tenants.
Procs == [op : Operations \cup {"none"}, step : Steps, t : Tenants \cup {NoTenant},
          status : Statuses, deletion : Deletions, todo : SUBSET Tenants]

Idle == [op |-> "none", step |-> "idle", t |-> NoTenant,
         status |-> "absent", deletion |-> "live", todo |-> {}]

\* Only an idle worker and a loop at the start of a turn have no tenant.
ProcOK ==
  /\ proc \in [Workers -> Procs]
  /\ \A w \in Workers : proc[w].t = NoTenant =>
       /\ proc[w].op \in {"none", "purge", "doctor", "fresh"}
       /\ proc[w].step \in {"idle", "drop", "fix"}

\* The types, and which workers have a tenant.
TypeOK ==
  /\ status \in [Tenants -> Statuses]
  /\ deletion \in [Tenants -> Deletions]
  /\ old \subseteq Tenants
  /\ storage \subseteq Tenants
  /\ waiting \subseteq Jobs
  /\ left \in [Jobs -> 0..MaxAttempts]
  /\ ProcOK
  /\ faults \in 0..MaxFaults

Init ==
  /\ status = [t \in Tenants |-> "absent"]
  /\ deletion = [t \in Tenants |-> "live"]
  /\ old = {}
  /\ storage = {}
  /\ waiting = {}
  /\ left = [j \in Jobs |-> 0]
  /\ proc = [w \in Workers |-> Idle]
  /\ faults = 0

-----------------------------------------------------------------------------
(* The row, as the handlers read and write it.                             *)

\* findById(id, includeDeleted): whether the repository finds the row.
Found(t, includeDeleted) ==
  status[t] # "absent" /\ (includeDeleted \/ deletion[t] = "live")

\* tenant.isActive
IsActive(t) == status[t] = "active" /\ deletion[t] = "live"

\* Variant of Routable: a guard that forgets the tenants not ready yet.
RoutableUnready(t) == deletion[t] = "live" /\ status[t] \notin {"absent", "suspended"}

\* The guard middleware lets a request of the tenant through.
Routable(t) ==
  deletion[t] = "live" /\ status[t] \notin {"absent", "suspended", "provisioning", "failed"}

\* An idle worker starts an operation on t and loads its row.
Load(w, op, t, step) ==
  /\ proc[w] = Idle
  /\ op \in Ops
  /\ proc' = [proc EXCEPT ![w] = [op |-> op, step |-> step, t |-> t, status |-> status[t],
                                  deletion |-> deletion[t], todo |-> {}]]

\* A worker in a loop over the tenants ts, at the start of a turn.
Loop(op, step, ts) == [op |-> op, step |-> step, t |-> NoTenant,
                       status |-> "absent", deletion |-> "live", todo |-> ts]

\* An idle worker starts a loop over a snapshot of the tenants.
LoadAll(w, op, ts, step) ==
  /\ proc[w] = Idle
  /\ op \in Ops
  /\ proc' = [proc EXCEPT ![w] = Loop(op, step, ts)]

At(w, op, step) == proc[w].op = op /\ proc[w].step = step

\* Worker w goes on with tenant t, its copy saying s and d.
GotoWith(w, step, t, s, d) ==
  proc' = [proc EXCEPT ![w] = [op |-> proc[w].op, step |-> step, t |-> t,
                               status |-> s, deletion |-> d, todo |-> proc[w].todo]]

Goto(w, step) == GotoWith(w, step, proc[w].t, proc[w].status, proc[w].deletion)

Finish(w) == proc' = [proc EXCEPT ![w] = Idle]

\* The loop of worker w goes on without t, or ends.
NextOf(w, t) ==
  LET rest == proc[w].todo \ {t}
      first == IF proc[w].op = "doctor" THEN "fix" ELSE "drop"
  IN  proc' = [proc EXCEPT ![w] =
                 IF rest = {} THEN Idle ELSE Loop(proc[w].op, first, rest)]

\* tenant.save(): Lucid updates the columns whose value differs from the one
\* the copy was loaded with, and no other. "now" differs from every deletedAt.
Save(w, s, d) ==
  LET p == proc[w]
  IN  /\ status' = IF s = p.status THEN status ELSE [status EXCEPT ![p.t] = s]
      /\ deletion' = IF d = p.deletion THEN deletion
                     ELSE [deletion EXCEPT ![p.t] = IF d = "now" THEN "fresh" ELSE d]
      /\ UNCHANGED old

\* The copy after a save of status s, the worker being at its next step.
Saved(w, s, step) == GotoWith(w, step, proc[w].t, s, proc[w].deletion)

-----------------------------------------------------------------------------
(* tenant:create and POST /tenants.                                        *)

CreateTenant(w, t) ==
  /\ status[t] = "absent"
  /\ proc[w] = Idle
  /\ "create" \in Ops
  /\ status' = [status EXCEPT ![t] = "provisioning"]
  /\ proc' = [proc EXCEPT ![w] = [op |-> "create", step |-> "dispatch", t |-> t,
                                  status |-> "provisioning", deletion |-> "live", todo |-> {}]]
  /\ UNCHANGED <<deletion, old, storage, jobs, faults>>

DispatchInstall(w) ==
  /\ At(w, "create", "dispatch")
  /\ waiting' = waiting \cup {<<"install", proc[w].t>>}
  /\ left' = [left EXCEPT ![<<"install", proc[w].t>>] = MaxAttempts]
  /\ Finish(w)
  /\ UNCHANGED <<row, storage, faults>>

-----------------------------------------------------------------------------
(* The queue: a worker takes a waiting job, which costs the job an attempt.*)

Take(job) ==
  /\ job \in waiting
  /\ left[job] > 0
  /\ waiting' = waiting \ {job}
  /\ left' = [left EXCEPT ![job] = @ - 1]

\* The job goes back to the queue while it has attempts left.
Retry(job) ==
  /\ waiting' = IF left[job] > 0 THEN waiting \cup {job} ELSE waiting
  /\ UNCHANGED left

-----------------------------------------------------------------------------
(* The InstallTenant job. Its try block is markProvisioning to markActive. *)

TakeInstall(w, t) ==
  /\ Take(<<"install", t>>)
  /\ Found(t, FALSE)
  /\ Load(w, "install", t, "markProvisioning")
  /\ UNCHANGED <<row, storage, faults>>

\* findByIdOrFail throws: the tenant was deleted, and the attempt is spent.
InstallNotFound(t) ==
  LET job == <<"install", t>>
  IN  /\ job \in waiting
      /\ left[job] > 0
      /\ "install" \in Ops
      /\ ~Found(t, FALSE)
      /\ left' = [left EXCEPT ![job] = @ - 1]
      /\ waiting' = IF left[job] = 1 THEN waiting \ {job} ELSE waiting
      /\ UNCHANGED <<row, storage, proc, faults>>

MarkProvisioning(w) ==
  /\ At(w, "install", "markProvisioning")
  /\ Save(w, "provisioning", proc[w].deletion)
  /\ Saved(w, "provisioning", "provision")
  /\ UNCHANGED <<storage, jobs, faults>>

\* Variant of Provision: the driver is not awaited, its query not run yet.
ProvisionUnawaited(w) ==
  /\ At(w, "install", "provision")
  /\ Goto(w, "markActive")
  /\ UNCHANGED <<row, storage, jobs, faults>>

Provision(w) ==
  /\ At(w, "install", "provision")
  /\ storage' = storage \cup {proc[w].t}
  /\ Goto(w, "markActive")
  /\ UNCHANGED <<row, jobs, faults>>

MarkActive(w) ==
  /\ At(w, "install", "markActive")
  /\ Save(w, "active", proc[w].deletion)
  /\ Saved(w, "active", "announce")
  /\ UNCHANGED <<storage, jobs, faults>>

\* A call of the try block throws.
InstallError(w) ==
  /\ faults < MaxFaults
  /\ \E step \in {"markProvisioning", "provision", "markActive"} : At(w, "install", step)
  /\ Goto(w, "markFailed")
  /\ faults' = faults + 1
  /\ UNCHANGED <<row, storage, jobs>>

MarkFailed(w) ==
  /\ At(w, "install", "markFailed")
  /\ Save(w, "failed", proc[w].deletion)
  /\ Retry(<<"install", proc[w].t>>)
  /\ Finish(w)
  /\ UNCHANGED <<storage, faults>>

-----------------------------------------------------------------------------
(* The UninstallTenant job, which the host application dispatches.         *)

DispatchUninstall(t) ==
  /\ "uninstall" \in Ops
  /\ status[t] # "absent"
  /\ left[<<"uninstall", t>>] = 0
  /\ waiting' = waiting \cup {<<"uninstall", t>>}
  /\ left' = [left EXCEPT ![<<"uninstall", t>>] = MaxAttempts]
  /\ UNCHANGED <<row, storage, proc, faults>>

TakeUninstall(w, t) ==
  /\ Take(<<"uninstall", t>>)
  /\ Found(t, TRUE)
  /\ Load(w, "uninstall", t, "drop")
  /\ UNCHANGED <<row, storage, faults>>

UninstallDrop(w) ==
  /\ At(w, "uninstall", "drop")
  /\ storage' = storage \ {proc[w].t}
  /\ Goto(w, "markDeleted")
  /\ UNCHANGED <<row, jobs, faults>>

-----------------------------------------------------------------------------
(* tenant:destroy and POST /tenants/:id/destroy.                           *)

StartDestroy(w, t) ==
  /\ Found(t, FALSE)
  /\ \E op \in {"destroyKeep", "destroyDrop"} : Load(w, op, t, "markDeleted")
  /\ UNCHANGED <<row, storage, jobs, faults>>

\* Variant of MarkDeleted: the storage goes with the mark, whatever keepSchema says.
MarkDeletedDropping(w) ==
  /\ proc[w].step = "markDeleted"
  /\ Save(w, proc[w].status, "now")
  /\ storage' = storage \ {proc[w].t}
  /\ GotoWith(w, "announce", proc[w].t, proc[w].status, "fresh")
  /\ UNCHANGED <<jobs, faults>>

\* Variant of MarkDeleted: the status is set to the "deleted" of TenantStatus too.
MarkDeletedInStatus(w) ==
  /\ proc[w].step = "markDeleted"
  /\ Save(w, "deleted", "now")
  /\ GotoWith(w, IF proc[w].op = "destroyDrop" THEN "drop" ELSE "announce",
              proc[w].t, "deleted", "fresh")
  /\ UNCHANGED <<storage, jobs, faults>>

\* deletedAt = now, in destroy before the drop and in uninstall after it.
MarkDeleted(w) ==
  /\ proc[w].step = "markDeleted"
  /\ Save(w, proc[w].status, "now")
  /\ GotoWith(w, IF proc[w].op = "destroyDrop" THEN "drop" ELSE "announce",
              proc[w].t, proc[w].status, "fresh")
  /\ UNCHANGED <<storage, jobs, faults>>

DestroyDrop(w) ==
  /\ At(w, "destroyDrop", "drop")
  /\ storage' = storage \ {proc[w].t}
  /\ Goto(w, "announce")
  /\ UNCHANGED <<row, jobs, faults>>

\* After-hooks (their errors are logged) and the domain event.
Announce(w) ==
  /\ proc[w].step = "announce"
  /\ proc[w].op # "purge"
  /\ Finish(w)
  /\ UNCHANGED <<row, storage, jobs, faults>>

-----------------------------------------------------------------------------
(* activate, suspend and restore: one load, one save. The commands refuse  *)
(* a deleted tenant, the admin routes do not.                              *)

StartActivate(w, t) ==
  /\ status[t] \in ActivateFrom
  /\ Found(t, TRUE)
  /\ ~IsActive(t)
  /\ Load(w, "activate", t, "save")
  /\ UNCHANGED <<row, storage, jobs, faults>>

StartSuspend(w, t) ==
  /\ status[t] \in SuspendFrom \ {"suspended"}
  /\ Found(t, TRUE)
  /\ Load(w, "suspend", t, "save")
  /\ UNCHANGED <<row, storage, jobs, faults>>

StartRestore(w, t) ==
  /\ Found(t, TRUE)
  /\ deletion[t] # "live"
  /\ Load(w, "restore", t, "save")
  /\ UNCHANGED <<row, storage, jobs, faults>>

\* Variant of ActivateSave: activating a tenant also clears deletedAt.
ActivateRestoring(w) ==
  /\ At(w, "activate", "save")
  /\ Save(w, "active", "live")
  /\ Saved(w, "active", "announce")
  /\ UNCHANGED <<storage, jobs, faults>>

ActivateSave(w) ==
  /\ At(w, "activate", "save")
  /\ Save(w, "active", proc[w].deletion)
  /\ Saved(w, "active", "announce")
  /\ UNCHANGED <<storage, jobs, faults>>

SuspendSave(w) ==
  /\ At(w, "suspend", "save")
  /\ Save(w, "suspended", proc[w].deletion)
  /\ Saved(w, "suspended", "announce")
  /\ UNCHANGED <<storage, jobs, faults>>

RestoreSave(w) ==
  /\ At(w, "restore", "save")
  /\ Save(w, proc[w].status, "live")
  /\ Finish(w)
  /\ UNCHANGED <<storage, jobs, faults>>

-----------------------------------------------------------------------------
(* tenant:purge-expired: a snapshot, perhaps a prompt, then one drop per   *)
(* candidate from that snapshot.                                           *)

\* Variants of Expired: a null deletedAt counts as long ago; the snapshot is
\* taken without includeDeleted.
ExpiredNull == {t \in Tenants : Found(t, TRUE) /\ deletion[t] # "fresh"}
ExpiredLive == {t \in Tenants : Found(t, FALSE) /\ deletion[t] = "expired"}

Expired == {t \in Tenants : Found(t, TRUE) /\ deletion[t] = "expired"}

StartPurge(w) ==
  /\ Expired # {}
  /\ LoadAll(w, "purge", Expired, "drop")
  /\ UNCHANGED <<row, storage, jobs, faults>>

PurgeDrop(w, t) ==
  /\ At(w, "purge", "drop")
  /\ t \in proc[w].todo
  /\ storage' = storage \ {t}
  /\ GotoWith(w, "announce", t, proc[w].status, proc[w].deletion)
  /\ UNCHANGED <<row, jobs, faults>>

PurgeAnnounce(w) ==
  /\ At(w, "purge", "announce")
  /\ NextOf(w, proc[w].t)
  /\ UNCHANGED <<row, storage, jobs, faults>>

-----------------------------------------------------------------------------
(* tenant:doctor --fix, the provisioning_stalled check.                    *)

\* Variant of Stalled: the snapshot is taken without includeDeleted.
StalledLive == {t \in Tenants : Found(t, FALSE) /\ status[t] = "provisioning" /\ t \in old}

Stalled == {t \in Tenants : Found(t, TRUE) /\ status[t] = "provisioning" /\ t \in old}

StartDoctor(w) ==
  /\ Stalled # {}
  /\ LoadAll(w, "doctor", Stalled, "fix")
  /\ UNCHANGED <<row, storage, jobs, faults>>

\* The copies of the snapshot say "provisioning", so "failed" is always dirty.
DoctorFix(w, t) ==
  /\ At(w, "doctor", "fix")
  /\ t \in proc[w].todo
  /\ status' = [status EXCEPT ![t] = "failed"]
  /\ NextOf(w, t)
  /\ UNCHANGED <<deletion, old, storage, jobs, faults>>

-----------------------------------------------------------------------------
(* tenant:migrate:fresh: driver.reset drops and recreates each storage.    *)

StartFresh(w) ==
  /\ \E ts \in SUBSET {t \in Tenants : Found(t, TRUE)} :
       ts # {} /\ LoadAll(w, "fresh", ts, "drop")
  /\ UNCHANGED <<row, storage, jobs, faults>>

FreshDrop(w, t) ==
  /\ At(w, "fresh", "drop")
  /\ t \in proc[w].todo
  /\ storage' = storage \ {t}
  /\ GotoWith(w, "recreate", t, proc[w].status, proc[w].deletion)
  /\ UNCHANGED <<row, jobs, faults>>

\* CREATE SCHEMA without IF NOT EXISTS; its error ends this tenant's turn.
FreshRecreate(w) ==
  /\ At(w, "fresh", "recreate")
  /\ storage' = storage \cup {proc[w].t}
  /\ NextOf(w, proc[w].t)
  /\ UNCHANGED <<row, jobs, faults>>

-----------------------------------------------------------------------------
(* Faults and time.                                                        *)

\* An exception nothing catches, or the death of the process: the operation
\* stops where it is, and the queue gets the job back.
Fail(w) ==
  /\ proc[w] # Idle
  /\ faults < MaxFaults
  /\ faults' = faults + 1
  /\ Finish(w)
  /\ IF proc[w].op \in JobKinds THEN Retry(<<proc[w].op, proc[w].t>>) ELSE UNCHANGED jobs
  /\ UNCHANGED <<row, storage>>

\* The loops of purge, migrate:fresh and doctor catch the error of one tenant.
SkipTenant(w) ==
  /\ proc[w].op \in {"purge", "fresh", "doctor"}
  /\ faults < MaxFaults
  /\ faults' = faults + 1
  /\ \E t \in proc[w].todo :
       /\ proc[w].t \in {NoTenant, t}
       /\ NextOf(w, t)
  /\ UNCHANGED <<row, storage, jobs>>

\* The queue takes a slow job for a stalled one and delivers it again.
Redeliver(w) ==
  /\ proc[w].op \in JobKinds
  /\ faults < MaxFaults
  /\ faults' = faults + 1
  /\ Retry(<<proc[w].op, proc[w].t>>)
  /\ UNCHANGED <<row, storage, proc>>

\* 30 minutes pass since the creation of t.
AgeCreation(t) ==
  /\ status[t] # "absent"
  /\ t \notin old
  /\ old' = old \cup {t}
  /\ UNCHANGED <<status, deletion, storage, jobs, proc, faults>>

\* The retention window of t elapses.
AgeDeletion(t) ==
  /\ deletion[t] = "fresh"
  /\ deletion' = [deletion EXCEPT ![t] = "expired"]
  /\ UNCHANGED <<status, old, storage, jobs, proc, faults>>

-----------------------------------------------------------------------------
\* A step of the operation worker w is in.
Proceed(w) ==
  \/ DispatchInstall(w)
  \/ MarkProvisioning(w) \/ Provision(w) \/ MarkActive(w) \/ MarkFailed(w)
  \/ UninstallDrop(w) \/ MarkDeleted(w) \/ DestroyDrop(w) \/ Announce(w)
  \/ ActivateSave(w) \/ SuspendSave(w) \/ RestoreSave(w)
  \/ PurgeAnnounce(w) \/ FreshRecreate(w)
  \/ \E t \in Tenants : PurgeDrop(w, t) \/ DoctorFix(w, t) \/ FreshDrop(w, t)

\* The queue starts a job on worker w.
StartJob(w) == \E t \in Tenants : TakeInstall(w, t) \/ TakeUninstall(w, t)

\* A person or the cron starts an operation on worker w.
StartCommand(w) ==
  \/ StartPurge(w) \/ StartDoctor(w) \/ StartFresh(w)
  \/ \E t \in Tenants :
       \/ CreateTenant(w, t) \/ StartDestroy(w, t)
       \/ StartActivate(w, t) \/ StartSuspend(w, t) \/ StartRestore(w, t)

Fault(w) == InstallError(w) \/ Fail(w) \/ SkipTenant(w) \/ Redeliver(w)

Environment(t) == InstallNotFound(t) \/ DispatchUninstall(t) \/ AgeCreation(t) \/ AgeDeletion(t)

Next ==
  \/ \E w \in Workers : Proceed(w) \/ StartJob(w) \/ StartCommand(w) \/ Fault(w)
  \/ \E t \in Tenants : Environment(t)

Spec == Init /\ [][Next]_vars

\* A process that runs goes on; a queue worker picks up waiting jobs; the cron
\* fires again and again; time passes. Nothing is assumed of people.
Fairness ==
  /\ \A w \in Workers : WF_vars(Proceed(w))
  /\ SF_vars(\E w \in Workers : StartJob(w))
  /\ SF_vars(\E w \in Workers : StartPurge(w))
  /\ SF_vars(\E w \in Workers : StartDoctor(w))
  /\ \A t \in Tenants :
       WF_vars(InstallNotFound(t)) /\ WF_vars(AgeCreation(t)) /\ WF_vars(AgeDeletion(t))

FairSpec == Spec /\ Fairness

-----------------------------------------------------------------------------
(* Properties.                                                             *)

\* Deployments in which every status a request is served under follows from a
\* provisioned storage: storage is dropped under deleted tenants only (no
\* uninstall job, no migrate:fresh), nothing that drops storage is combined
\* with restore, and operators activate what was suspended and suspend what
\* was active.
SafeDeployment ==
  /\ Ops \cap {"uninstall", "fresh"} = {}
  /\ "restore" \in Ops => Ops \cap {"destroyDrop", "purge"} = {}
  /\ ActivateFrom \subseteq {"active", "suspended"}
  /\ SuspendFrom \subseteq {"active", "suspended"}

\* The guard lets no request of a tenant through whose schema does not exist.
\* (tenant_guard_middleware checks the row alone and trusts the install job,
\* destroy, purge and the doctor to keep row and schema together.)
RoutableHasStorage == \A t \in Tenants : Routable(t) => t \in storage

\* The lifecycle implements the promise of ServedTenants: a request is served
\* from existing storage and storage in service is never dropped.
Served == INSTANCE ServedTenants
            WITH served <- {t \in Tenants : Routable(t)}, stored <- storage
ServedTenantsSpec == Served!Spec

\* No step drops the schema of a tenant that is not soft-deleted at that
\* moment, although destroy and purge drop on the word of an old copy.
DropsOnlyDeleted ==
  [][\A t \in storage \ storage' : deletion[t] # "live"]_vars

\* No handler but restore brings a deleted tenant back, however old the copy
\* it saves: Lucid's save leaves deletedAt alone unless the handler set it.
DeletionIsSticky ==
  [][\A t \in Tenants : deletion[t] # "live" /\ deletion'[t] = "live" =>
       \E w \in Workers : proc[w].op = "restore" /\ proc[w].t = t]_vars

\* No tenant stays in provisioning: a crash before the dispatch, a throwing
\* before-hook or a spent job is answered by tenant:doctor --fix, which the
\* cron runs.
NoLimbo == \A t \in Tenants : <>[](status[t] # "provisioning")

\* The schema of a tenant past its retention window is dropped, or the tenant
\* is restored or deleted anew, as long as the purge runs from cron.
ExpiredIsReclaimed ==
  \A t \in Tenants : (deletion[t] = "expired" /\ t \in storage)
                        ~> (deletion[t] # "expired" \/ t \notin storage)

\* "Drop schemas of soft-deleted tenants" (tenant_purge_expired.ts): the purge
\* drops no schema of a tenant that is not soft-deleted when it drops it.
PurgeDropsOnlyDeleted ==
  [][\A w \in Workers, t \in Tenants :
       At(w, "purge", "drop") /\ proc'[w].step = "announce" /\ proc'[w].t = t
         => deletion[t] # "live"]_vars
=============================================================================
