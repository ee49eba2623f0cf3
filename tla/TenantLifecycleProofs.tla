------------------------ MODULE TenantLifecycleProofs ------------------------
(***************************************************************************)
(* For every set of tenants and workers, every number of attempts and      *)
(* faults: the types, deletion being sticky, and, in the deployments of    *)
(* SafeDeployment, that a routable tenant has storage.                     *)
(***************************************************************************)
EXTENDS TenantLifecycle, TLAPS

USE DEF Statuses, Deletions, JobKinds, Jobs, Operations, Steps, Procs, Idle, row, jobs

-----------------------------------------------------------------------------
(* Types.                                                                  *)

LEMMA TypeInit == Init => TypeOK
  BY ConstantsAssumption DEF Init, TypeOK, ProcOK

\* The worker's record of a load, of a loop's start and of a loop's next turn.
LEMMA LoadType ==
  ASSUME TypeOK, NEW w \in Workers, NEW t \in Tenants, NEW op, NEW step \in Steps,
         Load(w, op, t, step)
  PROVE  ProcOK'
  BY ConstantsAssumption DEF TypeOK, ProcOK, Load

LEMMA LoadAllType ==
  ASSUME TypeOK, NEW w \in Workers, NEW ts \in SUBSET Tenants, NEW op \in {"purge", "doctor", "fresh"},
         NEW step \in {"drop", "fix"}, LoadAll(w, op, ts, step)
  PROVE  ProcOK'
  BY ConstantsAssumption DEF TypeOK, ProcOK, LoadAll, Loop

LEMMA NextOfType ==
  ASSUME TypeOK, NEW w \in Workers, NEW t,
         proc[w].op \in {"purge", "doctor", "fresh"}, NextOf(w, t)
  PROVE  ProcOK'
  BY DEF TypeOK, ProcOK, NextOf, Loop

\* The columns a save writes.
LEMMA SaveType ==
  ASSUME TypeOK, NEW w \in Workers, NEW s \in Statuses, NEW d \in Deletions \cup {"now"},
         Save(w, s, d)
  PROVE  /\ status' \in [Tenants -> Statuses]
         /\ deletion' \in [Tenants -> Deletions]
         /\ old' \subseteq Tenants
  BY DEF TypeOK, ProcOK, Save

LEMMA TakeType ==
  ASSUME TypeOK, NEW job \in Jobs, Take(job)
  PROVE  waiting' \subseteq Jobs /\ left' \in [Jobs -> 0..MaxAttempts]
  BY ConstantsAssumption DEF TypeOK, ProcOK, Take

LEMMA RetryType ==
  ASSUME TypeOK, NEW job \in Jobs, Retry(job)
  PROVE  waiting' \subseteq Jobs /\ left' \in [Jobs -> 0..MaxAttempts]
  BY ConstantsAssumption DEF TypeOK, ProcOK, Retry

LEMMA ProceedType ==
  ASSUME TypeOK, NEW w \in Workers, Proceed(w)
  PROVE  TypeOK'
<1> USE ConstantsAssumption
<1>0. proc[w] \in Procs
  BY DEF TypeOK, ProcOK
<1>1. CASE DispatchInstall(w)
  BY <1>0, <1>1 DEF TypeOK, ProcOK, DispatchInstall, Finish, At
<1>2. CASE MarkProvisioning(w)
  BY SaveType, <1>0, <1>2 DEF TypeOK, ProcOK, MarkProvisioning, At, Saved, GotoWith
<1>3. CASE Provision(w)
  BY <1>0, <1>3 DEF TypeOK, ProcOK, Provision, At, Goto, GotoWith
<1>4. CASE MarkActive(w)
  BY SaveType, <1>0, <1>4 DEF TypeOK, ProcOK, MarkActive, At, Saved, GotoWith
<1>5. CASE MarkFailed(w)
  BY SaveType, RetryType, <1>0, <1>5 DEF TypeOK, ProcOK, MarkFailed, Finish, At
<1>6. CASE UninstallDrop(w)
  BY <1>0, <1>6 DEF TypeOK, ProcOK, UninstallDrop, At, Goto, GotoWith
<1>7. CASE MarkDeleted(w)
  BY SaveType, <1>0, <1>7 DEF TypeOK, ProcOK, MarkDeleted, GotoWith
<1>8. CASE DestroyDrop(w)
  BY <1>0, <1>8 DEF TypeOK, ProcOK, DestroyDrop, At, Goto, GotoWith
<1>9. CASE Announce(w)
  BY <1>0, <1>9 DEF TypeOK, ProcOK, Announce, Finish
<1>10. CASE ActivateSave(w)
  BY SaveType, <1>0, <1>10 DEF TypeOK, ProcOK, ActivateSave, At, Saved, GotoWith
<1>11. CASE SuspendSave(w)
  BY SaveType, <1>0, <1>11 DEF TypeOK, ProcOK, SuspendSave, At, Saved, GotoWith
<1>12. CASE RestoreSave(w)
  BY SaveType, <1>0, <1>12 DEF TypeOK, ProcOK, RestoreSave, At, Finish
<1>13. CASE PurgeAnnounce(w)
  <2>1. ProcOK'
    BY NextOfType, <1>13 DEF PurgeAnnounce, At
  <2> QED  BY <1>13, <2>1 DEF TypeOK, PurgeAnnounce
<1>14. CASE FreshRecreate(w)
  <2>1. proc[w].op = "fresh" /\ proc[w].t \in Tenants
    BY <1>0, <1>14 DEF TypeOK, ProcOK, FreshRecreate, At
  <2>2. ProcOK'
    BY NextOfType, <1>14, <2>1 DEF FreshRecreate
  <2> QED  BY <1>14, <2>1, <2>2 DEF TypeOK, FreshRecreate
<1>15. CASE \E t \in Tenants : PurgeDrop(w, t) \/ DoctorFix(w, t) \/ FreshDrop(w, t)
  <2> PICK t \in Tenants : PurgeDrop(w, t) \/ DoctorFix(w, t) \/ FreshDrop(w, t)
    BY <1>15
  <2>1. CASE PurgeDrop(w, t)
    BY <1>0, <2>1 DEF TypeOK, ProcOK, PurgeDrop, GotoWith, At
  <2>2. CASE DoctorFix(w, t)
    BY NextOfType, <1>0, <2>2 DEF TypeOK, ProcOK, DoctorFix, At
  <2>3. CASE FreshDrop(w, t)
    BY <1>0, <2>3 DEF TypeOK, ProcOK, FreshDrop, GotoWith, At
  <2> QED  BY <2>1, <2>2, <2>3
<1> QED  BY <1>1, <1>2, <1>3, <1>4, <1>5, <1>6, <1>7, <1>8, <1>9, <1>10, <1>11, <1>12, <1>13,
           <1>14, <1>15 DEF Proceed

LEMMA StartJobType ==
  ASSUME TypeOK, NEW w \in Workers, StartJob(w)
  PROVE  TypeOK'
<1> USE ConstantsAssumption
<1> PICK t \in Tenants : TakeInstall(w, t) \/ TakeUninstall(w, t)
  BY DEF StartJob
<1>1. CASE TakeInstall(w, t)
  BY LoadType, TakeType, <1>1 DEF TypeOK, TakeInstall
<1>2. CASE TakeUninstall(w, t)
  BY LoadType, TakeType, <1>2 DEF TypeOK, TakeUninstall
<1> QED  BY <1>1, <1>2

LEMMA StartCommandType ==
  ASSUME TypeOK, NEW w \in Workers, StartCommand(w)
  PROVE  TypeOK'
<1> USE ConstantsAssumption
<1>1. CASE StartPurge(w)
  BY LoadAllType, <1>1 DEF TypeOK, StartPurge, Expired
<1>2. CASE StartDoctor(w)
  BY LoadAllType, <1>2 DEF TypeOK, StartDoctor, Stalled
<1>3. CASE StartFresh(w)
  BY LoadAllType, <1>3 DEF TypeOK, StartFresh
<1>4. CASE \E t \in Tenants : \/ CreateTenant(w, t) \/ StartDestroy(w, t)
                             \/ StartActivate(w, t) \/ StartSuspend(w, t) \/ StartRestore(w, t)
  <2> PICK t \in Tenants : \/ CreateTenant(w, t) \/ StartDestroy(w, t)
                           \/ StartActivate(w, t) \/ StartSuspend(w, t) \/ StartRestore(w, t)
    BY <1>4
  <2>1. CASE CreateTenant(w, t)
    BY <2>1 DEF TypeOK, ProcOK, CreateTenant
  <2>2. CASE StartDestroy(w, t)
    BY LoadType, <2>2 DEF TypeOK, StartDestroy
  <2>3. CASE StartActivate(w, t)
    BY LoadType, <2>3 DEF TypeOK, StartActivate
  <2>4. CASE StartSuspend(w, t)
    BY LoadType, <2>4 DEF TypeOK, StartSuspend
  <2>5. CASE StartRestore(w, t)
    BY LoadType, <2>5 DEF TypeOK, StartRestore
  <2> QED  BY <2>1, <2>2, <2>3, <2>4, <2>5
<1> QED  BY <1>1, <1>2, <1>3, <1>4 DEF StartCommand

LEMMA FaultType ==
  ASSUME TypeOK, NEW w \in Workers, Fault(w)
  PROVE  TypeOK'
<1> USE ConstantsAssumption
<1>1. CASE InstallError(w)
  <2>1. proc[w] \in Procs /\ proc[w].op = "install"
    BY <1>1 DEF TypeOK, ProcOK, InstallError, At
  <2> QED  BY <1>1, <2>1 DEF TypeOK, ProcOK, InstallError, Goto, GotoWith
<1>2. CASE Fail(w)
  <2>1. CASE proc[w].op \in JobKinds
    <3>1. <<proc[w].op, proc[w].t>> \in Jobs
      BY <2>1 DEF TypeOK, ProcOK
    <3> QED  BY RetryType, <1>2, <2>1, <3>1 DEF TypeOK, ProcOK, Fail, Finish
  <2>2. CASE proc[w].op \notin JobKinds
    BY <1>2, <2>2 DEF TypeOK, ProcOK, Fail, Finish
  <2> QED  BY <2>1, <2>2
<1>3. CASE SkipTenant(w)
  BY NextOfType, <1>3 DEF TypeOK, SkipTenant
<1>4. CASE Redeliver(w)
  BY RetryType, <1>4 DEF TypeOK, ProcOK, Redeliver
<1> QED  BY <1>1, <1>2, <1>3, <1>4 DEF Fault

LEMMA EnvironmentType ==
  ASSUME TypeOK, NEW t \in Tenants, Environment(t)
  PROVE  TypeOK'
<1> USE ConstantsAssumption
<1>1. CASE InstallNotFound(t)
  BY <1>1 DEF TypeOK, ProcOK, InstallNotFound
<1>2. CASE DispatchUninstall(t)
  BY <1>2 DEF TypeOK, ProcOK, DispatchUninstall
<1>3. CASE AgeCreation(t)
  BY <1>3 DEF TypeOK, ProcOK, AgeCreation
<1>4. CASE AgeDeletion(t)
  BY <1>4 DEF TypeOK, ProcOK, AgeDeletion
<1> QED  BY <1>1, <1>2, <1>3, <1>4 DEF Environment

LEMMA TypeStep == TypeOK /\ [Next]_vars => TypeOK'
<1> SUFFICES ASSUME TypeOK, [Next]_vars  PROVE TypeOK'
  OBVIOUS
<1>1. CASE \E w \in Workers : Proceed(w) \/ StartJob(w) \/ StartCommand(w) \/ Fault(w)
  BY <1>1, ProceedType, StartJobType, StartCommandType, FaultType
<1>2. CASE \E t \in Tenants : Environment(t)
  BY <1>2, EnvironmentType
<1>3. CASE UNCHANGED vars
  BY <1>3 DEF vars, TypeOK, ProcOK
<1> QED  BY <1>1, <1>2, <1>3 DEF Next

\* Every state of the lifecycle has its types: the columns hold the values the
\* handlers write, a job never has more attempts than the queue gives it, and
\* every worker that is past its load works on a tenant.
THEOREM TypeCorrect == Spec => []TypeOK
  BY TypeInit, TypeStep, PTL DEF Spec

-----------------------------------------------------------------------------
(* What the steps leave alone.                                             *)

LEMMA StartJobFrame ==
  ASSUME NEW w \in Workers, StartJob(w)  PROVE  UNCHANGED <<row, storage>>
  BY DEF StartJob, TakeInstall, TakeUninstall

LEMMA FaultFrame ==
  ASSUME NEW w \in Workers, Fault(w)  PROVE  UNCHANGED <<row, storage>>
  BY DEF Fault, InstallError, Fail, SkipTenant, Redeliver

LEMMA StartCommandFrame ==
  ASSUME TypeOK, NEW w \in Workers, StartCommand(w)
  PROVE  /\ UNCHANGED <<deletion, storage>>
         /\ \/ UNCHANGED status
            \/ \E t \in Tenants : /\ status[t] = "absent"
                                 /\ status' = [status EXCEPT ![t] = "provisioning"]
  BY DEF StartCommand, StartPurge, StartDoctor, StartFresh, CreateTenant, StartDestroy,
         StartActivate, StartSuspend, StartRestore

LEMMA EnvironmentFrame ==
  ASSUME NEW t \in Tenants, Environment(t)
  PROVE  /\ UNCHANGED <<status, storage, proc>>
         /\ \/ UNCHANGED deletion
            \/ deletion[t] = "fresh" /\ deletion' = [deletion EXCEPT ![t] = "expired"]
  BY DEF Environment, InstallNotFound, DispatchUninstall, AgeCreation, AgeDeletion

LEMMA ProceedFrame ==
  ASSUME TypeOK, NEW w \in Workers, Proceed(w), NEW v \in Workers, v # w
  PROVE  proc'[v] = proc[v]
<1> USE DEF TypeOK, ProcOK
<1>1. CASE DispatchInstall(w) \/ MarkFailed(w) \/ Announce(w) \/ RestoreSave(w)
  BY <1>1 DEF DispatchInstall, MarkFailed, Announce, RestoreSave, Finish
<1>2. CASE \/ MarkProvisioning(w) \/ MarkActive(w) \/ ActivateSave(w) \/ SuspendSave(w) \/ MarkDeleted(w)
  BY <1>2 DEF MarkProvisioning, MarkActive, ActivateSave, SuspendSave, MarkDeleted, Saved, GotoWith
<1>3. CASE Provision(w) \/ UninstallDrop(w) \/ DestroyDrop(w)
  BY <1>3 DEF Provision, UninstallDrop, DestroyDrop, Goto, GotoWith
<1>4. CASE \E t \in Tenants : PurgeDrop(w, t) \/ FreshDrop(w, t)
  BY <1>4 DEF PurgeDrop, FreshDrop, GotoWith
<1>5. CASE PurgeAnnounce(w) \/ FreshRecreate(w) \/ \E t \in Tenants : DoctorFix(w, t)
  <2>1. \E t : NextOf(w, t)
    BY <1>5 DEF PurgeAnnounce, FreshRecreate, DoctorFix
  <2> QED  BY <2>1 DEF NextOf
<1> QED  BY <1>1, <1>2, <1>3, <1>4, <1>5 DEF Proceed

-----------------------------------------------------------------------------
(* Deletion is sticky.                                                     *)

LEMMA SaveKeepsDeletion ==
  ASSUME TypeOK, NEW w \in Workers, NEW s \in Statuses, NEW d \in {proc[w].deletion, "now"},
         Save(w, s, d), NEW t \in Tenants, deletion[t] # "live"
  PROVE  deletion'[t] # "live"
  BY DEF TypeOK, ProcOK, Save

LEMMA ProceedKeepsDeletion ==
  ASSUME TypeOK, NEW w \in Workers, Proceed(w),
         NEW t \in Tenants, deletion[t] # "live", deletion'[t] = "live"
  PROVE  proc[w].op = "restore" /\ proc[w].t = t
<1>1. CASE RestoreSave(w)
  BY <1>1 DEF RestoreSave, At, Save, TypeOK
<1>2. CASE MarkProvisioning(w) \/ MarkActive(w) \/ MarkFailed(w) \/ ActivateSave(w) \/ SuspendSave(w)
  BY <1>2, SaveKeepsDeletion DEF MarkProvisioning, MarkActive, MarkFailed, ActivateSave, SuspendSave
<1>3. CASE MarkDeleted(w)
  <2>1. proc[w].status \in Statuses
    BY DEF TypeOK, ProcOK
  <2> QED  BY <1>3, <2>1, SaveKeepsDeletion DEF MarkDeleted
<1>4. CASE UNCHANGED deletion
  BY <1>4
<1> QED
  BY <1>1, <1>2, <1>3, <1>4 DEF Proceed, DispatchInstall, Provision, UninstallDrop, DestroyDrop,
     Announce, PurgeAnnounce, FreshRecreate, PurgeDrop, DoctorFix, FreshDrop

\* However old the copies that the handlers save, none but restore's undeletes
\* a tenant.
THEOREM DeletionSticky == Spec => DeletionIsSticky
<1> DEFINE Restored == \A t \in Tenants : deletion[t] # "live" /\ deletion'[t] = "live" =>
                         \E w \in Workers : proc[w].op = "restore" /\ proc[w].t = t
<1>1. TypeOK /\ [Next]_vars => Restored
  <2> SUFFICES ASSUME TypeOK, [Next]_vars, NEW t \in Tenants,
                      deletion[t] # "live", deletion'[t] = "live"
               PROVE  \E w \in Workers : proc[w].op = "restore" /\ proc[w].t = t
    OBVIOUS
  <2>1. ASSUME NEW w \in Workers, Proceed(w) \/ StartJob(w) \/ StartCommand(w) \/ Fault(w)
        PROVE  proc[w].op = "restore" /\ proc[w].t = t
    BY <2>1, ProceedKeepsDeletion, StartJobFrame, StartCommandFrame, FaultFrame
  <2>2. ASSUME NEW u \in Tenants, Environment(u)  PROVE FALSE
    BY <2>2, EnvironmentFrame DEF TypeOK
  <2>3. CASE UNCHANGED vars
    BY <2>3 DEF vars
  <2> QED  BY <2>1, <2>2, <2>3 DEF Next
<1>2. TypeOK /\ [Next]_vars => [Restored]_vars
  BY <1>1
<1> QED  BY <1>2, TypeCorrect, PTL DEF Spec, DeletionIsSticky

-----------------------------------------------------------------------------
(* Storage before service. RoutableHasStorage is not inductive: it says    *)
(* nothing of suspended tenants, of the workers that are about to write a  *)
(* status or drop a storage, nor of a deleted tenant that comes back.      *)

\* t has storage, or is deleted for good.
Settled(t) == t \in storage \/ (deletion[t] # "live" /\ "restore" \notin Ops)

\* What a worker may rely on when it takes its next step.
WorkerInv(w) ==
  LET p == proc[w]
  IN  /\ p.op \in Ops \cup {"none"}
      /\ p.op = "install" /\ p.step = "markActive" => Settled(p.t)
      /\ p.op \in {"activate", "suspend"} /\ p.step = "save" => Settled(p.t)
      /\ p.op = "destroyDrop" /\ p.step = "drop" => deletion[p.t] # "live"
      /\ p.op = "purge" => \A t \in p.todo : deletion[t] # "live"

StorageInv ==
  /\ TypeOK
  /\ \A t \in Tenants : status[t] \in {"active", "suspended"} => Settled(t)
  /\ \A w \in Workers : WorkerInv(w)

\* Every deployment of SafeDeployment that drops anything never restores.
LEMMA DropOrRestore ==
  ASSUME SafeDeployment
  PROVE  /\ "uninstall" \notin Ops /\ "fresh" \notin Ops
         /\ "restore" \in Ops => "destroyDrop" \notin Ops /\ "purge" \notin Ops
  BY DEF SafeDeployment

LEMMA StorageInit == Init => StorageInv
  BY TypeInit DEF Init, StorageInv, WorkerInv, Settled

\* A storage that goes is the storage of a tenant deleted for good.
LEMMA DropStep ==
  ASSUME SafeDeployment, StorageInv, [Next]_vars, NEW t \in storage, t \notin storage'
  PROVE  deletion[t] # "live" /\ "restore" \notin Ops
<1>1. ASSUME NEW w \in Workers, Proceed(w)
      PROVE  deletion[t] # "live" /\ "restore" \notin Ops
  <2>0. WorkerInv(w)
    BY DEF StorageInv
  <2>1. CASE DestroyDrop(w)
    BY <2>0, <2>1, DropOrRestore DEF WorkerInv, DestroyDrop, At
  <2>2. ASSUME NEW u \in Tenants, PurgeDrop(w, u)
        PROVE  deletion[t] # "live" /\ "restore" \notin Ops
    BY <2>0, <2>2, DropOrRestore DEF WorkerInv, PurgeDrop, At
  <2>3. ~UninstallDrop(w) /\ ~(\E u \in Tenants : FreshDrop(w, u)) /\ ~FreshRecreate(w)
    BY <2>0, DropOrRestore DEF WorkerInv, UninstallDrop, FreshDrop, FreshRecreate, At
  <2>4. CASE storage \subseteq storage'
    BY <2>4
  <2> QED
    BY <1>1, <2>1, <2>2, <2>3, <2>4 DEF Proceed, DispatchInstall, MarkProvisioning, Provision,
       MarkActive, MarkFailed, MarkDeleted, Announce, ActivateSave, SuspendSave, RestoreSave,
       PurgeAnnounce, DoctorFix
<1>2. ASSUME NEW w \in Workers, StartJob(w) \/ StartCommand(w) \/ Fault(w)  PROVE FALSE
  BY <1>2, StartJobFrame, StartCommandFrame, FaultFrame DEF StorageInv
<1>3. ASSUME NEW u \in Tenants, Environment(u)  PROVE FALSE
  BY <1>3, EnvironmentFrame
<1>4. CASE UNCHANGED vars
  BY <1>4 DEF vars
<1> QED  BY <1>1, <1>2, <1>3, <1>4 DEF Next

\* Where nothing restores, what is deleted stays deleted.
LEMMA DeletedStep ==
  ASSUME StorageInv, [Next]_vars, "restore" \notin Ops, NEW t \in Tenants, deletion[t] # "live"
  PROVE  deletion'[t] # "live"
<1>1. ASSUME NEW w \in Workers, Proceed(w) \/ StartJob(w) \/ StartCommand(w) \/ Fault(w)
      PROVE  deletion'[t] # "live"
  <2>1. proc[w].op # "restore" /\ TypeOK
    BY DEF StorageInv, WorkerInv
  <2> QED  BY <1>1, <2>1, ProceedKeepsDeletion, StartJobFrame, StartCommandFrame, FaultFrame
<1>2. ASSUME NEW u \in Tenants, Environment(u)  PROVE deletion'[t] # "live"
  BY <1>2, EnvironmentFrame DEF StorageInv, TypeOK
<1>3. CASE UNCHANGED vars
  BY <1>3 DEF vars
<1> QED  BY <1>1, <1>2, <1>3 DEF Next

LEMMA SettledStep ==
  ASSUME SafeDeployment, StorageInv, [Next]_vars, NEW t \in Tenants, Settled(t)
  PROVE  Settled(t)'
  BY DropStep, DeletedStep DEF Settled

\* A worker keeps what it relies on while others take steps.
LEMMA WorkerKept ==
  ASSUME SafeDeployment, StorageInv, [Next]_vars, NEW w \in Workers, proc'[w] = proc[w]
  PROVE  WorkerInv(w)'
<1> DEFINE p == proc[w]
<1>1. WorkerInv(w) /\ ProcOK /\ p \in Procs
  BY DEF StorageInv, TypeOK, ProcOK
<1>2. ASSUME p.op \in {"install", "activate", "suspend"}, Settled(p.t)  PROVE Settled(p.t)'
  <2>1. p.t \in Tenants
    BY <1>1, <1>2 DEF ProcOK
  <2>2. Settled(p.t) => Settled(p.t)'
    BY <2>1, DropStep, DeletedStep DEF Settled
  <2> QED  BY <1>2, <2>2
<1>3. ASSUME p.op = "destroyDrop", p.step = "drop"  PROVE deletion'[p.t] # "live"
  <2>1. p.t \in Tenants /\ p.t # NoTenant
    BY <1>1, <1>3, ConstantsAssumption DEF ProcOK
  <2>2. deletion[p.t] # "live" /\ "restore" \notin Ops
    BY <1>1, <1>3, DropOrRestore DEF WorkerInv
  <2> QED  BY <2>1, <2>2, DeletedStep
<1>4. ASSUME p.op = "purge", NEW t \in p.todo  PROVE deletion'[t] # "live"
  <2>1. t \in Tenants /\ deletion[t] # "live" /\ "restore" \notin Ops
    BY <1>1, <1>4, DropOrRestore DEF WorkerInv
  <2> QED  BY <2>1, DeletedStep
<1>5. p' = p /\ Ops' = Ops
  OBVIOUS
<1> QED  BY <1>1, <1>2, <1>3, <1>4, <1>5 DEF WorkerInv, Settled

LEMMA WorkerIdle ==
  ASSUME NEW w \in Workers, proc'[w] = Idle  PROVE WorkerInv(w)'
  BY DEF WorkerInv

\* A worker that goes on with its operation relies on what its step asks for.
LEMMA WorkerMoved ==
  ASSUME SafeDeployment, StorageInv, [Next]_vars, NEW w \in Workers, ProcOK',
         proc'[w].op = proc[w].op, proc'[w].todo \subseteq proc[w].todo,
         proc'[w].op = "install" /\ proc'[w].step = "markActive" => Settled(proc[w].t)',
         proc[w].t = proc'[w].t \/ proc[w].op \notin {"install", "activate", "suspend", "destroyDrop"},
         proc'[w].op \in {"activate", "suspend"} => proc'[w].step # "save",
         proc'[w].op = "destroyDrop" /\ proc'[w].step = "drop" => deletion'[proc'[w].t] # "live"
  PROVE  WorkerInv(w)'
<1>1. WorkerInv(w) /\ proc[w] \in Procs
  BY DEF StorageInv, TypeOK, ProcOK
<1>2. ASSUME proc[w].op = "purge", NEW t \in proc[w].todo  PROVE deletion'[t] # "live"
  <2>1. t \in Tenants /\ deletion[t] # "live" /\ "restore" \notin Ops
    BY <1>1, <1>2, DropOrRestore DEF WorkerInv
  <2> QED  BY <2>1, DeletedStep
<1> QED  BY <1>1, <1>2 DEF WorkerInv, Settled

LEMMA ProceedWorker ==
  ASSUME SafeDeployment, StorageInv, NEW w \in Workers, Proceed(w), NEW v \in Workers
  PROVE  WorkerInv(v)'
<1>0. /\ [Next]_vars /\ TypeOK /\ ProcOK /\ TypeOK' /\ ProcOK'
      /\ WorkerInv(w) /\ proc[w] \in Procs /\ w \in DOMAIN proc
  BY TypeStep DEF Next, StorageInv, TypeOK, ProcOK
<1>1. CASE v # w
  <2>1. proc'[v] = proc[v]
    BY <1>0, <1>1, ProceedFrame
  <2> QED  BY <1>0, <2>1, WorkerKept
<1>2. CASE v = w
  <2>1. CASE DispatchInstall(w) \/ MarkFailed(w) \/ Announce(w) \/ RestoreSave(w)
    BY <1>0, <1>2, <2>1, WorkerIdle DEF DispatchInstall, MarkFailed, Announce, RestoreSave, Finish
  <2>2. CASE MarkProvisioning(w) \/ MarkActive(w) \/ ActivateSave(w) \/ SuspendSave(w)
    BY <1>0, <1>2, <2>2, WorkerMoved
       DEF MarkProvisioning, MarkActive, ActivateSave, SuspendSave, Saved, GotoWith, At
  <2>3. CASE Provision(w)
    BY <1>0, <1>2, <2>3, WorkerMoved DEF Provision, Goto, GotoWith, At, Settled
  <2>4. CASE UninstallDrop(w) \/ FreshRecreate(w) \/ \E t \in Tenants : FreshDrop(w, t)
    BY <1>0, <2>4, DropOrRestore DEF UninstallDrop, FreshRecreate, FreshDrop, At, WorkerInv
  <2>5. CASE MarkDeleted(w)
    <3>1. proc[w].t \in Tenants /\ proc[w].op \notin {"activate", "suspend"} => deletion'[proc[w].t] # "live"
      BY <1>0, <2>5 DEF MarkDeleted, Save, TypeOK
    <3>2. proc[w].t \in Tenants
      BY <1>0, <2>5 DEF MarkDeleted, ProcOK
    <3> QED  BY <1>0, <1>2, <2>5, <3>1, <3>2, WorkerMoved DEF MarkDeleted, GotoWith
  <2>6. CASE DestroyDrop(w)
    BY <1>0, <1>2, <2>6, WorkerMoved DEF DestroyDrop, Goto, GotoWith, At
  <2>7. CASE \E t \in Tenants : PurgeDrop(w, t)
    BY <1>0, <1>2, <2>7, WorkerMoved DEF PurgeDrop, GotoWith, At
  <2>8. ASSUME NEW t, NextOf(w, t), proc[w].op \in {"purge", "doctor"}  PROVE WorkerInv(w)'
    BY <1>0, <2>8, WorkerMoved, WorkerIdle DEF NextOf, Loop
  <2>9. CASE PurgeAnnounce(w) \/ \E t \in Tenants : DoctorFix(w, t)
    BY <1>2, <2>8, <2>9 DEF PurgeAnnounce, DoctorFix, At
  <2> QED  BY <2>1, <2>2, <2>3, <2>4, <2>5, <2>6, <2>7, <2>9 DEF Proceed
<1> QED  BY <1>1, <1>2

LEMMA StartWorker ==
  ASSUME SafeDeployment, StorageInv, NEW w \in Workers, StartJob(w) \/ StartCommand(w),
         NEW v \in Workers
  PROVE  WorkerInv(v)'
<1>0. /\ [Next]_vars /\ TypeOK /\ ProcOK /\ w \in DOMAIN proc
  BY DEF Next, StorageInv, TypeOK, ProcOK
<1>1. UNCHANGED <<deletion, storage>>
  BY <1>0, StartJobFrame, StartCommandFrame
<1>2. ASSUME NEW op, NEW step, NEW t \in Tenants, Load(w, op, t, step), op # "purge",
             op \in {"activate", "suspend"} => status[t] \in {"active", "suspended"},
             op = "install" => step # "markActive",
             op = "destroyDrop" => step # "drop"
      PROVE  WorkerInv(v)'
  <2>1. CASE v # w
    BY <1>0, <1>2, <2>1, WorkerKept DEF Load, ProcOK
  <2>2. CASE v = w
    BY <1>0, <1>1, <1>2, <2>2 DEF Load, WorkerInv, StorageInv, Settled
  <2> QED  BY <2>1, <2>2
<1>3. ASSUME NEW op, NEW step, NEW ts \in SUBSET Tenants, LoadAll(w, op, ts, step),
             op \in {"purge", "doctor", "fresh"},
             op = "purge" => \A t \in ts : deletion[t] # "live"
      PROVE  WorkerInv(v)'
  <2>1. CASE v # w
    BY <1>0, <1>3, <2>1, WorkerKept DEF LoadAll, ProcOK
  <2>2. CASE v = w
    BY <1>0, <1>1, <1>3, <2>2 DEF LoadAll, Loop, WorkerInv
  <2> QED  BY <2>1, <2>2
<1>4. CASE \E t \in Tenants : TakeInstall(w, t) \/ TakeUninstall(w, t)
  BY <1>2, <1>4 DEF TakeInstall, TakeUninstall
<1>5. CASE StartPurge(w)
  BY <1>3, <1>5 DEF StartPurge, Expired
<1>6. CASE StartDoctor(w)
  BY <1>3, <1>6 DEF StartDoctor, Stalled
<1>7. CASE StartFresh(w)
  BY <1>3, <1>7 DEF StartFresh
<1>8. CASE \E t \in Tenants : CreateTenant(w, t)
  <2>1. CASE v # w
    BY <1>0, <1>8, <2>1, WorkerKept DEF CreateTenant, ProcOK
  <2>2. CASE v = w
    BY <1>0, <1>8, <2>2 DEF CreateTenant, WorkerInv, ProcOK
  <2> QED  BY <2>1, <2>2
<1>9. CASE \E t \in Tenants : StartDestroy(w, t) \/ StartRestore(w, t)
  BY <1>2, <1>9 DEF StartDestroy, StartRestore
<1>10. CASE \E t \in Tenants : StartActivate(w, t) \/ StartSuspend(w, t)
  BY <1>2, <1>10 DEF StartActivate, StartSuspend, SafeDeployment
<1> QED  BY <1>4, <1>5, <1>6, <1>7, <1>8, <1>9, <1>10 DEF StartJob, StartCommand

LEMMA FaultWorker ==
  ASSUME SafeDeployment, StorageInv, NEW w \in Workers, Fault(w), NEW v \in Workers
  PROVE  WorkerInv(v)'
<1>0. /\ [Next]_vars /\ TypeOK /\ ProcOK /\ TypeOK' /\ ProcOK' /\ w \in DOMAIN proc
      /\ proc[w] \in Procs
  BY TypeStep DEF Next, StorageInv, TypeOK, ProcOK
<1>1. CASE v # w
  <2>1. proc'[v] = proc[v]
    <3>1. CASE InstallError(w)
      BY <1>0, <1>1, <3>1 DEF InstallError, Goto, GotoWith
    <3>2. CASE Fail(w)
      BY <1>0, <1>1, <3>2 DEF Fail, Finish
    <3>3. CASE SkipTenant(w)
      BY <1>0, <1>1, <3>3 DEF SkipTenant, NextOf, ProcOK
    <3>4. CASE Redeliver(w)
      BY <3>4 DEF Redeliver
    <3> QED  BY <3>1, <3>2, <3>3, <3>4 DEF Fault
  <2> QED  BY <1>0, <2>1, WorkerKept
<1>2. CASE v = w
  <2>1. CASE InstallError(w)
    BY <1>0, <1>2, <2>1, WorkerMoved DEF InstallError, Goto, GotoWith, At
  <2>2. CASE Fail(w)
    BY <1>0, <1>2, <2>2, WorkerIdle DEF Fail, Finish
  <2>3. CASE SkipTenant(w)
    BY <1>0, <1>2, <2>3, WorkerMoved, WorkerIdle DEF SkipTenant, NextOf, Loop
  <2>4. CASE Redeliver(w)
    BY <1>0, <1>2, <2>4, WorkerKept DEF Redeliver
  <2> QED  BY <2>1, <2>2, <2>3, <2>4 DEF Fault
<1> QED  BY <1>1, <1>2

\* A status that may be served is written for a settled tenant only.
LEMMA StatusStep ==
  ASSUME SafeDeployment, StorageInv, [Next]_vars,
         NEW t \in Tenants, status'[t] \in {"active", "suspended"}
  PROVE  Settled(t)
<1>0. /\ TypeOK /\ ProcOK
      /\ status[t] \in {"active", "suspended"} => Settled(t)
      /\ \A w \in Workers : WorkerInv(w)
  BY DEF StorageInv, TypeOK
<1>1. ASSUME NEW w \in Workers, Proceed(w)  PROVE Settled(t)
  <2>1. CASE MarkActive(w) \/ ActivateSave(w) \/ SuspendSave(w)
    <3>1. status' = status \/ \E s \in Statuses : status' = [status EXCEPT ![proc[w].t] = s]
      BY <2>1 DEF MarkActive, ActivateSave, SuspendSave, Save
    <3>2. Settled(proc[w].t)
      BY <1>0, <2>1 DEF WorkerInv, MarkActive, ActivateSave, SuspendSave, At
    <3> QED  BY <1>0, <3>1, <3>2 DEF TypeOK
  <2>2. CASE MarkProvisioning(w) \/ MarkFailed(w) \/ \E u \in Tenants : DoctorFix(w, u)
    BY <1>0, <2>2 DEF TypeOK, MarkProvisioning, MarkFailed, DoctorFix, Save
  <2>3. CASE UNCHANGED status
    BY <1>0, <2>3
  <2> QED
    BY <1>1, <2>1, <2>2, <2>3 DEF Proceed, DispatchInstall, Provision, UninstallDrop, MarkDeleted,
       DestroyDrop, Announce, RestoreSave, PurgeDrop, PurgeAnnounce, FreshDrop, FreshRecreate, Save
<1>2. ASSUME NEW w \in Workers, StartJob(w) \/ StartCommand(w) \/ Fault(w)  PROVE Settled(t)
  BY <1>0, <1>2, StartJobFrame, StartCommandFrame, FaultFrame DEF TypeOK
<1>3. ASSUME NEW u \in Tenants, Environment(u)  PROVE Settled(t)
  BY <1>0, <1>3, EnvironmentFrame
<1>4. CASE UNCHANGED vars
  BY <1>0, <1>4 DEF vars
<1> QED  BY <1>1, <1>2, <1>3, <1>4 DEF Next

LEMMA StorageStep ==
  ASSUME SafeDeployment, StorageInv, [Next]_vars  PROVE StorageInv'
<1>1. TypeOK'
  BY TypeStep DEF StorageInv
<1>2. ASSUME NEW t \in Tenants, status'[t] \in {"active", "suspended"}  PROVE Settled(t)'
  BY <1>2, StatusStep, SettledStep
<1>3. ASSUME NEW v \in Workers  PROVE WorkerInv(v)'
  <2>1. ASSUME NEW w \in Workers, Proceed(w) \/ StartJob(w) \/ StartCommand(w) \/ Fault(w)
        PROVE  WorkerInv(v)'
    BY <2>1, ProceedWorker, StartWorker, FaultWorker
  <2>2. ASSUME NEW t \in Tenants, Environment(t)  PROVE WorkerInv(v)'
    BY <2>2, EnvironmentFrame, WorkerKept
  <2>3. CASE UNCHANGED vars
    BY <2>3, WorkerKept DEF vars
  <2> QED  BY <2>1, <2>2, <2>3 DEF Next
<1> QED  BY <1>1, <1>2, <1>3 DEF StorageInv

LEMMA RoutableOfInv == StorageInv => RoutableHasStorage
  BY DEF StorageInv, RoutableHasStorage, Routable, Settled, TypeOK

THEOREM StorageInvariant == SafeDeployment => (Spec => []StorageInv)
<1> SUFFICES ASSUME SafeDeployment  PROVE Spec => []StorageInv
  OBVIOUS
<1>1. StorageInv /\ [Next]_vars => StorageInv'
  BY StorageStep
<1> QED  BY <1>1, StorageInit, PTL DEF Spec

\* In a safe deployment the guard never lets a request through to a storage
\* that does not exist, whatever the order of the workers' steps, and however
\* many of them fail, crash or are delivered again.
THEOREM RoutableStorage == SafeDeployment => (Spec => []RoutableHasStorage)
<1> SUFFICES ASSUME SafeDeployment  PROVE Spec => []RoutableHasStorage
  OBVIOUS
<1> QED  BY StorageInvariant, RoutableOfInv, PTL

\* In a safe deployment no step drops the storage of a live tenant.
THEOREM LiveStorageKept == SafeDeployment => (Spec => DropsOnlyDeleted)
<1> SUFFICES ASSUME SafeDeployment  PROVE Spec => DropsOnlyDeleted
  OBVIOUS
<1>1. StorageInv /\ [Next]_vars => [\A t \in storage \ storage' : deletion[t] # "live"]_vars
  BY DropStep
<1> QED  BY <1>1, StorageInvariant, PTL DEF Spec, DropsOnlyDeleted

-----------------------------------------------------------------------------
(* The lifecycle implements ServedTenants.                                 *)

\* A step changes one tenant's columns, or one tenant's storage.
LEMMA StepShape ==
  ASSUME TypeOK, [Next]_vars
  PROVE  \/ UNCHANGED <<status, deletion, storage>>
         \/ /\ UNCHANGED storage
            /\ \E u \in Tenants : \A t \in Tenants \ {u} :
                 status'[t] = status[t] /\ deletion'[t] = deletion[t]
         \/ /\ UNCHANGED <<status, deletion>>
            /\ \E u \in Tenants : storage' = storage \cup {u} \/ storage' = storage \ {u}
<1> DEFINE Shape == \/ UNCHANGED <<status, deletion, storage>>
                    \/ /\ UNCHANGED storage
                       /\ \E u \in Tenants : \A t \in Tenants \ {u} :
                            status'[t] = status[t] /\ deletion'[t] = deletion[t]
                    \/ /\ UNCHANGED <<status, deletion>>
                       /\ \E u \in Tenants : storage' = storage \cup {u} \/ storage' = storage \ {u}
<1>1. ASSUME NEW w \in Workers, Proceed(w)  PROVE Shape
  <2>0. /\ ProcOK /\ proc[w] \in Procs
    BY DEF TypeOK, ProcOK
  <2>1. ASSUME NEW s \in Statuses, NEW d \in Deletions \cup {"now"}, Save(w, s, d),
               proc[w].t \in Tenants, storage' = storage
        PROVE  Shape
    BY <2>1 DEF TypeOK, Save
  <2>2. CASE MarkProvisioning(w) \/ MarkActive(w) \/ MarkFailed(w) \/ ActivateSave(w) \/ SuspendSave(w)
    BY <2>0, <2>1, <2>2
       DEF ProcOK, At, MarkProvisioning, MarkActive, MarkFailed, ActivateSave, SuspendSave
  <2>3. CASE MarkDeleted(w) \/ RestoreSave(w)
    BY <2>0, <2>1, <2>3 DEF ProcOK, At, MarkDeleted, RestoreSave
  <2>4. CASE Provision(w) \/ UninstallDrop(w) \/ DestroyDrop(w) \/ FreshRecreate(w)
    BY <2>0, <2>4 DEF ProcOK, At, Provision, UninstallDrop, DestroyDrop, FreshRecreate
  <2>5. CASE \E t \in Tenants : PurgeDrop(w, t) \/ FreshDrop(w, t)
    BY <2>5 DEF PurgeDrop, FreshDrop
  <2>6. CASE \E t \in Tenants : DoctorFix(w, t)
    BY <2>6 DEF DoctorFix, TypeOK
  <2>7. CASE DispatchInstall(w) \/ Announce(w) \/ PurgeAnnounce(w)
    BY <2>7 DEF DispatchInstall, Announce, PurgeAnnounce
  <2> QED  BY <1>1, <2>2, <2>3, <2>4, <2>5, <2>6, <2>7 DEF Proceed
<1>2. ASSUME NEW w \in Workers, StartJob(w) \/ Fault(w)  PROVE Shape
  BY <1>2, StartJobFrame, FaultFrame
<1>3. ASSUME NEW w \in Workers, StartCommand(w)  PROVE Shape
  BY <1>3, StartCommandFrame DEF TypeOK
<1>4. ASSUME NEW t \in Tenants, Environment(t)  PROVE Shape
  BY <1>4, EnvironmentFrame DEF TypeOK
<1>5. CASE UNCHANGED vars
  BY <1>5 DEF vars
<1> QED  BY <1>1, <1>2, <1>3, <1>4, <1>5 DEF Next

\* A step of the lifecycle is a step of ServedTenants, or changes neither what
\* is served nor what is stored.
LEMMA ServedStep ==
  ASSUME SafeDeployment, StorageInv, StorageInv', [Next]_vars
  PROVE  [Served!Next]_(Served!vars)
<1> DEFINE R == {t \in Tenants : Routable(t)}
<1>0. TypeOK /\ TypeOK' /\ R \subseteq storage /\ R' \subseteq storage'
  BY RoutableOfInv DEF StorageInv, RoutableHasStorage, Routable, Settled, TypeOK
<1>1. CASE UNCHANGED <<status, deletion, storage>>
  BY <1>1 DEF Served!vars, Routable
<1>2. ASSUME UNCHANGED storage, NEW u \in Tenants,
             \A t \in Tenants \ {u} : status'[t] = status[t] /\ deletion'[t] = deletion[t]
      PROVE  [Served!Next]_(Served!vars)
  <2>1. R' = R \cup {u} \/ R' = R \ {u}
    BY <1>2 DEF Routable
  <2>2. CASE u \in R'
    BY <1>0, <1>2, <2>1, <2>2 DEF Served!Next, Served!Serve
  <2>3. CASE u \notin R'
    BY <1>2, <2>1, <2>3 DEF Served!Next, Served!Withdraw
  <2> QED  BY <2>2, <2>3
<1>3. ASSUME UNCHANGED <<status, deletion>>, NEW u \in Tenants,
             storage' = storage \cup {u} \/ storage' = storage \ {u}
      PROVE  [Served!Next]_(Served!vars)
  <2>1. R' = R
    BY <1>3 DEF Routable
  <2>2. CASE storage' = storage \cup {u}
    BY <1>3, <2>1, <2>2 DEF Served!Next, Served!Provision
  <2>3. CASE storage' = storage \ {u} /\ u \notin R
    BY <1>3, <2>1, <2>3 DEF Served!Next, Served!Reclaim
  <2>4. CASE storage' = storage \ {u} /\ u \in R
    BY <1>0, <2>1, <2>4
  <2> QED  BY <1>3, <2>2, <2>3, <2>4
<1> QED  BY <1>0, <1>1, <1>2, <1>3, StepShape

\* In a safe deployment the lifecycle implements ServedTenants: storage comes
\* before service and is reclaimed only after it.
THEOREM ImplementsServedTenants == SafeDeployment => (Spec => ServedTenantsSpec)
<1> SUFFICES ASSUME SafeDeployment  PROVE Spec => ServedTenantsSpec
  OBVIOUS
<1>1. Init => Served!Init
  BY DEF Init, Served!Init, Routable
<1>2. StorageInv /\ StorageInv' /\ [Next]_vars => [Served!Next]_(Served!vars)
  BY ServedStep
<1> QED  BY <1>1, <1>2, StorageInvariant, PTL DEF Spec, ServedTenantsSpec, Served!Spec
=============================================================================
