------------------------------- MODULE Batches -------------------------------
(***************************************************************************)
(* The commands that go over tenants one by one: tenant:migrate and        *)
(* tenant:run-migrations, the two rollbacks, tenant:seed and tenant:exec.  *)
(* A run goes over a list it read at its start, or, for tenant:exec of     *)
(* everybody, over pages it reads as it goes. Tenants come and go          *)
(* meanwhile, and other runs migrate the same ones.                        *)
(***************************************************************************)
EXTENDS Integers, Sequences, SequencesExt

CONSTANTS
  BatchTenants,     \* tenants: numbers, in the order a cursor meets them
  BatchRuns,        \* runs of a command
  NoRun,            \* nobody's lock
  Latest,           \* the number of migrations there are
  Limits,           \* what tenant:exec may be limited to
  MaxTenantChanges, \* bound on the tenants that come, go and are suspended
  MaxBatchFaults    \* bound on the steps that fail

ASSUME BatchesAssumption ==
  /\ BatchTenants \subseteq Nat \ {0}
  /\ NoRun \notin BatchRuns
  /\ Latest \in Nat
  /\ Limits \subseteq Int

VARIABLES
  tenantIs,      \* "absent", "active", "suspended" or "deleted"
  batches,       \* of a tenant's migrations: the migration each batch ended with
  locker,        \* the run that holds the migrations' lock of the database
  batch,         \* the runs
  tenantChanges, \* count
  batchFaults    \* count

batchVars == <<tenantIs, batches, locker, batch, tenantChanges, batchFaults>>

\* The limit of a run that has none: null, which a negative number amounts to.
NoLimit == -1

\* A command with what its flags may be; paged: everybody, by pages.
Command(commands, dry, unlocked, continue, paged, limits) ==
  [command : commands, dry : dry, unlocked : unlocked, continue : continue,
   paged : paged, limit : limits]

Commands ==
  Command({"up"}, BOOLEAN, BOOLEAN, {TRUE}, {FALSE}, {NoLimit})
    \cup Command({"down", "downAll"}, {FALSE}, BOOLEAN, {TRUE}, {FALSE}, {NoLimit})
    \cup Command({"seed"}, {FALSE}, {FALSE}, BOOLEAN, {FALSE}, {NoLimit})
    \cup Command({"exec"}, {FALSE}, {FALSE}, BOOLEAN, BOOLEAN, Limits \cup {NoLimit})

Migrates(u) == batch[u].flags.command \in {"up", "down", "downAll"}

\* todo: the tenants to come, in whatever order the query gave them; page: the last one
\* read by pages; read: the batches that the migration found; over: why the loop ended.
\* undone and stayed are history: the tenants rolled back, and those that stayed, since
\* the run began.
Unrun == [flags |-> CHOOSE c \in Commands : TRUE, step |-> "idle", todo |-> {}, page |-> 0,
          read |-> <<>>, visited |-> <<>>, failed |-> {}, exit |-> 0, over |-> "no",
          undone |-> {}, stayed |-> {}]

BatchesInit ==
  /\ tenantIs \in [BatchTenants -> {"absent", "active"}]
  /\ \E list \in {<<>>, <<1>>} : batches = [t \in BatchTenants |-> list]
  /\ locker = NoRun
  /\ batch = [u \in BatchRuns |-> Unrun]
  /\ tenantChanges = 0
  /\ batchFaults = 0

Becomes(u, run) == batch' = [batch EXCEPT ![u] = run]

Goes(u, step) == Becomes(u, [batch[u] EXCEPT !.step = step])

AtTenant(u) == Last(batch[u].visited)

Level(list) == IF list = <<>> THEN 0 ELSE Last(list)

-----------------------------------------------------------------------------
(* The tenants.                                                            *)

\* A tenant is created, is deleted, or is suspended or activated.
ChangeTenant(t) ==
  /\ tenantChanges < MaxTenantChanges
  /\ \E s \in {"active", "suspended", "deleted"} \ {tenantIs[t]} :
       /\ tenantIs[t] = "absent" => s = "active"
       /\ tenantIs[t] # "deleted"
       /\ tenantIs' = [tenantIs EXCEPT ![t] = s]
       /\ batch' = [u \in BatchRuns |->
                      IF s = "deleted" THEN [batch[u] EXCEPT !.stayed = @ \ {t}] ELSE batch[u]]
  /\ tenantChanges' = tenantChanges + 1
  /\ UNCHANGED <<batches, locker, batchFaults>>

Known == {t \in BatchTenants : tenantIs[t] # "absent"}
Live == {t \in Known : tenantIs[t] # "deleted"}
Active == {t \in Known : tenantIs[t] = "active"}

\* Whom a command is for. The seeds are for active tenants, and the migrations, the
\* rollback of tenant:migrate:rollback excepted, for the deleted too: their schemas may
\* have been kept.
Selected(command) ==
  CASE command \in {"up", "downAll"} -> Known
    [] command \in {"down", "exec"}  -> Live
    [] command = "seed"              -> Active

-----------------------------------------------------------------------------
(* The loop.                                                               *)

\* The list is read: of everybody, or of those that were named, which is the same for a
\* smaller set of tenants. Migrations meet each other; a bound keeps seeds and exec, which
\* share nothing with them here, to runs of their own.
StartBatch(u) ==
  /\ batch[u].step = "idle"
  /\ \A v \in BatchRuns : batch[v].step # "idle" => Migrates(v)
  /\ \E c \in Commands :
       /\ c.command \in {"seed", "exec"} => \A v \in BatchRuns : batch[v].step = "idle"
       /\ Becomes(u, [Unrun EXCEPT !.flags = c, !.stayed = Selected(c.command),
                                   !.step = IF c.paged THEN "page" ELSE "next",
                                   !.todo = IF c.paged THEN {} ELSE Selected(c.command)])
  /\ UNCHANGED <<tenantIs, batches, locker, tenantChanges, batchFaults>>

Over(run, why) == [run EXCEPT !.step = "over", !.over = why]

\* repo.each reads a page of those after the last tenant of the page before, or finds none.
ReadPage(u) ==
  LET after == {t \in Live : t > batch[u].page} IN
  /\ batch[u].step = "page"
  /\ \/ after = {} /\ Becomes(u, Over(batch[u], "all"))
     \/ \E last \in after :
          Becomes(u, [batch[u] EXCEPT !.step = "next", !.page = last,
                                      !.todo = {t \in after : t <= last}])
  /\ UNCHANGED <<tenantIs, batches, locker, tenantChanges, batchFaults>>

LimitReached(u) == batch[u].flags.limit >= 0 /\ Len(batch[u].visited) >= batch[u].flags.limit

NextTenant(u) ==
  /\ batch[u].step = "next"
  /\ \/ /\ batch[u].todo = {} /\ batch[u].flags.paged
        /\ Goes(u, "page")
     \/ /\ batch[u].todo = {} /\ ~batch[u].flags.paged
        /\ Becomes(u, Over(batch[u], "all"))
     \/ /\ batch[u].todo # {} /\ LimitReached(u)
        /\ Becomes(u, Over(batch[u], "limit"))
     \/ /\ ~LimitReached(u)
        /\ \E t \in batch[u].todo :
             Becomes(u, [batch[u] EXCEPT !.step = "connect", !.todo = @ \ {t},
                                         !.visited = Append(@, t)])
  /\ UNCHANGED <<tenantIs, batches, locker, tenantChanges, batchFaults>>

\* The tenant at hand is done with.
Succeeded(run) == [run EXCEPT !.step = "next"]

\* A failure ends the run unless it goes on after errors; only seeds and exec answer 1.
Failed(run) ==
  [run EXCEPT !.step = IF run.flags.continue THEN "next" ELSE "over",
              !.over = IF run.flags.continue THEN "no" ELSE "failure",
              !.failed = @ \cup {Last(run.visited)},
              !.exit = IF run.flags.command \in {"seed", "exec"} THEN 1 ELSE 0]

BatchFault == batchFaults < MaxBatchFaults /\ batchFaults' = batchFaults + 1

\* A step that only goes on, or fails: of a migration, connect and the hooks before it.
Passes(u, next) ==
  /\ \/ Becomes(u, next) /\ UNCHANGED batchFaults
     \/ BatchFault /\ Becomes(u, Failed(batch[u]))
  /\ UNCHANGED <<tenantIs, batches, locker, tenantChanges>>

ConnectTenant(u) ==
  /\ batch[u].step = "connect" /\ Migrates(u)
  /\ Passes(u, [batch[u] EXCEPT !.step = IF batch[u].flags.dry THEN "lock" ELSE "before"])

\* Variant of BeforeMigrate: a hook that throws skips the tenant as if it were done.
BeforeMigrateLogged(u) ==
  /\ batch[u].step = "before"
  /\ \/ Goes(u, "lock") /\ UNCHANGED batchFaults
     \/ BatchFault /\ Becomes(u, Succeeded(batch[u]))
  /\ UNCHANGED <<tenantIs, batches, locker, tenantChanges>>

BeforeMigrate(u) ==
  /\ batch[u].step = "before"
  /\ Passes(u, [batch[u] EXCEPT !.step = "lock"])

\* db:seed over the tenant's connection, whatever scope this is.
SeedTenant(u) ==
  /\ batch[u].step = "connect" /\ batch[u].flags.command = "seed"
  /\ Passes(u, Succeeded(batch[u]))

\* The inner command in the tenant's scope; an exit code other than 0 is a failure.
ExecInTenant(u) ==
  /\ batch[u].step = "connect" /\ batch[u].flags.command = "exec"
  /\ Passes(u, Succeeded(batch[u]))

-----------------------------------------------------------------------------
(* A migration. The lock is the database's, and all tenants' schemas are   *)
(* in one: a run that finds it taken fails, for any tenant.                *)

LockMigrations(u) ==
  /\ batch[u].step = "lock"
  /\ LET reads == [batch[u] EXCEPT !.step = "apply", !.read = batches[AtTenant(u)]] IN
     IF batch[u].flags.unlocked THEN Becomes(u, reads) /\ UNCHANGED locker
     ELSE IF locker = NoRun THEN Becomes(u, reads) /\ locker' = u
     ELSE Becomes(u, Failed(batch[u])) /\ UNCHANGED locker
  /\ UNCHANGED <<tenantIs, batches, tenantChanges, batchFaults>>

\* What up and down make of a tenant's batches.
Migrated(list, command) ==
  IF command = "up" THEN IF Level(list) = Latest THEN list ELSE Append(list, Latest)
  ELSE IF list = <<>> THEN list ELSE Front(list)

\* Up may stop after some of its migrations; a tenant that another run has migrated since
\* this one read it makes it fail.
ApplyMigrations(u) ==
  LET t == AtTenant(u)
      c == batch[u].flags IN
  /\ batch[u].step = "apply"
  /\ locker' = IF locker = u THEN NoRun ELSE locker
  /\ \/ /\ c.dry \/ batches[t] = batch[u].read
        /\ batches' = IF c.dry THEN batches ELSE [batches EXCEPT ![t] = Migrated(@, c.command)]
        /\ batch' = [v \in BatchRuns |->
             IF v = u THEN IF c.dry THEN Succeeded(batch[u]) ELSE [batch[u] EXCEPT !.step = "dispatch"]
             ELSE IF c.command = "up" \/ batch[v].flags.command # "up" THEN batch[v]
             ELSE [batch[v] EXCEPT !.undone = @ \cup {t}]]
        /\ UNCHANGED batchFaults
     \/ /\ BatchFault
        /\ \E l \in {Level(batches[t])} \cup (Level(batches[t])..(Latest - 1)) :
             batches' = IF c.command = "up" /\ ~c.dry /\ l > Level(batches[t])
                        THEN [batches EXCEPT ![t] = Append(@, l)] ELSE batches
        /\ Becomes(u, Failed(batch[u]))
     \/ /\ ~c.dry /\ batches[t] # batch[u].read
        /\ Becomes(u, Failed(batch[u]))
        /\ UNCHANGED <<batches, batchFaults>>
  /\ UNCHANGED <<tenantIs, tenantChanges>>

\* The hooks after it, whose errors are logged, and TenantMigrated: a listener that throws
\* makes a tenant that was migrated count as failed.
AnnounceMigration(u) ==
  /\ batch[u].step = "dispatch"
  /\ Passes(u, Succeeded(batch[u]))

BatchesNext ==
  \/ \E t \in BatchTenants : ChangeTenant(t)
  \/ \E u \in BatchRuns :
       \/ StartBatch(u) \/ ReadPage(u) \/ NextTenant(u) \/ ConnectTenant(u) \/ BeforeMigrate(u)
       \/ SeedTenant(u) \/ ExecInTenant(u) \/ LockMigrations(u) \/ ApplyMigrations(u) \/ AnnounceMigration(u)

BatchesSpec == BatchesInit /\ [][BatchesNext]_batchVars

-----------------------------------------------------------------------------
(* Properties.                                                             *)

\* Steps of the tenant at hand.
AtOne == {"connect", "before", "lock", "apply", "dispatch"}

\* A tenant that a migration did not count as failed has every migration, unless a
\* rollback took some back since the run began.
UpMeansLatest(u) ==
  batch[u].flags.command = "up" /\ ~batch[u].flags.dry =>
    \A t \in ToSet(batch[u].visited) \ (batch[u].failed \cup batch[u].undone) :
      (batch[u].step \in AtOne /\ t = AtTenant(u)) \/ Level(batches[t]) = Latest

\* Two runs are in migrations at once only when one of them was told to skip the locks.
OneMigratesAtATime ==
  \A u, v \in BatchRuns :
    u # v /\ batch[u].step = "apply" /\ batch[v].step = "apply" =>
      batch[u].flags.unlocked \/ batch[v].flags.unlocked

\* A run is over too early only for its limit or its first failure, and otherwise has met
\* everybody that stayed, although it read some of them after others had come and gone.
NobodyIsLeftOut(u) ==
  /\ IsInjective(batch[u].visited)
  /\ batch[u].over = "all" => batch[u].stayed \subseteq ToSet(batch[u].visited)
  /\ batch[u].over = "limit" => Len(batch[u].visited) = batch[u].flags.limit
  /\ (batch[u].failed # {} /\ ~batch[u].flags.continue) =>
       batch[u].over = "failure" /\ batch[u].failed = {Last(batch[u].visited)}

\* What the operator of a fleet may rely on.
BatchesAreExact == OneMigratesAtATime /\ \A u \in BatchRuns : UpMeansLatest(u) /\ NobodyIsLeftOut(u)
=============================================================================
