---------------------------- MODULE DatabaseDriver ----------------------------
(***************************************************************************)
(* database-pg (services/isolation/database_pg_driver.ts): one tenant's    *)
(* database, which jobs provision, destroy and reset in their processes    *)
(* while the requests of a server query it. A process keeps a pool under   *)
(* the tenant's name, and an idle pool keeps its session.                  *)
(***************************************************************************)
EXTENDS Naturals, FiniteSets

CONSTANTS
  StorageJobs, \* jobs and commands, each in a process of its own
  Servers,     \* processes that serve the tenant's requests
  MaxQueries   \* bound on the queries of the servers

ASSUME DatabaseAssumption == StorageJobs \cap Servers = {}

VARIABLES
  exists,   \* the database is there
  pooled,   \* processes whose manager has the tenant's connection
  sessions, \* processes with a session in the database
  job,      \* the jobs
  queries   \* count

databaseVars == <<exists, pooled, sessions, job, queries>>

Hosts == StorageJobs \cup Servers

\* crossed and reopened are history: another job ran beside this one, and a session was
\* opened after it had terminated them.
NoJob == [op |-> "none", step |-> "idle", crossed |-> FALSE, reopened |-> FALSE]

DatabaseInit ==
  /\ exists \in BOOLEAN
  /\ pooled \in SUBSET Servers
  /\ sessions = IF exists THEN pooled ELSE {}
  /\ job = [j \in StorageJobs |-> NoJob]
  /\ queries = 0

JobRuns(j) == job[j].step \notin {"idle", "done", "failed"}

\* A job goes on; a reset provisions after it has destroyed.
ToStep(j, step) ==
  job' = [job EXCEPT ![j].step = IF step = "done" /\ job[j].op = "reset" THEN "find" ELSE step,
                     ![j].op = IF step = "done" /\ job[j].op = "reset" THEN "provision" ELSE @]

StartJob(j) ==
  /\ job[j].step = "idle"
  /\ \E op \in {"provision", "destroy", "keep", "reset"} :
       LET beside == \E i \in StorageJobs : JobRuns(i) IN
       job' = [i \in StorageJobs |->
         IF i = j THEN [NoJob EXCEPT !.op = op, !.crossed = beside,
                                     !.step = IF op = "provision" THEN "find" ELSE "disconnect"]
         ELSE IF JobRuns(i) THEN [job[i] EXCEPT !.crossed = TRUE] ELSE job[i]]
  /\ UNCHANGED <<exists, pooled, sessions, queries>>

-----------------------------------------------------------------------------
(* provision.                                                              *)

\* Variant of FindDatabase: the database is taken to be missing.
FindNoDatabase(j) ==
  /\ job[j].step = "find"
  /\ ToStep(j, "create")
  /\ UNCHANGED <<exists, pooled, sessions, queries>>

\* SELECT 1 FROM pg_database.
FindDatabase(j) ==
  /\ job[j].step = "find"
  /\ ToStep(j, IF exists THEN "connect" ELSE "create")
  /\ UNCHANGED <<exists, pooled, sessions, queries>>

\* CREATE DATABASE runs in no transaction, and has no IF NOT EXISTS.
CreateDatabase(j) ==
  /\ job[j].step = "create"
  /\ ToStep(j, IF exists THEN "failed" ELSE "connect")
  /\ exists' = TRUE
  /\ UNCHANGED <<pooled, sessions, queries>>

\* connect registers the pool; its first query opens a session.
ConnectJob(j) ==
  /\ job[j].step = "connect"
  /\ pooled' = pooled \cup {j}
  /\ ToStep(j, "done")
  /\ UNCHANGED <<exists, sessions, queries>>

-----------------------------------------------------------------------------
(* destroy.                                                                *)

\* The job's own process closes its pool; with keepData that is all.
DisconnectJob(j) ==
  /\ job[j].step = "disconnect"
  /\ pooled' = pooled \ {j}
  /\ sessions' = sessions \ {j}
  /\ ToStep(j, IF job[j].op = "keep" THEN "done" ELSE "terminate")
  /\ UNCHANGED <<exists, queries>>

\* pg_terminate_backend of everybody's sessions; their pools stay.
TerminateSessions(j) ==
  /\ job[j].step = "terminate"
  /\ sessions' = {}
  /\ ToStep(j, "drop")
  /\ UNCHANGED <<exists, pooled, queries>>

\* DROP DATABASE IF EXISTS, which a session in it makes fail.
DropDatabase(j) ==
  /\ job[j].step = "drop"
  /\ IF sessions # {} THEN ToStep(j, "failed") /\ UNCHANGED exists
     ELSE ToStep(j, "done") /\ exists' = FALSE
  /\ UNCHANGED <<pooled, sessions, queries>>

-----------------------------------------------------------------------------
(* The servers: connect, which finds the pool or adds it, and a query,     *)
(* which opens a session when the pool has none and fails without a        *)
(* database; and disconnect, or an eviction.                               *)

QueryDatabase(s) ==
  /\ queries < MaxQueries
  /\ queries' = queries + 1
  /\ pooled' = pooled \cup {s}
  /\ sessions' = IF exists THEN sessions \cup {s} ELSE sessions
  /\ job' = [j \in StorageJobs |->
       IF exists /\ job[j].step = "drop" THEN [job[j] EXCEPT !.reopened = TRUE] ELSE job[j]]
  /\ UNCHANGED exists

ReleasePool(s) ==
  /\ s \in pooled
  /\ pooled' = pooled \ {s}
  /\ sessions' = sessions \ {s}
  /\ UNCHANGED <<exists, job, queries>>

DatabaseNext ==
  \/ \E j \in StorageJobs : \/ StartJob(j) \/ FindDatabase(j) \/ CreateDatabase(j) \/ ConnectJob(j)
                      \/ DisconnectJob(j) \/ TerminateSessions(j) \/ DropDatabase(j)
  \/ \E s \in Servers : QueryDatabase(s) \/ ReleasePool(s)

DatabaseSpec == DatabaseInit /\ [][DatabaseNext]_databaseVars

-----------------------------------------------------------------------------
(* Properties.                                                             *)

\* "Idempotent" (driver.ts:48), and safe to repeat: provision fails only when another job
\* ran beside it, and destroy only when a server came back between its last two steps.
FailuresAreRaces ==
  \A j \in StorageJobs : job[j].step = "failed" =>
    job[j].crossed \/ (job[j].reopened /\ job[j].op \in {"destroy", "reset"})

\* A job that succeeded has done what it was for, unless another ran beside it or after it.
JobsDoWhatTheySay ==
  \A j \in StorageJobs :
    (job[j].step = "done" /\ \A i \in StorageJobs \ {j} : job[i].step = "idle") =>
      /\ job[j].op = "provision" => exists /\ j \in pooled
      /\ job[j].op = "destroy" => ~exists /\ j \notin pooled

\* A session is in a database, and in a pool's.
SessionsAreReal == sessions \subseteq pooled /\ (sessions # {} => exists)

\* What the lifecycle relies on when it calls this driver.
DriverKeepsItsContract == FailuresAreRaces /\ JobsDoWhatTheySay /\ SessionsAreReal
=============================================================================
