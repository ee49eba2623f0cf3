------------------------------- MODULE Doctor --------------------------------
(***************************************************************************)
(* The doctor (services/doctor/): its checks run one after another over    *)
(* the tenants it read at its start, while these change. tenant:doctor     *)
(* runs it in a process of its own, once or in a watch; the server runs it *)
(* for /health/report, and then it shares the breakers and the probe of    *)
(* the replica with other runs.                                            *)
(***************************************************************************)
EXTENDS Naturals, FiniteSets

CONSTANTS
  Patients,        \* tenants
  SomePatient,     \* the tenant that --tenant names
  Doctors,         \* runs of the doctor
  MaxWorldChanges, \* bound on what else happens to the tenants
  MaxDoctorFaults  \* bound on the checks that throw

ASSUME DoctorAssumption == SomePatient \in Patients

VARIABLES
  rowStatus,          \* a tenant's status, or "absent"
  gone,         \* tenants with deletedAt
  aged,         \* tenants created longer ago than STALL_MINUTES
  schema,       \* a tenant's schema: "none", "empty" or "migrated"
  opened,       \* tenants whose breaker is open in the server
  replicaUp,    \* the read replica answers
  busy,         \* pools, queries, queues and backups are past their thresholds
  probe,        \* the server's manager has the probe's connection
  doctor,       \* the runs
  worldChanges, \* count
  doctorFaults  \* count

world == <<rowStatus, gone, aged, schema, opened, replicaUp, busy>>
doctorVars == <<rowStatus, gone, aged, schema, opened, replicaUp, busy, probe, doctor, worldChanges, doctorFaults>>

\* The built-in checks, in their order; replica_lag probes between "replica" and "closing".
CheckAfter(step) ==
  CASE step = "failed"    -> "stalled"   [] step = "stalled"   -> "schemas"
    [] step = "schemas"   -> "migrated"  [] step = "migrated"  -> "breakers"
    [] step = "breakers"  -> "queues"    [] step = "queues"    -> "backups"
    [] step = "backups"   -> "replica"   [] step = "closing"   -> "pools"
    [] step = "pools"     -> "queries"   [] step = "queries"   -> "report"

\* An issue: what is wrong, and with whom; these are the errors, the rest are warnings.
NoPatient == "nobody"
ErrorCodes == {"failed", "stalled", "missing", "unmigrated", "open", "replica", "pools", "queries"}

\* What is wrong at the moment: what the checks would say of the tables as they are.
Problems ==
  UNION {{<<"failed", t>> : t \in {u \in Patients : rowStatus[u] = "failed"}},
         {<<"stalled", t>> : t \in {u \in Patients : rowStatus[u] = "provisioning" /\ u \in aged}},
         {<<"missing", t>> : t \in {u \in Patients : rowStatus[u] # "absent" /\ u \notin gone /\ schema[u] = "none"}},
         {<<"orphan", t>> : t \in {u \in Patients : u \in gone /\ schema[u] # "none"}},
         {<<"unmigrated", t>> : t \in {u \in Patients : rowStatus[u] = "active" /\ schema[u] # "migrated"}},
         {<<"open", t>> : t \in opened},
         {<<code, NoPatient>> : code \in (IF replicaUp THEN {} ELSE {"replica"})
                                         \cup (IF busy THEN {"pools", "queries", "queues", "backups"} ELSE {})}}

\* snap and snapGone: the tenants it read, and the deleted ones; found: the issues; threw: the checks that threw; steady,
\* lived, crossed and cut are history: what has been wrong, and who has lived, since it
\* began, and whether another run was there, and closed the probe under this one.
NoDoctor == [step |-> "idle", server |-> FALSE, fix |-> FALSE, only |-> {}, watch |-> FALSE,
             snap |-> [t \in Patients |-> "absent"], snapGone |-> {}, found |-> {}, threw |-> {}, exit |-> 0,
             steady |-> {}, lived |-> {}, crossed |-> FALSE, cut |-> FALSE]

DoctorInit ==
  /\ rowStatus \in [Patients -> {"absent", "provisioning", "active", "failed"}]
  /\ gone \in SUBSET {t \in Patients : rowStatus[t] = "active"}
  /\ aged = {t \in Patients : rowStatus[t] = "provisioning"}
  /\ schema \in [Patients -> {"none", "empty", "migrated"}]
  /\ \A t \in Patients :
       /\ rowStatus[t] = "active" /\ t \notin gone => schema[t] # "none"
       /\ rowStatus[t] # "active" => schema[t] = "none"
       /\ t # SomePatient => rowStatus[t] = "active" /\ schema[t] = "migrated"
  /\ opened \in {{}, {SomePatient}}
  /\ replicaUp \in BOOLEAN
  /\ busy = ~replicaUp
  /\ probe = FALSE
  /\ doctor = [x \in Doctors |-> NoDoctor]
  /\ worldChanges = 0
  /\ doctorFaults = 0

Running(x) == doctor[x].step \notin {"idle", "over"}

\* What a change leaves of the history of every run.
Witnessed(x) ==
  IF Running(x) THEN [doctor[x] EXCEPT !.steady = @ \cap Problems', !.lived = @ \ gone'] ELSE doctor[x]

-----------------------------------------------------------------------------
(* What else happens: installs, destroys that keep the schema or do not,   *)
(* restores, creations, breakers. What happens while nobody looks is in    *)
(* the initial states.                                                     *)

ChangeWorld(t) ==
  /\ worldChanges < MaxWorldChanges
  /\ \E x \in Doctors : Running(x)
  /\ worldChanges' = worldChanges + 1
  /\ \/ /\ rowStatus[t] = "provisioning" /\ t \notin gone
        /\ rowStatus' = [rowStatus EXCEPT ![t] = "active"]
        /\ schema' = [schema EXCEPT ![t] = "migrated"]
        /\ UNCHANGED <<gone, opened>>
     \/ /\ rowStatus[t] # "absent" /\ t \notin gone
        /\ gone' = gone \cup {t}
        /\ \E s \in {"none", schema[t]} : schema' = [schema EXCEPT ![t] = s]
        /\ UNCHANGED <<rowStatus, opened>>
     \/ /\ t \in gone
        /\ gone' = gone \ {t}
        /\ UNCHANGED <<rowStatus, schema, opened>>
     \/ /\ rowStatus[t] = "absent" /\ t \notin aged
        /\ rowStatus' = [rowStatus EXCEPT ![t] = "provisioning"]
        /\ UNCHANGED <<gone, schema, opened>>
     \/ /\ opened' = IF t \in opened THEN opened \ {t} ELSE opened \cup {t}
        /\ UNCHANGED <<rowStatus, gone, schema>>
  /\ UNCHANGED <<aged, replicaUp, busy, probe, doctorFaults>>
  /\ doctor' = [x \in Doctors |-> Witnessed(x)]

-----------------------------------------------------------------------------
(* DoctorService.run.                                                      *)

\* The run reads all tenants, the deleted too, and keeps those that were named.
Begun(x, run) ==
  [run EXCEPT !.step = "failed",
              !.snap = [t \in Patients |-> IF t \in run.only THEN rowStatus[t] ELSE "absent"],
              !.snapGone = gone, !.found = {}, !.threw = {}, !.steady = Problems,
              !.lived = {t \in Patients : rowStatus[t] # "absent"} \ gone]

\* Bounds: a command shares nothing but the tables, and runs beside no other run; no run
\* begins once a check has thrown.
StartDoctor(x) ==
  /\ doctor[x].step = "idle"
  /\ doctorFaults = 0
  /\ \E server, fix, watch \in BOOLEAN, only \in {Patients, {SomePatient}} :
       /\ server => only = Patients /\ ~watch
       /\ watch => ~fix
       /\ \A y \in Doctors \ {x} : Running(y) => server /\ doctor[y].server
       /\ LET beside == \E y \in Doctors \ {x} : Running(y) IN
          doctor' = [y \in Doctors |->
            IF y = x THEN Begun(x, [NoDoctor EXCEPT !.server = server, !.fix = fix, !.only = only,
                                                    !.watch = watch, !.crossed = beside])
            ELSE IF Running(y) THEN [doctor[y] EXCEPT !.crossed = TRUE] ELSE doctor[y]]
  /\ UNCHANGED <<world, probe, worldChanges, doctorFaults>>

Present(x) == {t \in Patients : doctor[x].snap[t] # "absent"}

\* The next check begins, with what this one found.
Finds(x, issues) ==
  doctor' = [doctor EXCEPT ![x].step = CheckAfter(@), ![x].found = @ \cup issues]

\* A check that throws ends up in the report, and in no total. A bound: it does in a run
\* that has met no other.
Throws(x) ==
  /\ ~doctor[x].crossed
  /\ doctorFaults < MaxDoctorFaults
  /\ doctorFaults' = doctorFaults + 1
  /\ doctor' = [doctor EXCEPT ![x].step = CheckAfter(@), ![x].threw = @ \cup {doctor[x].step}]

CheckFailed(x) ==
  /\ doctor[x].step = "failed"
  /\ Finds(x, {<<"failed", t>> : t \in {u \in Present(x) : doctor[x].snap[u] = "failed"}})
  /\ UNCHANGED <<world, probe, worldChanges, doctorFaults>>

\* The fix saves the copies it read, whose only change is the status.
CheckStalled(x) ==
  LET stalled == {t \in Present(x) \cap aged : doctor[x].snap[t] = "provisioning"} IN
  /\ doctor[x].step = "stalled"
  /\ rowStatus' = IF doctor[x].fix THEN [t \in Patients |-> IF t \in stalled THEN "failed" ELSE rowStatus[t]] ELSE rowStatus
  /\ UNCHANGED <<gone, aged, schema, opened, replicaUp, busy>>
  /\ doctor' = [y \in Doctors |->
       IF y = x THEN [Witnessed(x) EXCEPT !.step = "schemas",
                                          !.found = @ \cup {<<"stalled", t>> : t \in stalled}]
       ELSE Witnessed(y)]
  /\ UNCHANGED <<probe, worldChanges, doctorFaults>>

\* Variant of Drifts: only the active tenants are expected to have a schema.
DriftsOfActive(x) ==
  LET expected == {t \in Present(x) : doctor[x].snap[t] = "active"} \ doctor[x].snapGone IN
  {<<"missing", t>> : t \in {u \in expected : schema[u] = "none"}}
    \cup {<<"orphan", t>> : t \in {u \in Patients \ expected : schema[u] # "none"}}

\* The schemas there are against those of the tenants it knows to be there.
Drifts(x) ==
  LET expected == Present(x) \ doctor[x].snapGone IN
  {<<"missing", t>> : t \in {u \in expected : schema[u] = "none"}}
    \cup {<<"orphan", t>> : t \in {u \in Patients \ expected : schema[u] # "none"}}

CheckSchemas(x) ==
  /\ doctor[x].step = "schemas"
  /\ \/ Finds(x, Drifts(x)) /\ UNCHANGED doctorFaults
     \/ Throws(x)
  /\ UNCHANGED <<world, probe, worldChanges>>

\* The deleted are not left out here: an active tenant that was destroyed stays an error.
CheckMigrated(x) ==
  /\ doctor[x].step = "migrated"
  /\ \/ /\ Finds(x, {<<"unmigrated", t>> :
                        t \in {u \in Present(x) : doctor[x].snap[u] = "active" /\ schema[u] # "migrated"}})
        /\ UNCHANGED doctorFaults
     \/ Throws(x)
  /\ UNCHANGED <<world, probe, worldChanges>>

\* The breakers are those of the process, and a command's has none.
CheckBreakers(x) ==
  LET mine == IF doctor[x].server THEN opened ELSE {} IN
  /\ doctor[x].step = "breakers"
  /\ opened' = IF doctor[x].fix THEN opened \ mine ELSE opened
  /\ UNCHANGED <<rowStatus, gone, aged, schema, replicaUp, busy>>
  /\ doctor' = [y \in Doctors |->
       IF y = x THEN [Witnessed(x) EXCEPT !.step = "queues", !.found = @ \cup {<<"open", t>> : t \in mine}]
       ELSE Witnessed(y)]
  /\ UNCHANGED <<probe, worldChanges, doctorFaults>>

\* What queue_health, backup_recency, connection_pool and long_running_queries read is
\* past its thresholds, or is not.
CheckQueues(x) ==
  /\ doctor[x].step = "queues"
  /\ Finds(x, IF busy THEN {<<"queues", NoPatient>>} ELSE {})
  /\ UNCHANGED <<world, probe, worldChanges, doctorFaults>>

CheckBackups(x) ==
  /\ doctor[x].step = "backups"
  /\ Finds(x, IF busy THEN {<<"backups", NoPatient>>} ELSE {})
  /\ UNCHANGED <<world, probe, worldChanges, doctorFaults>>

CheckPools(x) ==
  /\ doctor[x].step = "pools"
  /\ \/ Finds(x, IF busy THEN {<<"pools", NoPatient>>} ELSE {}) /\ UNCHANGED doctorFaults
     \/ Throws(x)
  /\ UNCHANGED <<world, probe, worldChanges>>

CheckQueries(x) ==
  /\ doctor[x].step = "queries"
  /\ Finds(x, IF busy THEN {<<"queries", NoPatient>>} ELSE {})
  /\ UNCHANGED <<world, probe, worldChanges, doctorFaults>>

-----------------------------------------------------------------------------
(* The probe of the replica: a connection of the process that is added     *)
(* unless it is there, and closed at the end by every run that finds it.   *)

SendProbe(x) ==
  /\ doctor[x].step = "replica"
  /\ probe' = (probe \/ doctor[x].server)
  /\ doctor' = [doctor EXCEPT ![x].step = "probing", ![x].cut = FALSE]
  /\ UNCHANGED <<world, worldChanges, doctorFaults>>

\* A query whose pool another run has closed meanwhile may fail.
ReadProbe(x) ==
  /\ doctor[x].step = "probing"
  /\ \E answered \in {replicaUp} \cup (IF doctor[x].cut THEN {FALSE} ELSE {}) :
       doctor' = [doctor EXCEPT ![x].step = "closing",
                                ![x].found = IF answered THEN @ ELSE @ \cup {<<"replica", NoPatient>>}]
  /\ UNCHANGED <<world, probe, worldChanges, doctorFaults>>

CloseProbe(x) ==
  /\ doctor[x].step = "closing"
  /\ probe' = (probe /\ ~doctor[x].server)
  /\ doctor' = [y \in Doctors |->
       IF y = x THEN [doctor[x] EXCEPT !.step = "pools"]
       ELSE IF doctor[x].server /\ doctor[y].step = "probing" THEN [doctor[y] EXCEPT !.cut = TRUE]
       ELSE doctor[y]]
  /\ UNCHANGED <<world, worldChanges, doctorFaults>>

-----------------------------------------------------------------------------
(* The end: an exit code, the status 503, or another run of the watch.     *)

Report(x) ==
  /\ doctor[x].step = "report"
  /\ doctor' = [doctor EXCEPT ![x] =
       [NoDoctor EXCEPT !.step = "over", !.exit = IF \E i \in doctor[x].found : i[1] \in ErrorCodes THEN 1 ELSE 0]]
  /\ ~doctor[x].watch
  /\ UNCHANGED <<world, probe, worldChanges, doctorFaults>>

\* A watch shows each report and starts again, until SIGINT.
WatchAgain(x) ==
  /\ doctor[x].step = "report" /\ doctor[x].watch
  /\ doctor' = [doctor EXCEPT ![x] = Begun(x, @)]
  /\ UNCHANGED <<world, probe, worldChanges, doctorFaults>>

StopWatch(x) ==
  /\ doctor[x].step = "report" /\ doctor[x].watch
  /\ doctor' = [doctor EXCEPT ![x] = [NoDoctor EXCEPT !.step = "over"]]
  /\ UNCHANGED <<world, probe, worldChanges, doctorFaults>>

DoctorNext ==
  \/ \E t \in Patients : ChangeWorld(t)
  \/ \E x \in Doctors :
       \/ StartDoctor(x) \/ CheckFailed(x) \/ CheckStalled(x) \/ CheckSchemas(x) \/ CheckMigrated(x)
       \/ CheckBreakers(x) \/ CheckQueues(x) \/ CheckBackups(x) \/ SendProbe(x) \/ ReadProbe(x)
       \/ CloseProbe(x) \/ CheckPools(x) \/ CheckQueries(x) \/ Report(x) \/ WatchAgain(x) \/ StopWatch(x)

DoctorSpec == DoctorInit /\ [][DoctorNext]_doctorVars

-----------------------------------------------------------------------------
(* Properties.                                                             *)

\* The check that finds what is wrong.
CheckFor(code) ==
  CASE code \in {"missing", "orphan"} -> "schemas"
    [] code = "unmigrated" -> "migrated"
    [] code \in {"pools", "queries"} -> code
    [] OTHER -> "none"

\* What was wrong with the tenants it is about from the beginning of a run to its end has
\* been found, unless the check threw; a command finds no open breaker.
LastingProblemsAreFound(x) ==
  doctor[x].step = "report" =>
    \A i \in doctor[x].steady :
      \/ i \in doctor[x].found
      \/ CheckFor(i[1]) \in doctor[x].threw
      \/ i[1] = "open" /\ ~doctor[x].server
      \/ i[2] \in Patients \ doctor[x].only

\* The schema of a tenant that lived all through the run is an orphan only to a run
\* about others; a replica that answers is out of reach only when two runs met.
OnlyRacesMislead(x) ==
  /\ \A t \in doctor[x].lived \cap doctor[x].only : <<"orphan", t>> \notin doctor[x].found
  /\ <<"replica", NoPatient>> \in doctor[x].found => ~replicaUp \/ doctor[x].crossed

\* What a run has fixed does not last it.
FixesTakeEffect(x) ==
  doctor[x].step = "report" /\ doctor[x].fix =>
    \A t \in doctor[x].only : /\ <<"stalled", t>> \notin doctor[x].steady
                              /\ doctor[x].server => <<"open", t>> \notin doctor[x].steady

\* No run leaves the probe behind.
ProbeIsClosed == probe => \E x \in Doctors : Running(x)

\* What an operator may take from a report.
ReportsAreRight ==
  /\ ProbeIsClosed
  /\ \A x \in Doctors : LastingProblemsAreFound(x) /\ OnlyRacesMislead(x) /\ FixesTakeEffect(x)
=============================================================================
