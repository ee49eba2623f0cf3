------------------------------- MODULE MCQuota -------------------------------
(***************************************************************************)
(* The counters in Redis, the breakers and queues of the servers, and the   *)
(* doctor and the probes of health, side by side. They share no state, so  *)
(* a behaviour is one of any one of them: part says which, and the others  *)
(* stay as they begin.                                                     *)
(***************************************************************************)
EXTENDS Quota, Metrics, RateLimit, Breakers, Doctor, Health

VARIABLE part

AllVars == <<part, vars, metricVars, rateVars, breakerVars, doctorVars, healthVars>>

\* Two metrics of one tenant.
TwoMetrics == {<<"t1", "requests">>, <<"t1", "errors">>}

Others == <<vars, metricVars, rateVars, breakerVars>>

CountersInit ==
  /\ part \in {"quota", "metrics", "rate", "breakers", "doctor", "health"}
  /\ Init /\ MetricsInit /\ RateInit /\ BreakersInit
  /\ DoctorInit
  /\ part # "doctor" =>
       opened = {} /\ gone = {} /\ replicaUp /\ \A t \in Patients : schema[t] = "migrated"
  /\ HealthInit
  /\ part # "health" => healthChecks = {} /\ up = AllChecks

CountersNext ==
  /\ UNCHANGED part
  /\ \/ /\ part = "quota" /\ Next
        /\ UNCHANGED <<metricVars, rateVars, breakerVars, doctorVars, healthVars>>
     \/ /\ part = "metrics" /\ MetricsNext
        /\ UNCHANGED <<vars, rateVars, breakerVars, doctorVars, healthVars>>
     \/ /\ part = "rate" /\ RateNext
        /\ UNCHANGED <<vars, metricVars, breakerVars, doctorVars, healthVars>>
     \/ /\ part = "breakers" /\ BreakersNext
        /\ UNCHANGED <<vars, metricVars, rateVars, doctorVars, healthVars>>
     \/ part = "doctor"  /\ DoctorNext  /\ UNCHANGED <<Others, healthVars>>
     \/ part = "health"  /\ HealthNext  /\ UNCHANGED <<Others, doctorVars>>

CountersSpec == CountersInit /\ [][CountersNext]_AllVars
=============================================================================
