------------------------------- MODULE Health --------------------------------
(***************************************************************************)
(* The probes of a server (health/): /readyz calls all registered checks   *)
(* at once, each in a race with a timeout, while what they check goes up   *)
(* and down and the application adds and removes checks.                   *)
(***************************************************************************)
EXTENDS Naturals, FiniteSets

CONSTANTS
  DefaultChecks, \* backoffice_db, redis and circuit_breakers
  OwnChecks,     \* checks of the application
  Probes,        \* requests for /readyz
  MaxFlaps       \* bound on the changes of what is checked, and of the registry

VARIABLES
  healthChecks, \* the checks registered in the service
  bootstrapped, \* the first request has added the default checks
  up,           \* the checks whose dependency answers, and in time
  ready,        \* the requests
  unwanted,     \* history: the checks removed and not added since, once bootstrapped
  flaps         \* count

healthVars == <<healthChecks, bootstrapped, up, ready, unwanted, flaps>>

AllChecks == DefaultChecks \cup OwnChecks

\* entries: the checks it runs; calls: those that have not answered, late or not; results
\* so far; late, wasUp, wasDown and removed are history: the checks that timed out, those
\* whose dependency has been up, and down, during the request, and those that the
\* application had removed when it began to run.
NoProbe == [step |-> "idle", entries |-> {}, calls |-> {}, passed |-> {}, failed |-> {},
            status |-> "none", late |-> {}, wasUp |-> {}, wasDown |-> {}, removed |-> {}]

HealthInit ==
  /\ healthChecks \in SUBSET AllChecks
  /\ bootstrapped = FALSE
  /\ up \in SUBSET AllChecks
  /\ ready = [r \in Probes |-> NoProbe]
  /\ unwanted = {}
  /\ flaps = 0

-----------------------------------------------------------------------------
(* What is checked, and the registry.                                      *)

Flap == flaps < MaxFlaps /\ flaps' = flaps + 1

\* A dependency goes up or down.
FlapDependency(c) ==
  /\ Flap
  /\ up' = IF c \in up THEN up \ {c} ELSE up \cup {c}
  /\ ready' = [r \in Probes |->
       IF ready[r].step = "running"
       THEN [ready[r] EXCEPT !.wasUp = @ \cup up', !.wasDown = @ \cup (AllChecks \ up')]
       ELSE ready[r]]
  /\ UNCHANGED <<healthChecks, bootstrapped, unwanted>>

AddCheck(c) ==
  /\ Flap
  /\ healthChecks' = healthChecks \cup {c}
  /\ unwanted' = unwanted \ {c}
  /\ UNCHANGED <<bootstrapped, up, ready>>

RemoveCheck(c) ==
  /\ Flap
  /\ healthChecks' = healthChecks \ {c}
  /\ unwanted' = IF bootstrapped THEN unwanted \cup {c} ELSE unwanted
  /\ UNCHANGED <<bootstrapped, up, ready>>

-----------------------------------------------------------------------------
(* A request.                                                              *)

\* The request awaits the service.
ArriveProbe(r) ==
  /\ ready[r].step = "idle"
  /\ ready' = [ready EXCEPT ![r].step = "bootstrap"]
  /\ UNCHANGED <<healthChecks, bootstrapped, up, unwanted, flaps>>

\* /livez bootstraps too, and answers that the process is alive.
Livez ==
  /\ ~bootstrapped
  /\ healthChecks' = healthChecks \cup DefaultChecks
  /\ bootstrapped' = TRUE
  /\ UNCHANGED <<up, ready, unwanted, flaps>>

\* Variant of Bootstrap: every request adds the default checks.
BootstrapAgain(r) ==
  /\ ready[r].step = "bootstrap"
  /\ healthChecks' = healthChecks \cup DefaultChecks
  /\ bootstrapped' = TRUE
  /\ ready' = [ready EXCEPT ![r] = [ready[r] EXCEPT !.step = "running", !.entries = healthChecks',
                 !.calls = healthChecks', !.wasUp = up, !.wasDown = AllChecks \ up,
                 !.removed = unwanted]]
  /\ UNCHANGED <<up, unwanted, flaps>>

\* The first to come adds the default checks; then all checks that are registered are called.
Bootstrap(r) ==
  /\ ready[r].step = "bootstrap"
  /\ healthChecks' = IF bootstrapped THEN healthChecks ELSE healthChecks \cup DefaultChecks
  /\ bootstrapped' = TRUE
  /\ ready' = [ready EXCEPT ![r] = [ready[r] EXCEPT !.step = "running", !.entries = healthChecks',
                 !.calls = healthChecks', !.wasUp = up, !.wasDown = AllChecks \ up,
                 !.removed = unwanted]]
  /\ UNCHANGED <<up, unwanted, flaps>>

\* A check passes, or fails, or throws; when its time was up nobody hears of it.
AnswerCheck(r, c) ==
  /\ c \in ready[r].calls
  /\ ready' = [ready EXCEPT ![r] =
       [ready[r] EXCEPT !.calls = @ \ {c},
                 !.passed = IF c \in up \ ready[r].late THEN @ \cup {c} ELSE @,
                 !.failed = IF c \in up THEN @ ELSE @ \cup {c}]]
  /\ UNCHANGED <<healthChecks, bootstrapped, up, unwanted, flaps>>

\* #runWithTimeout: the check is too slow, which it is only while its dependency is down.
TimeOutCheck(r, c) ==
  /\ c \in ready[r].calls \ ready[r].late
  /\ c \in ready[r].wasDown
  /\ ready' = [ready EXCEPT ![r] = [ready[r] EXCEPT !.late = @ \cup {c}, !.failed = @ \cup {c}]]
  /\ UNCHANGED <<healthChecks, bootstrapped, up, unwanted, flaps>>

\* readiness: nothing to check is fine too.
Readiness(entries, passed) ==
  IF passed = entries THEN "ok" ELSE IF passed = {} THEN "fail" ELSE "degraded"

\* Only "fail" is a 503. Checks that are still to answer are forgotten.
AnswerProbe(r) ==
  /\ ready[r].step = "running"
  /\ ready[r].passed \cup ready[r].failed = ready[r].entries
  /\ ready' = [ready EXCEPT ![r] = [ready[r] EXCEPT !.step = "answered", !.calls = {},
                                             !.status = Readiness(ready[r].entries, ready[r].passed)]]
  /\ UNCHANGED <<healthChecks, bootstrapped, up, unwanted, flaps>>

HealthNext ==
  \/ Livez
  \/ \E c \in AllChecks : FlapDependency(c) \/ AddCheck(c) \/ RemoveCheck(c)
  \/ \E r \in Probes :
       \/ ArriveProbe(r) \/ Bootstrap(r) \/ AnswerProbe(r)
       \/ \E c \in AllChecks : AnswerCheck(r, c) \/ TimeOutCheck(r, c)

HealthSpec == HealthInit /\ [][HealthNext]_healthVars

-----------------------------------------------------------------------------
(* Properties.                                                             *)

\* A server is taken out of service only when everything it depends on has been down
\* during the request, and is in full service only when everything has been up and in
\* time. The default checks are among what is asked, whichever request was the first, and
\* those the application removed before it too; what it removed later is not.
ReadyzIsTrue ==
  \A r \in Probes :
    ready[r].step = "answered" =>
      /\ ready[r].status = "fail" => ready[r].entries # {} /\ ready[r].entries \subseteq ready[r].wasDown
      /\ ready[r].status = "ok" => ready[r].entries \subseteq ready[r].wasUp \ ready[r].late
      /\ DefaultChecks \ ready[r].removed \subseteq ready[r].entries
      /\ ready[r].removed \cap ready[r].entries = {}

\* After the first request the default checks are registered, but for those that the
\* application removed since: they stay removed.
RemovedStaysRemoved ==
  bootstrapped => DefaultChecks \ unwanted \subseteq healthChecks /\ unwanted \cap healthChecks = {}

\* What an orchestrator may take from /readyz.
HealthIsTrue == ReadyzIsTrue /\ RemovedStaysRemoved
=============================================================================
