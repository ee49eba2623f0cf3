-------------------------------- MODULE Gates ---------------------------------
(***************************************************************************)
(* What stands before a route: custom_domain_middleware, the walk of the   *)
(* resolver chain, the guard of tenant routes, the universal and the       *)
(* central-only middleware, and maintenance mode, which commands and       *)
(* admins toggle. One request for one tenant, which changes under it, and  *)
(* so does the registry of resolvers.                                      *)
(***************************************************************************)
EXTENDS Naturals, Sequences, FiniteSets

CONSTANTS
  GateNames,     \* names of resolvers
  HeaderName,    \* the one that reads the header, as the fallback does
  Chains,        \* chains an application sets
  Togglers,      \* commands and admins that enter or exit maintenance
  MaxGateEvents, \* bound on the changes of the tenant, its circuit and the registry
  MaxGateFaults  \* bound on what throws

ASSUME GateAssumption ==
  /\ HeaderName \in GateNames
  /\ Chains \subseteq Seq(GateNames)

VARIABLES
  standing,    \* "ready", "suspended", "new" (provisioning or failed), "deleted" or "absent"
  maintained,  \* isMaintenance
  notice,      \* maintenanceMessage: the toggler whose it is, or "none"
  circuit,     \* the tenant's circuit is open
  known,       \* the registered resolvers
  chain,       \* their chain
  gate,        \* the request
  toggler,     \* the toggles
  announced,   \* the last event: what it says of maintenance, and whose message
  muted,       \* history: an event was lost, or toggles crossed
  gateEvents,  \* count
  gateFaults   \* count

rowVars == <<standing, maintained, notice>>
registryVars == <<known, chain>>
gateVars == <<rowVars, circuit, registryVars, gate, toggler, announced, muted, gateEvents, gateFaults>>

Routes == {"tenant", "universal", "central", "ignored"}

\* carries: what each resolver finds: nothing, the tenant's id, its domain, or what is no
\* id; rest: of the chain; found: what the walk ended with; seen: the row as it was read;
\* outcome: why it was refused, or the mode it runs in. facts and shuffled are history:
\* what has been so, and how often the registry changed, since it arrived.
NoRequest == [step |-> "idle", route |-> "tenant", carries |-> [n \in GateNames |-> "none"],
              bypass |-> FALSE, rest |-> <<>>, found |-> "none", seen |-> <<"absent", FALSE>>,
              outcome |-> "none", facts |-> {}, shuffled |-> 0]

GateInit ==
  /\ standing \in {"ready", "suspended", "new", "deleted", "absent"}
  /\ maintained \in BOOLEAN
  /\ standing # "ready" => ~maintained
  /\ notice = "none"
  /\ circuit = FALSE
  /\ known = GateNames
  /\ chain \in Chains
  /\ gate = NoRequest
  /\ toggler = [w \in Togglers |-> [step |-> "idle", enters |-> FALSE]]
  /\ announced = <<maintained, notice>>
  /\ muted = FALSE
  /\ gateEvents = 0
  /\ gateFaults = 0

\* The places of a chain whose resolver, when it is registered, finds something.
Hits(carries, list, names) == {i \in DOMAIN list : list[i] \in names /\ carries[list[i]] # "none"}

\* What a resolver chain makes of a request, the fallback without one included.
Named(carries, list, names) ==
  LET hits == Hits(carries, list, names) IN
  IF list = <<>> THEN carries[HeaderName]
  ELSE IF hits = {} THEN "none" ELSE carries[list[CHOOSE i \in hits : \A j \in hits : i <= j]]

\* What is so at a moment.
Facts(status, flag, open, hit) ==
  {<<"row", status, flag>>, <<"circuit", open>>, <<"names", hit>>}

\* The request has seen the moment that begins with this step.
Witness ==
  gate' = IF gate.step \in {"idle", "runs", "refused"} THEN gate ELSE
          [gate EXCEPT !.facts = @ \cup Facts(standing', maintained', circuit', Named(gate.carries, chain', known')),
                       !.shuffled = IF registryVars' = registryVars THEN @ ELSE @ + 1]

-----------------------------------------------------------------------------
(* What changes meanwhile.                                                 *)

GateEvent == gateEvents < MaxGateEvents /\ gateEvents' = gateEvents + 1

ChangeStanding ==
  /\ GateEvent
  /\ standing' \in {"ready", "suspended", "new", "deleted"} \ {standing}
  /\ UNCHANGED <<maintained, notice, circuit, registryVars, toggler, announced, muted, gateFaults>>
  /\ Witness

TripCircuit ==
  /\ GateEvent
  /\ circuit' = ~circuit
  /\ UNCHANGED <<rowVars, registryVars, toggler, announced, muted, gateFaults>>
  /\ Witness

\* Another chain, a resolver less, or none at all; a walk goes on along the chain it began.
ChangeRegistry ==
  /\ GateEvent
  /\ \/ \E list \in Chains \ {chain} : chain' = list /\ UNCHANGED known
     \/ \E n \in known : known' = known \ {n} /\ UNCHANGED chain
     \/ known' = {} /\ chain' = <<>>
  /\ UNCHANGED <<rowVars, circuit, toggler, announced, muted, gateFaults>>
  /\ Witness

-----------------------------------------------------------------------------
(* Maintenance mode.                                                       *)

Busy(w) == toggler[w].step \in {"save", "announce"}

\* The row is read: one that is there already is left alone. An admin finds the deleted
\* too, and a command does not. A bound: toggles meet each other, or a request meets one.
StartToggle(w) ==
  /\ toggler[w].step = "idle"
  /\ gate.step # "idle" => \A v \in Togglers : toggler[v].step = "idle"
  /\ standing # "absent"
  /\ \E enters, admin \in BOOLEAN :
       /\ ~admin => standing # "deleted"
       /\ toggler' = [toggler EXCEPT ![w] =
            [step |-> IF maintained = enters THEN "done" ELSE "save", enters |-> enters]]
  /\ muted' = (muted \/ \E v \in Togglers : Busy(v))
  /\ UNCHANGED <<rowVars, circuit, registryVars, gate, announced, gateEvents, gateFaults>>

\* enterMaintenance, exitMaintenance: the flag and the message.
SaveToggle(w) ==
  /\ toggler[w].step = "save"
  /\ maintained' = toggler[w].enters
  /\ notice' = IF toggler[w].enters THEN w ELSE "none"
  /\ toggler' = [toggler EXCEPT ![w].step = "announce"]
  /\ UNCHANGED <<standing, circuit, registryVars, announced, muted, gateEvents, gateFaults>>
  /\ Witness

\* A listener that throws makes the command fail, and the route answer 500.
AnnounceToggle(w) ==
  /\ toggler[w].step = "announce"
  /\ toggler' = [toggler EXCEPT ![w].step = "done"]
  /\ \/ /\ announced' = <<toggler[w].enters, IF toggler[w].enters THEN w ELSE "none">>
        /\ UNCHANGED <<muted, gateFaults>>
     \/ /\ gateFaults < MaxGateFaults
        /\ gateFaults' = gateFaults + 1
        /\ muted' = TRUE
        /\ UNCHANGED announced
  /\ UNCHANGED <<rowVars, circuit, registryVars, gate, gateEvents>>

-----------------------------------------------------------------------------
(* The walk of the chain.                                                  *)

RestUnchanged == UNCHANGED <<rowVars, circuit, registryVars, toggler, announced, muted, gateEvents>>

\* custom_domain_middleware: the host of a tenant stands in for a header that is missing.
ArriveAtGate ==
  /\ gate.step = "idle"
  /\ \A v, w \in Togglers : v # w => "idle" \in {toggler[v].step, toggler[w].step}
  /\ \E route \in Routes, carries \in [GateNames -> {"none", "id", "domain", "bad"}],
        bypass, hosted \in BOOLEAN :
       LET taken == IF hosted /\ standing \notin {"absent", "deleted"}
                    THEN [carries EXCEPT ![HeaderName] = "id"] ELSE carries IN
       /\ carries[HeaderName] # "domain"
       /\ hosted => carries[HeaderName] = "none"
       /\ bypass => route = "tenant"
       /\ gate' = [NoRequest EXCEPT !.step = "resolve", !.route = route, !.carries = taken,
                       !.bypass = bypass,
                       !.facts = Facts(standing, maintained, circuit, Named(taken, chain, known))]
  /\ RestUnchanged /\ UNCHANGED gateFaults

\* resolveTenant: without a chain the header is all there is.
BeginWalk ==
  /\ gate.step = "resolve" /\ gate.route # "ignored"
  /\ gate' = IF chain = <<>>
             THEN [gate EXCEPT !.step = "look", !.found = gate.carries[HeaderName]]
             ELSE [gate EXCEPT !.step = "walk", !.rest = chain]
  /\ RestUnchanged /\ UNCHANGED gateFaults

\* A resolver is awaited; one that is registered no more is passed over.
WalkChain ==
  /\ gate.step = "walk"
  /\ \/ /\ gate' = IF gate.rest = <<>> THEN [gate EXCEPT !.step = "look"]
                   ELSE IF Head(gate.rest) \in known /\ gate.carries[Head(gate.rest)] # "none"
                   THEN [gate EXCEPT !.step = "look", !.found = gate.carries[Head(gate.rest)]]
                   ELSE [gate EXCEPT !.rest = Tail(@)]
        /\ UNCHANGED gateFaults
     \/ /\ gateFaults < MaxGateFaults
        /\ gate.rest # <<>> /\ Head(gate.rest) \in known
        /\ gateFaults' = gateFaults + 1
        /\ gate' = [gate EXCEPT !.step = "look", !.found = "throws"]
  /\ RestUnchanged

-----------------------------------------------------------------------------
(* The gates.                                                              *)

Ends(step, outcome) == gate' = [gate EXCEPT !.step = step, !.outcome = outcome]

\* The row is found by its id, or by its domain, which a deleted one gives up.
Finds(deletedToo) ==
  /\ gate.found \in {"id", "domain"}
  /\ standing # "absent"
  /\ standing = "deleted" => deletedToo /\ gate.found = "id"

CopyRow == gate' = [gate EXCEPT !.step = "connect", !.seen = <<standing, maintained>>]

\* Variant of Servable: universal routes take tenants that are not ready yet.
ServableSoon(status) == status \in {"ready", "new"}

\* What the application serves at all.
Servable(status) == status = "ready"

\* The guard leaves the ignored paths alone: no tenant is resolved.
PassIgnored ==
  /\ gate.step = "resolve" /\ gate.route = "ignored"
  /\ Ends("runs", "central")
  /\ RestUnchanged /\ UNCHANGED gateFaults

\* Central-only routes refuse whoever names a tenant.
PassCentral ==
  /\ gate.step = "look" /\ gate.route = "central"
  /\ IF gate.found = "throws" THEN Ends("refused", "error")
     ELSE IF gate.found = "none" THEN Ends("runs", "central") ELSE Ends("refused", "central")
  /\ RestUnchanged /\ UNCHANGED gateFaults

\* request.tenant(), up to the row.
LookUp ==
  /\ gate.step = "look" /\ gate.route = "tenant"
  /\ IF gate.found = "throws" THEN Ends("refused", "error")
     ELSE IF gate.found \in {"none", "bad"} THEN Ends("refused", "missing")
     ELSE IF Finds(TRUE) THEN CopyRow ELSE Ends("refused", "notFound")
  /\ RestUnchanged /\ UNCHANGED gateFaults

\* The universal middleware runs the route without a tenant when anything is amiss.
TryResolve ==
  /\ gate.step = "look" /\ gate.route = "universal"
  /\ IF Finds(FALSE) /\ Servable(standing) THEN CopyRow ELSE Ends("runs", "central")
  /\ RestUnchanged /\ UNCHANGED gateFaults

\* The driver connects the tenant, whatever its status, or throws.
ConnectAtGate ==
  /\ gate.step = "connect"
  /\ \/ /\ IF gate.route = "universal" THEN Ends("runs", "tenant") ELSE Ends("decide", "none")
        /\ UNCHANGED gateFaults
     \/ /\ gateFaults < MaxGateFaults
        /\ gateFaults' = gateFaults + 1
        /\ IF gate.route = "universal" THEN Ends("runs", "central") ELSE Ends("refused", "error")
  /\ RestUnchanged

\* The guard goes by the row it read, and by the circuit as it is now.
Decide ==
  /\ gate.step = "decide"
  /\ IF gate.seen[1] \in {"suspended", "deleted"} THEN Ends("refused", "suspended")
     ELSE IF gate.seen[1] = "new" THEN Ends("refused", "notReady")
     ELSE IF gate.seen[2] /\ ~gate.bypass THEN Ends("refused", "maintenance")
     ELSE IF circuit THEN Ends("refused", "circuit") ELSE Ends("runs", "tenant")
  /\ RestUnchanged /\ UNCHANGED gateFaults

GateNext ==
  \/ ChangeStanding \/ TripCircuit \/ ChangeRegistry
  \/ \E w \in Togglers : StartToggle(w) \/ SaveToggle(w) \/ AnnounceToggle(w)
  \/ ArriveAtGate \/ BeginWalk \/ WalkChain
  \/ PassIgnored \/ PassCentral \/ LookUp \/ TryResolve \/ ConnectAtGate \/ Decide

GateSpec == GateInit /\ [][GateNext]_gateVars

-----------------------------------------------------------------------------
(* Properties.                                                             *)

Was(standings, flags) == \E s \in standings, f \in flags : <<"row", s, f>> \in gate.facts

\* The walk ends with what some moment of the request makes of it, when the registry
\* changed once at the most, or with nothing when it was cleared.
WalkIsTrue ==
  (/\ gate.step \notin {"idle", "resolve", "walk"} /\ gate.route # "ignored"
   /\ gate.found # "throws" /\ gate.shuffled <= 1) =>
    \/ <<"names", gate.found>> \in gate.facts
    \/ gate.found = "none" /\ known = {}

\* A route runs for a tenant only if that was ready at some moment of the request, and, on
\* a guarded route, not in maintenance at that moment, unless it has the bypass, with its
\* circuit closed at one. Universal routes look at neither.
OnlyTheReadyAreServed ==
  gate.outcome = "tenant" =>
    /\ Was({"ready"}, {FALSE} \cup (IF gate.bypass \/ gate.route = "universal" THEN {TRUE} ELSE {}))
    /\ gate.route = "tenant" => <<"circuit", FALSE>> \in gate.facts

\* And is refused, or runs as a central one, only for what was so at some moment.
RefusalsAreTrue ==
  /\ gate.outcome = "suspended" => Was({"suspended", "deleted"}, BOOLEAN)
  /\ gate.outcome = "notReady" => Was({"new"}, BOOLEAN)
  /\ gate.outcome = "maintenance" => Was({"ready"}, {TRUE}) /\ ~gate.bypass
  /\ gate.outcome = "circuit" => <<"circuit", TRUE>> \in gate.facts
  /\ gate.outcome = "notFound" => Was({"absent", "deleted"}, BOOLEAN)
  /\ gate.outcome = "error" => gateFaults > 0
  /\ gate.outcome = "central" /\ gate.route = "universal" =>
       \/ gateFaults > 0
       \/ gate.found \in {"none", "bad"}
       \/ Was({"suspended", "new", "deleted", "absent"}, BOOLEAN)

\* The last event of maintenance says what the row says, unless one was lost or crossed.
MaintenanceIsAnnounced ==
  (~muted /\ \A w \in Togglers : ~Busy(w)) => announced = <<maintained, notice>>

\* What a request, and who listens, may rely on at the gates.
GatesAreTrue == WalkIsTrue /\ OnlyTheReadyAreServed /\ RefusalsAreTrue /\ MaintenanceIsAnnounced
=============================================================================
