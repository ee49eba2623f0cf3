------------------------------- MODULE Provider -------------------------------
(***************************************************************************)
(* MultitenancyProvider over the applications one process boots, one after *)
(* another, as a hot reload or a run of tests does. Each has a container   *)
(* with singletons of its own; the modules that look them up keep what     *)
(* they found in a variable of the module, which outlives the application. *)
(***************************************************************************)
EXTENDS Naturals, FiniteSets

CONSTANTS
  Modules, \* with a cache: "driver", "context", "bootstrappers" and "resolvers"
  Lookups, \* code that looks up a singleton, or a probe of the health routes
  MaxApps  \* bound on the applications of the process

\* The health service is made anew at each probe: no module caches it.
ASSUME ProviderAssumption == "health" \notin Modules

VARIABLES
  booting,  \* the application: its number, its step, its configuration, and how it failed
  wired,    \* its registries of drivers and resolvers
  modules,  \* what each module has cached: the application whose it is, or 0
  seeded,   \* the health_controller's flag, and the applications whose checks it seeded
  lookup,   \* the lookups
  strayed,  \* history: the modules that hold what another application left them
  preferred \* history: the application has wired its driver by itself

providerVars == <<booting, wired, modules, seeded, lookup, strayed, preferred>>

\* active_driver.ts; tenancy.ts has two others; extensions/request.ts is not reset.
Resettable == {"driver", "context", "bootstrappers"}
BuiltIn == {"header", "subdomain"}
Drivers == {"configured", "custom"}

\* As the provider is given it: strategy, chain and the impersonation secret. A bound: it
\* departs from the plain one in one thing at the most.
Configs ==
  {c \in [complete : BOOLEAN, strategy : {"header", "custom"},
          chain : {{}, {"header", "custom"}}, secret : BOOLEAN] :
     Cardinality({i \in 1..4 :
       <<~c.complete, c.strategy = "custom", c.chain # {}, ~c.secret>>[i]}) <= 1}

NewApp(n, config) == [number |-> n, step |-> "registered", config |-> config, why |-> "none"]
NothingWired == [drivers |-> {}, active |-> "none", resolvers |-> {}, chain |-> {}]
NoLookup == [step |-> "idle", of |-> "none", began |-> 0, made |-> 0, got |-> 0]

ProviderInit ==
  /\ \E config \in Configs : booting = NewApp(1, config)
  /\ wired = NothingWired
  /\ modules = [m \in Modules |-> 0]
  /\ seeded = [flag |-> FALSE, apps |-> {}]
  /\ lookup = [l \in Lookups |-> NoLookup]
  /\ strayed = {}
  /\ preferred = FALSE

-----------------------------------------------------------------------------
(* boot and start, one action from one await to the next.                  *)

AtBoot(step) == booting.step = step
GoOn(step) == booting' = [booting EXCEPT !.step = step]
GiveUpBoot(why) == booting' = [booting EXCEPT !.step = "failed", !.why = why]
LookupsUnchanged == UNCHANGED <<modules, seeded, lookup, strayed>>

\* #assertConfigShape, which knows the built-in strategies only.
AssertConfigShape ==
  /\ AtBoot("registered")
  /\ IF ~booting.config.complete THEN GiveUpBoot("shape")
     ELSE IF booting.config.strategy \notin BuiltIn THEN GiveUpBoot("strategy")
     ELSE GoOn("configured")
  /\ UNCHANGED <<wired, preferred>> /\ LookupsUnchanged

\* IsolationDriverRegistry.register: the first, and one to activate, is the active one.
Registered(name, activate) ==
  [wired EXCEPT !.drivers = @ \cup {name},
                !.active = IF activate \/ @ = "none" THEN name ELSE @]

\* The configured driver, unless the application has one of that name.
WireDriver ==
  /\ AtBoot("configured")
  /\ wired' = IF "configured" \in wired.drivers THEN wired ELSE Registered("configured", TRUE)
  /\ GoOn("driven")
  /\ UNCHANGED preferred /\ LookupsUnchanged

\* The built-in resolvers, and the chain, each of whose names must be registered.
SeedResolvers ==
  /\ AtBoot("driven")
  /\ LET all == wired.resolvers \cup BuiltIn
         chain == IF booting.config.chain = {} THEN {booting.config.strategy} ELSE booting.config.chain IN
     IF chain \subseteq all
     THEN wired' = [wired EXCEPT !.resolvers = all, !.chain = chain] /\ GoOn("resolving")
     ELSE wired' = [wired EXCEPT !.resolvers = all] /\ GiveUpBoot("chain")
  /\ UNCHANGED preferred /\ LookupsUnchanged

\* Hooks and bootstrappers, and in the end the secret of impersonation.
FinishBoot ==
  /\ AtBoot("resolving")
  /\ IF booting.config.secret THEN GoOn("booted") ELSE GiveUpBoot("secret")
  /\ UNCHANGED <<wired, preferred>> /\ LookupsUnchanged

StartApp ==
  /\ AtBoot("booted")
  /\ GoOn("started")
  /\ UNCHANGED <<wired, preferred>> /\ LookupsUnchanged

\* Another provider of the application registers its own, before or after this one boots.
RegisterOwn ==
  /\ booting.step \in {"registered", "booted"}
  /\ \/ /\ "custom" \notin wired.resolvers
        /\ wired' = [wired EXCEPT !.resolvers = @ \cup {"custom"}]
        /\ UNCHANGED preferred
     \/ \E name \in Drivers \ wired.drivers, activate \in BOOLEAN :
          /\ wired' = Registered(name, activate)
          /\ preferred' = (preferred \/ name = "configured" \/ activate)
  /\ UNCHANGED booting /\ LookupsUnchanged

-----------------------------------------------------------------------------
(* Lookups: cached, or made, awaited and cached.                           *)

AppUnchanged == UNCHANGED <<booting, wired, preferred>>

StartLookup(l) ==
  /\ lookup[l].step # "making"
  /\ booting.step \in {"started", "down"}
  /\ \E m \in Modules :
       lookup' = [lookup EXCEPT ![l] =
         [step |-> IF modules[m] = 0 THEN "making" ELSE "done", of |-> m, began |-> booting.number,
          made |-> IF modules[m] = 0 THEN booting.number ELSE 0, got |-> modules[m]]]
  /\ UNCHANGED <<modules, seeded, strayed>> /\ AppUnchanged

\* Whoever made the singleton stores it, whatever has happened since.
StoreLookup(l) ==
  /\ lookup[l].step = "making" /\ lookup[l].of \in Modules
  /\ modules' = [modules EXCEPT ![lookup[l].of] = lookup[l].made]
  /\ lookup' = [lookup EXCEPT ![l].step = "done", ![l].got = lookup[l].made]
  /\ strayed' = IF AtBoot("started") /\ lookup[l].made = booting.number THEN strayed
                ELSE strayed \cup {lookup[l].of}
  /\ UNCHANGED seeded /\ AppUnchanged

\* A probe makes the health service each time, and seeds it unless the flag is set.
StartProbe(l) ==
  /\ lookup[l].step # "making" /\ AtBoot("started")
  /\ lookup' = [lookup EXCEPT ![l] =
       [NoLookup EXCEPT !.step = "making", !.of = "health", !.began = booting.number, !.made = booting.number]]
  /\ UNCHANGED <<modules, seeded, strayed>> /\ AppUnchanged

SeedChecks(l) ==
  /\ lookup[l].step = "making" /\ lookup[l].of = "health"
  /\ seeded' = IF seeded.flag THEN seeded
               ELSE [flag |-> TRUE, apps |-> seeded.apps \cup {lookup[l].made}]
  /\ lookup' = [lookup EXCEPT ![l].step = "done", ![l].got = lookup[l].made]
  /\ UNCHANGED <<modules, strayed>> /\ AppUnchanged

-----------------------------------------------------------------------------
(* shutdown, and the next application.                                     *)

\* Variant of Shutdown: the active driver's module is forgotten.
ShutdownTenancyOnly ==
  /\ booting.step = "started"
  /\ GoOn("down")
  /\ modules' = [m \in Modules |-> IF m \in Resettable \ {"driver"} THEN 0 ELSE modules[m]]
  /\ strayed' = strayed \ Resettable
  /\ UNCHANGED <<wired, preferred, seeded, lookup>>

\* The caches of tenancy.ts and active_driver.ts are reset, that of request.ts is not.
Shutdown ==
  /\ booting.step = "started"
  /\ GoOn("down")
  /\ modules' = [m \in Modules |-> IF m \in Resettable THEN 0 ELSE modules[m]]
  /\ strayed' = strayed \ Resettable
  /\ UNCHANGED <<wired, preferred, seeded, lookup>>

\* A new application, with new singletons, in the same process.
BootAgain ==
  /\ booting.step \in {"down", "failed"}
  /\ booting.number < MaxApps
  /\ \E config \in Configs : booting' = NewApp(booting.number + 1, config)
  /\ wired' = NothingWired
  /\ preferred' = FALSE
  /\ strayed' = strayed \cup {m \in Modules \ Resettable : modules[m] # 0}
  /\ UNCHANGED <<modules, seeded, lookup>>

ProviderNext ==
  \/ AssertConfigShape \/ WireDriver \/ SeedResolvers \/ FinishBoot \/ StartApp \/ RegisterOwn
  \/ \E l \in Lookups : StartLookup(l) \/ StoreLookup(l) \/ StartProbe(l) \/ SeedChecks(l)
  \/ Shutdown \/ BootAgain

ProviderSpec == ProviderInit /\ [][ProviderNext]_providerVars

-----------------------------------------------------------------------------
(* Properties.                                                             *)

\* A module holds the singleton of the running application, and what a lookup got is of
\* the application it began in, unless a lookup crossed the shutdown (provider.ts:247), or
\* it is the resolvers' registry, which an earlier application left (request.ts:28).
LookupsAreCurrent ==
  /\ AtBoot("started") => \A m \in Modules \ strayed : modules[m] \in {0, booting.number}
  /\ \A l \in Lookups :
       (/\ lookup[l].step = "done" /\ lookup[l].of \in Modules \ strayed
        /\ lookup[l].began = booting.number /\ AtBoot("started"))
       => lookup[l].got = booting.number

\* A probe that was answered has run the default checks, unless another application of
\* the process was probed before (health_controller.ts:9).
ProbesAreSeeded ==
  \A l \in Lookups : (lookup[l].step = "done" /\ lookup[l].of = "health")
    => lookup[l].made \in seeded.apps \/ seeded.apps \ {lookup[l].made} # {}

\* What has booted has its configured driver active, unless the application wired drivers
\* itself, and a chain of registered resolvers; a failed boot has a cause.
WiringIsAsConfigured ==
  /\ booting.step \in {"booted", "started"} =>
       /\ preferred \/ wired.active = "configured"
       /\ wired.chain \subseteq wired.resolvers /\ wired.chain # {}
       /\ booting.config.complete /\ booting.config.secret
  /\ AtBoot("failed") /\ booting.why = "chain" => booting.config.chain \ wired.resolvers # {}

\* What the applications of a process may rely on.
AppsAreTheirOwn == LookupsAreCurrent /\ ProbesAreSeeded /\ WiringIsAsConfigured
=============================================================================
