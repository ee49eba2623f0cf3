------------------------- MODULE MCBootstrapperScope -------------------------
(***************************************************************************)
(* The scopes of bootstrappers, row scoping, the resources of tenants, the *)
(* hooks of an event, the read replicas and the database-pg driver, side   *)
(* by side: a behaviour is one of any one of them, and the others stay as  *)
(* they begin. Row scoping is explored in two halves: what models do in    *)
(* one piece of work, whose operations all go by its own scopes, and what  *)
(* the driver does beside inserts. One piece of work uses the resources:   *)
(* what two do, one with a handle kept from another scope does.            *)
(***************************************************************************)
EXTENDS BootstrapperScope, RowScope, TenantResources, Hooks, ReadReplicas, DatabaseDriver

VARIABLE part

Connected == <<replicaVars, databaseVars>>
Scoped == <<frames, scopeVars>>
AllVars == <<part, vars, frames, scopeVars, resourceVars, hookVars, Connected>>

For(p, S, other) == IF part = p THEN S ELSE {other}

ScopesInit ==
  /\ part \in {"scopes", "models", "driver", "resources", "hooks", "replicas", "database"}
  /\ Init
  /\ ContextInit
  /\ RowScopeInit /\ strict \in For("models", BOOLEAN, TRUE)
  /\ ResourcesInit /\ resource \in For("resources", Resources, "disk")
  /\ HooksInit /\ phase \in For("hooks", {"before", "after"}, "before")
  /\ ReplicasInit
  /\ part # "replicas" => strategy = "random" /\ hosts = 1 /\ driver = "database-pg"
  /\ DatabaseInit
  /\ part # "database" => pooled = {} /\ exists

ScopesNext ==
  /\ UNCHANGED part
  /\ \/ part = "scopes" /\ Next /\ UNCHANGED <<Scoped, resourceVars, hookVars, Connected>>
     \/ /\ part = "models"
        /\ LET w == CHOOSE w \in Works : TRUE
           IN ModelStep(w) \/ (ContextStep(w) /\ UNCHANGED scopeVars)
        /\ UNCHANGED <<vars, resourceVars, hookVars, Connected>>
     \/ /\ part = "driver"
        /\ DriverStep \/ (UNCHANGED scopeVars /\ \E w \in Works : ContextStep(w))
        /\ UNCHANGED <<vars, resourceVars, hookVars, Connected>>
     \/ /\ part = "resources"
        /\ LET w == CHOOSE w \in Works : TRUE
           IN \/ ResourceCall(w) \/ \E p \in ChannelPrefixes : CreateTransmit(p)
              \/ ContextStep(w) /\ UNCHANGED resourceVars
        /\ UNCHANGED <<vars, scopeVars, hookVars, Connected>>
     \/ part = "hooks" /\ HooksNext /\ UNCHANGED <<vars, Scoped, resourceVars, Connected>>
     \/ /\ part = "replicas" /\ ReplicasNext
        /\ UNCHANGED <<vars, Scoped, resourceVars, hookVars, databaseVars>>
     \/ /\ part = "database" /\ DatabaseNext
        /\ UNCHANGED <<vars, Scoped, resourceVars, hookVars, replicaVars>>

ScopesSpec == ScopesInit /\ [][ScopesNext]_AllVars
=============================================================================
