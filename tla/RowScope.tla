------------------------------ MODULE RowScope ------------------------------
(***************************************************************************)
(* Row scoping (models/scoping.ts, models/adapters/default_lucid_adapter,  *)
(* services/isolation/rowscope_pg_driver.ts): the rows of all tenants are  *)
(* in shared tables, and a mixin adds the tenant of the current scope to   *)
(* what a model does. Builders and instances outlive the scope they were   *)
(* made in.                                                                *)
(***************************************************************************)
EXTENDS AsyncContext, FiniteSets

CONSTANTS
  ScopedTables,  \* the tables of the driver's list, in which a tenant has at most one row here
  MaxClauses     \* bound on the alternatives of a query

VARIABLES
  strict,   \* rowScopeMode
  rowsOf,   \* the tenants that have a row in each table
  builder,  \* the query each work has built: its alternatives, each a set of tenants it requires
  instance, \* the row each work has loaded or made: its table, its tenant, and whether that is loaded
  drop,     \* the destroy that runs: its tenant, the tables it has still to clear, and what was added behind it
  strayed   \* history: operations of one scope that reached a row of another tenant

scopeVars == <<strict, rowsOf, builder, instance, drop, strayed>>

NoBuilder == [table |-> "none", clauses |-> <<>>, scope |-> Nobody]
NoInstance == [table |-> "none", owner |-> Nobody, loaded |-> FALSE]
NoDrop == [tenant |-> Nobody, left |-> {}, added |-> {}]

\* Every tenant begins with a row in every table.
RowScopeInit ==
  /\ strict \in BOOLEAN
  /\ rowsOf = [b \in ScopedTables |-> Tenants]
  /\ builder = [w \in Works |-> NoBuilder]
  /\ instance = [w \in Works |-> NoInstance]
  /\ drop = NoDrop
  /\ strayed = {}

-----------------------------------------------------------------------------
(* The mixin.                                                              *)

\* requireScope, for the tenant it returns; strict mode throws without one.
ScopeOf(w) == IF IsScopeBypassed(w) THEN Nobody ELSE CurrentId(w)
Refused(w) == strict /\ ~IsScopeBypassed(w) /\ CurrentId(w) = Nobody

\* where(column, id) joins the last alternative of a query.
Where(clauses, id) ==
  IF id = Nobody THEN clauses
  ELSE [clauses EXCEPT ![Len(clauses)] = @ \cup {id}]

\* The rows a query selects: an alternative without a tenant selects any.
Selected(w, clauses) ==
  {t \in rowsOf[builder[w].table] : \E i \in DOMAIN clauses : clauses[i] \subseteq {t}}

\* What work w does in scope id strays when it reaches another tenant's row. Only work in
\* the scope of one tenant all along is looked at.
Strays(id, made, reached) == id # Nobody /\ made = id /\ reached \ {id} # {}

\* Variant of Query: the static query is not wrapped.
QueryUnwrapped(w, b) ==
  /\ ~Refused(w)
  /\ builder' = [builder EXCEPT ![w] = [table |-> b, clauses |-> <<{}>>, scope |-> ScopeOf(w)]]
  /\ UNCHANGED <<frames, strict, rowsOf, instance, drop, strayed>>

\* query: the predicate is there from construction on.
Query(w, b) ==
  /\ ~Refused(w)
  /\ builder' = [builder EXCEPT ![w] =
       [table |-> b, clauses |-> Where(<<{}>>, ScopeOf(w)), scope |-> ScopeOf(w)]]
  /\ UNCHANGED <<frames, strict, rowsOf, instance, drop, strayed>>

\* The caller's orWhere begins another alternative, which has no tenant.
OrWhere(w) ==
  /\ builder[w].clauses # <<>> /\ Len(builder[w].clauses) < MaxClauses
  /\ builder' = [builder EXCEPT ![w].clauses = Append(@, {})]
  /\ UNCHANGED <<frames, strict, rowsOf, instance, drop, strayed>>

Stray(w, what, reached) ==
  strayed' = IF Strays(ScopeOf(w), builder[w].scope, reached)
             THEN strayed \cup {<<what, Len(builder[w].clauses)>>} ELSE strayed

\* find, fetch and paginate add the predicate of the scope they run in. A row that was
\* found may be loaded without its tenant column.
Fetch(w) ==
  LET found == Selected(w, Where(builder[w].clauses, ScopeOf(w)))
  IN /\ builder[w].clauses # <<>> /\ ~Refused(w)
     /\ Stray(w, "fetch", found)
     /\ \/ found = {} /\ UNCHANGED instance
        \/ \E t \in found, loaded \in BOOLEAN :
             instance' = [instance EXCEPT ![w] = [table |-> builder[w].table, owner |-> t, loaded |-> loaded]]
     /\ builder' = [builder EXCEPT ![w] = NoBuilder]
     /\ UNCHANGED <<frames, strict, rowsOf, drop>>

\* A delete by query has the predicate of its construction only.
BulkDelete(w) ==
  LET found == Selected(w, builder[w].clauses)
  IN /\ builder[w].clauses # <<>>
     /\ Stray(w, "bulk", found)
     /\ rowsOf' = [rowsOf EXCEPT ![builder[w].table] = @ \ found]
     /\ builder' = [builder EXCEPT ![w] = NoBuilder]
     /\ UNCHANGED <<frames, strict, instance, drop>>

\* The owner of a row that is inserted: a missing one is filled in.
Filled(w, owner) == IF owner = Nobody THEN ScopeOf(w) ELSE owner

\* create. The column is not null.
Create(w, b, owner) ==
  /\ ~Refused(w)
  /\ Filled(w, owner) # Nobody
  /\ Filled(w, owner) \notin rowsOf[b]
  /\ rowsOf' = [rowsOf EXCEPT ![b] = @ \cup {Filled(w, owner)}]
  /\ drop' = IF Filled(w, owner) = drop.tenant /\ b \notin drop.left
             THEN [drop EXCEPT !.added = @ \cup {b}] ELSE drop
  /\ UNCHANGED <<frames, strict, builder, instance, strayed>>

\* The hooks before update and delete refuse an instance that is known to be another's.
MayWrite(w) == ScopeOf(w) = Nobody \/ ~instance[w].loaded \/ instance[w].owner = ScopeOf(w)

\* delete, of an instance: by its primary key, which has no scope. (An update changes
\* nothing that is kept here.)
DeleteInstance(w) ==
  /\ instance[w].table # "none" /\ ~Refused(w) /\ MayWrite(w)
  /\ strayed' = IF ScopeOf(w) # Nobody /\ instance[w].owner # ScopeOf(w)
                THEN strayed \cup {<<"instance", IF instance[w].loaded THEN 1 ELSE 0>>} ELSE strayed
  /\ rowsOf' = [rowsOf EXCEPT ![instance[w].table] = @ \ {instance[w].owner}]
  /\ instance' = [instance EXCEPT ![w] = NoInstance]
  /\ UNCHANGED <<frames, strict, builder, drop>>

-----------------------------------------------------------------------------
(* The driver.                                                             *)

\* destroy, without keepData, and reset: table after table.
BeginDrop(t) ==
  /\ drop.tenant = Nobody
  /\ drop' = [tenant |-> t, left |-> ScopedTables, added |-> {}]
  /\ UNCHANGED <<frames, strict, rowsOf, builder, instance, strayed>>

DropTable(b) ==
  /\ drop.tenant # Nobody /\ b \in drop.left
  /\ rowsOf' = [rowsOf EXCEPT ![b] = @ \ {drop.tenant}]
  /\ drop' = [drop EXCEPT !.left = @ \ {b}]
  /\ UNCHANGED <<frames, strict, builder, instance, strayed>>

\* What models do, and what the driver does while rows are created.
ModelStep(w) ==
  \/ OrWhere(w) \/ Fetch(w) \/ BulkDelete(w) \/ DeleteInstance(w)
  \/ \E b \in ScopedTables : Query(w, b) \/ \E t \in Tenants \cup {Nobody} : Create(w, b, t)

DriverStep ==
  \/ \E t \in Tenants : BeginDrop(t)
  \/ \E b \in ScopedTables : DropTable(b)
  \/ \E w \in Works, b \in ScopedTables, t \in Tenants \cup {Nobody} : Create(w, b, t)

RowScopeNext ==
  \/ DriverStep
  \/ \E w \in Works : ModelStep(w) \/ (ContextStep(w) /\ UNCHANGED scopeVars)

RowScopeSpec == ContextInit /\ RowScopeInit /\ [][RowScopeNext]_<<frames, scopeVars>>

-----------------------------------------------------------------------------
(* Properties.                                                             *)

\* Work that builds and runs a query in the scope of a tenant reaches another tenant's
\* rows only through alternatives without a tenant: one is enough for a delete by query,
\* whose predicate is that of its construction; a fetch needs two, one that is neither
\* the first nor the last. An instance is written in another tenant's scope only when its
\* column was not loaded.
OnlyAlternativesStray ==
  \A s \in strayed :
    \/ s[1] = "fetch" /\ s[2] > 2
    \/ s[1] = "bulk" /\ s[2] > 1
    \/ s = <<"instance", 0>>

\* A destroyed tenant has only rows that were created behind the destroy.
DroppedTenantIsGone ==
  \A b \in ScopedTables \ drop.left : drop.tenant \in rowsOf[b] => b \in drop.added

\* What a tenant's scope, and the end of a tenant, mean for its rows.
RowsAreScoped == OnlyAlternativesStray /\ DroppedTenantIsGone
=============================================================================
