---------------------------- MODULE AsyncContext ----------------------------
(***************************************************************************)
(* The scopes a piece of work runs in (tenancy.ts, services/               *)
(* tenant_log_context.ts, unscoped of models/scoping.ts): tenancy.run and  *)
(* unscoped bind an AsyncLocalStorage for the function they are given, and *)
(* nest. Each piece of work has a stack of them, the innermost first.      *)
(***************************************************************************)
EXTENDS Naturals, Sequences

CONSTANTS
  Works,    \* pieces of work that run at a time: requests, jobs
  Tenants,
  Nobody,   \* no tenant
  MaxDepth  \* bound on the nesting

ASSUME ContextAssumption == Nobody \notin Tenants

VARIABLE frames

ContextInit == frames = [w \in Works |-> <<>>]

IsFrameOf(f) == f \in Tenants

\* tenancy.run: the storage of the log context is bound to the tenant.
Run(w, t) ==
  /\ Len(frames[w]) < MaxDepth
  /\ frames' = [frames EXCEPT ![w] = <<t>> \o @]

\* unscoped: a storage of its own is bound, which tenancy.run does not touch.
Unscoped(w) ==
  /\ Len(frames[w]) < MaxDepth
  /\ frames' = [frames EXCEPT ![w] = <<"unscoped">> \o @]

\* The function of the innermost scope ends.
Return(w) ==
  /\ frames[w] # <<>>
  /\ frames' = [frames EXCEPT ![w] = Tail(@)]

\* currentId: the tenant of the innermost tenancy.run.
CurrentId(w) ==
  LET runs == SelectSeq(frames[w], IsFrameOf)
  IN IF runs = <<>> THEN Nobody ELSE Head(runs)

\* isScopeBypassed: an unscoped around the work, however far.
IsScopeBypassed(w) == \E i \in DOMAIN frames[w] : frames[w][i] = "unscoped"

ContextStep(w) == Return(w) \/ Unscoped(w) \/ \E t \in Tenants : Run(w, t)
=============================================================================
