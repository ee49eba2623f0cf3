-------------------------- MODULE BootstrapperScope --------------------------
(***************************************************************************)
(* Tenant scopes (tenancy.ts, services/bootstrapper_registry.ts): any      *)
(* number of scopes run at a time, each entering the registered            *)
(* bootstrappers, running the caller's function and leaving what it has    *)
(* entered. A scope iterates over the registry's own array, which          *)
(* registrations may change at each of its awaits.                         *)
(***************************************************************************)
EXTENDS Naturals, Sequences, SequencesExt

CONSTANTS
  Names,         \* bootstrappers
  WithLeave,     \* those that have a leave
  Scopes,        \* scopes at a time
  MaxRegistered, \* bound on the registrations
  MaxRemoved     \* bound on unregister and clear

ASSUME BootstrapperAssumption ==
  /\ WithLeave \subseteq Names
  /\ MaxRegistered \in Nat
  /\ MaxRemoved \in Nat

VARIABLES
  order,      \* #order, whose members are the keys of #items
  scope,      \* the scopes
  registered, \* registrations so far
  removed     \* removals so far

vars == <<order, scope, registered, removed>>

Phases == {"idle", "entering", "running", "leaving"}

\* next: the index the iteration has reached; busy: whether it awaits the enter or
\* the leave of the bootstrapper it found there, name; completed: enters done.
\* due and disturbed are history: what the scope has entered and is to leave, the last
\* first; and whether bootstrappers have been removed since the scope began.
ScopeStates == [phase : Phases, next : Nat, busy : BOOLEAN, name : Names, completed : Nat,
                due : Seq(Names), disturbed : BOOLEAN]

TypeOK ==
  /\ order \in Seq(Names)
  /\ \A i, j \in DOMAIN order : order[i] = order[j] => i = j
  /\ scope \in [Scopes -> ScopeStates]
  /\ registered \in 0..MaxRegistered
  /\ removed \in 0..MaxRemoved

NoScope == [phase |-> "idle", next |-> 1, busy |-> FALSE, name |-> CHOOSE n \in Names : TRUE,
            completed |-> 0, due |-> <<>>, disturbed |-> FALSE]

Init ==
  /\ order = <<>>
  /\ scope = [s \in Scopes |-> NoScope]
  /\ registered = 0
  /\ removed = 0

-----------------------------------------------------------------------------
(* The registry.                                                           *)

IsRegistered(n) == \E i \in DOMAIN order : order[i] = n

\* A name that is taken is refused.
Register(n) ==
  /\ registered < MaxRegistered
  /\ ~IsRegistered(n)
  /\ order' = Append(order, n)
  /\ registered' = registered + 1
  /\ UNCHANGED <<scope, removed>>

\* A removal under the scopes that run.
Removal ==
  /\ removed < MaxRemoved
  /\ removed' = removed + 1
  /\ scope' = [s \in Scopes |-> [scope[s] EXCEPT !.disturbed = scope[s].phase # "idle"]]
  /\ UNCHANGED registered

Unregister(n) ==
  /\ Removal
  /\ \E i \in DOMAIN order : order[i] = n /\ order' = RemoveAt(order, i)

Clear ==
  /\ Removal
  /\ order # <<>>
  /\ order' = <<>>

-----------------------------------------------------------------------------
(* runScoped.                                                              *)

Set(s, new) ==
  /\ scope' = [scope EXCEPT ![s] = new]
  /\ UNCHANGED <<order, registered, removed>>

Begin(s) ==
  /\ scope[s].phase = "idle"
  /\ Set(s, [NoScope EXCEPT !.phase = "entering"])

\* The loop calls enter on the next bootstrapper, or is over.
Enter(s) ==
  /\ scope[s].phase = "entering"
  /\ ~scope[s].busy
  /\ Set(s, IF scope[s].next <= Len(order)
            THEN [scope[s] EXCEPT !.busy = TRUE, !.name = order[scope[s].next]]
            ELSE [scope[s] EXCEPT !.phase = "running"])

Entered(s) ==
  /\ scope[s].phase = "entering"
  /\ scope[s].busy
  /\ Set(s, [scope[s] EXCEPT !.busy = FALSE, !.next = @ + 1, !.completed = @ + 1,
                             !.due = (IF scope[s].name \in WithLeave THEN <<scope[s].name>> ELSE <<>>) \o @])

\* #runLeaveUpTo starts at the last bootstrapper that was entered, if the
\* registry is still as long. Variant: at the registry's last.
LeaveFromTheEnd(st) == [st EXCEPT !.phase = "leaving", !.busy = FALSE, !.next = Len(order)]

LeaveFromCompleted(st) == [st EXCEPT !.phase = "leaving", !.busy = FALSE,
                                     !.next = Min({st.completed, Len(order)})]

EnterFails(s) ==
  /\ scope[s].phase = "entering"
  /\ scope[s].busy
  /\ Set(s, LeaveFromCompleted(scope[s]))

\* The caller's function returns or throws.
FnEnds(s) ==
  /\ scope[s].phase = "running"
  /\ Set(s, LeaveFromCompleted(scope[s]))

\* The bootstrapper at an index, if the registry still has one there.
LeaveAt(i) == IF i <= Len(order) /\ order[i] \in WithLeave THEN {order[i]} ELSE {}

\* The loop calls leave on the bootstrapper it has reached, or passes it.
Leave(s) ==
  /\ scope[s].phase = "leaving"
  /\ ~scope[s].busy
  /\ scope[s].next > 0
  /\ IF LeaveAt(scope[s].next) = {}
     THEN Set(s, [scope[s] EXCEPT !.next = @ - 1])
     ELSE \E n \in LeaveAt(scope[s].next) : Set(s, [scope[s] EXCEPT !.busy = TRUE, !.name = n])

\* leave returns, or throws and is logged.
Left(s) ==
  /\ scope[s].phase = "leaving"
  /\ scope[s].busy
  /\ Set(s, [scope[s] EXCEPT !.busy = FALSE, !.next = @ - 1,
                             !.due = SubSeq(@, 2, Len(@))])

IsOver(s) == scope[s].phase = "leaving" /\ ~scope[s].busy /\ scope[s].next = 0

End(s) ==
  /\ IsOver(s)
  /\ Set(s, NoScope)

Step(s) ==
  \/ Enter(s) \/ Entered(s) \/ EnterFails(s) \/ FnEnds(s)
  \/ Leave(s) \/ Left(s) \/ End(s)

Next ==
  \/ \E n \in Names : Register(n) \/ Unregister(n)
  \/ Clear
  \/ \E s \in Scopes : Begin(s) \/ Step(s)

Spec == Init /\ [][Next]_vars

-----------------------------------------------------------------------------
(* Properties.                                                             *)

\* "LIFO with the order bootstrappers were registered" (TenantBootstrapper): what a
\* scope leaves is the last it entered and has not left, unless bootstrappers were
\* removed under it.
LeavesAreReversed(s) ==
  scope[s].phase = "leaving" /\ scope[s].busy => scope[s].due # <<>> /\ scope[s].name = Head(scope[s].due)

\* "Guarantees that every bootstrapper whose `enter` succeeded gets its matching
\* `leave`" (runScoped), whatever is registered while the scope runs, unless
\* bootstrappers are removed meanwhile.
EveryEnterIsLeft(s) == IsOver(s) => scope[s].due = <<>>

LeavesMatchEnters ==
  \A s \in Scopes : ~scope[s].disturbed => LeavesAreReversed(s) /\ EveryEnterIsLeft(s)
=============================================================================
