-------------------------------- MODULE Hooks --------------------------------
(***************************************************************************)
(* The hooks of a lifecycle event (services/hook_registry.ts): runs go     *)
(* over the registry's own array of a phase, which a registration may      *)
(* lengthen at each of their awaits; clear gives later runs a new array.   *)
(***************************************************************************)
EXTENDS Naturals, Sequences

CONSTANTS
  HookNames,  \* hooks
  HookRuns,   \* runs of the event
  MaxHooks,   \* bound on the hooks of an array
  MaxClears   \* bound on the clears

VARIABLES
  phase,   \* the phase of the event: before or after
  arrays,  \* the arrays the key has had; the last is the registry's, if it has one
  cleared, \* the key has no array
  hookRun, \* the runs: their array, the hooks called, and whether one of them threw
  atStart  \* history: the array when each run began

hookVars == <<phase, arrays, cleared, hookRun, atStart>>

HooksInit ==
  /\ phase \in {"before", "after"}
  /\ arrays = <<>>
  /\ cleared = TRUE
  /\ hookRun = [r \in HookRuns |-> [step |-> "idle", array |-> 0, called |-> <<>>, threw |-> FALSE]]
  /\ atStart = [r \in HookRuns |-> <<>>]

\* Variant of RegisterHook: the newest hook comes first.
RegisterHookFirst(h) ==
  /\ IF cleared THEN arrays' = Append(arrays, <<h>>)
     ELSE /\ Len(arrays[Len(arrays)]) < MaxHooks
          /\ arrays' = [arrays EXCEPT ![Len(arrays)] = <<h>> \o @]
  /\ cleared' = FALSE
  /\ UNCHANGED <<phase, hookRun, atStart>>

\* #register: before, after and loadDeclarative. The same hook may be registered again.
RegisterHook(h) ==
  /\ IF cleared THEN arrays' = Append(arrays, <<h>>)
     ELSE /\ Len(arrays[Len(arrays)]) < MaxHooks
          /\ arrays' = [arrays EXCEPT ![Len(arrays)] = Append(@, h)]
  /\ cleared' = FALSE
  /\ UNCHANGED <<phase, hookRun, atStart>>

ClearHooks ==
  /\ ~cleared /\ Len(arrays) <= MaxClears
  /\ cleared' = TRUE
  /\ UNCHANGED <<phase, arrays, hookRun, atStart>>

\* run: without hooks it is over.
BeginHooks(r) ==
  /\ hookRun[r].step = "idle" /\ ~cleared
  /\ hookRun' = [hookRun EXCEPT ![r].step = "running", ![r].array = Len(arrays)]
  /\ atStart' = [atStart EXCEPT ![r] = arrays[Len(arrays)]]
  /\ UNCHANGED <<phase, arrays, cleared>>

Array(r) == arrays[hookRun[r].array]
Called(r) == Len(hookRun[r].called)

\* The loop calls the next hook, which returns, or throws. What a before hook throws ends
\* the run; what an after hook throws is logged.
CallHook(r) ==
  /\ hookRun[r].step = "running" /\ Called(r) < Len(Array(r))
  /\ \E throws \in BOOLEAN :
       hookRun' = [hookRun EXCEPT
         ![r].called = Append(@, Array(r)[Called(r) + 1]),
         ![r].threw = throws,
         ![r].step = IF throws /\ phase = "before" THEN "failed" ELSE "running"]
  /\ UNCHANGED <<phase, arrays, cleared, atStart>>

EndHooks(r) ==
  /\ hookRun[r].step = "running" /\ Called(r) = Len(Array(r))
  /\ hookRun' = [hookRun EXCEPT ![r].step = "done"]
  /\ UNCHANGED <<phase, arrays, cleared, atStart>>

HooksNext ==
  \/ \E h \in HookNames : RegisterHook(h)
  \/ ClearHooks
  \/ \E r \in HookRuns : BeginHooks(r) \/ CallHook(r) \/ EndHooks(r)

HooksSpec == HooksInit /\ [][HooksNext]_hookVars

-----------------------------------------------------------------------------
(* Properties.                                                             *)

Starts(s, t) == Len(s) <= Len(t) /\ SubSeq(t, 1, Len(s)) = s

\* A run that ends has called every hook that was registered when it began, once each and
\* in the order of registration, whatever was registered or cleared meanwhile; one that
\* fails has called those up to the one that threw.
HooksRunInOrder ==
  \A r \in HookRuns :
    /\ hookRun[r].step = "done" => Starts(atStart[r], hookRun[r].called)
    /\ hookRun[r].step = "failed" =>
         (Starts(hookRun[r].called, atStart[r]) \/ Starts(atStart[r], hookRun[r].called))
=============================================================================
