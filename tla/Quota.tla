-------------------------------- MODULE Quota --------------------------------
(***************************************************************************)
(* One quota of one tenant (services/quota_service.ts): a counter per UTC  *)
(* day and a snapshot value, each a Redis key. A missing key reads as 0,   *)
(* and a counter that exists is positive, so that 0 stands for "missing".  *)
(* Every await of a call is a step of its own.                             *)
(***************************************************************************)
EXTENDS Naturals, FiniteSets

CONSTANTS
  Callers,  \* calls in flight at the same time, in all processes
  Limit,    \* the limit in the tenant's plan
  Amount,   \* the amount every call asks for
  MaxDay,   \* bound on the days of a behaviour
  MaxSoft,  \* bound on unenforced calls
  MaxFaults \* bound on calls that die halfway

ASSUME QuotaAssumption ==
  /\ IsFiniteSet(Callers)
  /\ Callers # {}
  /\ Limit \in Nat
  /\ Amount \in Nat \ {0}
  /\ MaxDay \in Nat
  /\ MaxSoft \in Nat
  /\ MaxFaults \in Nat

Days == 0..MaxDay

VARIABLES
  day,      \* today
  count,    \* the counter of each day
  ttl,      \* whether a counter has an expiry
  snapshot, \* the snapshot value
  call,     \* what each caller does next
  soft,     \* history: unenforced calls in each day's counter
  faults    \* history: calls that died

vars == <<day, count, ttl, snapshot, call, soft, faults>>

Steps == {"idle", "fallback", "allowed", "expire", "resetSnapshot", "deleteKeys"}

\* day: the counter to expire; keys, snap: the keys a wildcard reset has found.
Calls == [step : Steps, day : Days, keys : SUBSET Days, snap : BOOLEAN]

TypeOK ==
  /\ day \in Days
  /\ count \in [Days -> Nat]
  /\ ttl \in [Days -> BOOLEAN]
  /\ snapshot \in Nat
  /\ call \in [Callers -> Calls]
  /\ soft \in [Days -> Nat]
  /\ faults \in Nat

At(step) == [step |-> step, day |-> 0, keys |-> {}, snap |-> FALSE]

Init ==
  /\ day = 0
  /\ count = [d \in Days |-> 0]
  /\ ttl = [d \in Days |-> FALSE]
  /\ snapshot = 0
  /\ call = [c \in Callers |-> At("idle")]
  /\ soft = [d \in Days |-> 0]
  /\ faults = 0

-----------------------------------------------------------------------------
(* consume: check, then track.                                             *)

\* Variant of Decide: the usage is compared without the amount.
DecideLoosely(usage) == At(IF usage < Limit THEN "allowed" ELSE "idle")

\* A refused call dispatches TenantQuotaExceeded, throws, and is done.
Decide(usage) == At(IF usage + Amount <= Limit THEN "allowed" ELSE "idle")

\* check reads today's counter, and falls back to the snapshot if there is none.
ReadRolling(c) ==
  /\ call[c].step = "idle"
  /\ call' = [call EXCEPT ![c] = IF count[day] > 0 THEN Decide(count[day]) ELSE At("fallback")]
  /\ UNCHANGED <<day, count, ttl, snapshot, soft, faults>>

ReadSnapshot(c) ==
  /\ call[c].step = "fallback"
  /\ call' = [call EXCEPT ![c] = Decide(snapshot)]
  /\ UNCHANGED <<day, count, ttl, snapshot, soft, faults>>

ExpireNext == [step |-> "expire", day |-> day, keys |-> {}, snap |-> FALSE]

\* Variant of Track: the counter is given no expiry.
TrackForever(c) ==
  /\ call[c].step = "allowed"
  /\ count' = [count EXCEPT ![day] = @ + Amount]
  /\ call' = [call EXCEPT ![c] = At("idle")]
  /\ UNCHANGED <<day, ttl, snapshot, soft, faults>>

\* INCRBY of the counter of the day it is now: it may be the day after the check.
Track(c) ==
  /\ call[c].step = "allowed"
  /\ count' = [count EXCEPT ![day] = @ + Amount]
  /\ call' = [call EXCEPT ![c] = ExpireNext]
  /\ UNCHANGED <<day, ttl, snapshot, soft, faults>>

\* The middleware with enforce: false only tracks.
TrackSoftly(c) ==
  /\ call[c].step = "idle"
  /\ soft[day] < MaxSoft
  /\ count' = [count EXCEPT ![day] = @ + Amount]
  /\ soft' = [soft EXCEPT ![day] = @ + 1]
  /\ call' = [call EXCEPT ![c] = ExpireNext]
  /\ UNCHANGED <<day, ttl, snapshot, faults>>

\* EXPIRE, which does nothing to a key that a reset has deleted.
SetExpiry(c) ==
  /\ call[c].step = "expire"
  /\ ttl' = [ttl EXCEPT ![call[c].day] = @ \/ count[call[c].day] > 0]
  /\ call' = [call EXCEPT ![c] = At("idle")]
  /\ UNCHANGED <<day, count, snapshot, soft, faults>>

-----------------------------------------------------------------------------
(* The application and the admin.                                          *)

SetUsage(value) ==
  /\ snapshot' = value
  /\ UNCHANGED <<day, count, ttl, call, soft, faults>>

\* DEL of the counters of some days: an expiry goes with its key.
DeleteCounters(ds) ==
  /\ count' = [d \in Days |-> IF d \in ds THEN 0 ELSE count[d]]
  /\ ttl' = [d \in Days |-> IF d \in ds THEN FALSE ELSE ttl[d]]
  /\ soft' = [d \in Days |-> IF d \in ds THEN 0 ELSE soft[d]]

\* reset of the quota deletes today's counter, then the snapshot.
ResetRolling(c) ==
  /\ call[c].step = "idle"
  /\ DeleteCounters({day})
  /\ call' = [call EXCEPT ![c] = At("resetSnapshot")]
  /\ UNCHANGED <<day, snapshot, faults>>

ResetSnapshot(c) ==
  /\ call[c].step = "resetSnapshot"
  /\ snapshot' = 0
  /\ call' = [call EXCEPT ![c] = At("idle")]
  /\ UNCHANGED <<day, count, ttl, soft, faults>>

\* reset of all quotas scans the tenant's keys, then deletes those it has found.
ScanKeys(c) ==
  /\ call[c].step = "idle"
  /\ call' = [call EXCEPT ![c] = [step |-> "deleteKeys", day |-> 0,
                                  keys |-> {d \in Days : count[d] > 0}, snap |-> snapshot > 0]]
  /\ UNCHANGED <<day, count, ttl, snapshot, soft, faults>>

DeleteKeys(c) ==
  /\ call[c].step = "deleteKeys"
  /\ DeleteCounters(call[c].keys)
  /\ snapshot' = IF call[c].snap THEN 0 ELSE snapshot
  /\ call' = [call EXCEPT ![c] = At("idle")]
  /\ UNCHANGED <<day, faults>>

-----------------------------------------------------------------------------
(* Time and failures.                                                      *)

Midnight ==
  /\ day < MaxDay
  /\ day' = day + 1
  /\ UNCHANGED <<count, ttl, snapshot, call, soft, faults>>

\* 48 hours after it was last tracked a counter is gone.
ExpireCounter(d) ==
  /\ ttl[d]
  /\ day >= d + 2
  /\ DeleteCounters({d})
  /\ UNCHANGED <<day, snapshot, call, faults>>

\* The process dies, or Redis refuses the next command: the call stops there.
Fail(c) ==
  /\ faults < MaxFaults
  /\ call[c].step # "idle"
  /\ call' = [call EXCEPT ![c] = At("idle")]
  /\ faults' = faults + 1
  /\ UNCHANGED <<day, count, ttl, snapshot, soft>>

Next ==
  \/ \E c \in Callers :
       \/ ReadRolling(c) \/ ReadSnapshot(c) \/ Track(c) \/ TrackSoftly(c) \/ SetExpiry(c)
       \/ ResetRolling(c) \/ ResetSnapshot(c) \/ ScanKeys(c) \/ DeleteKeys(c)
       \/ Fail(c)
  \/ \E value \in 0..Limit : SetUsage(value)
  \/ Midnight
  \/ \E d \in Days : ExpireCounter(d)

Spec == Init /\ [][Next]_vars

-----------------------------------------------------------------------------
(* Properties.                                                             *)

\* Calls that raced the gap between check and track overshoot the limit by at
\* most one amount each but for the first, across midnight and resets too.
BoundedOvershoot ==
  \A d \in Days :
    count[d] <= Limit + Amount * (Cardinality(Callers) - 1) + Amount * soft[d]

\* Calls that have passed the check and will count, or may still pass it.
Pending == {c \in Callers : \/ call[c].step = "allowed"
                            \/ call[c].step = "fallback" /\ Amount <= Limit}

\* The strengthening that is inductive: room is kept for the pending calls.
OvershootInv ==
  /\ BoundedOvershoot
  /\ Pending # {} => Amount <= Limit
  /\ count[day] + Amount * Cardinality(Pending)
       <= Limit + Amount * (Cardinality(Callers) - 1) + Amount * soft[day]
  /\ \A d \in Days : d > day => count[d] = 0

\* Callers that have yet to set the expiry of a day's counter.
Expiring(d) == {c \in Callers : call[c].step = "expire" /\ call[c].day = d}

\* "Counter expires after 48h" (quota_service.ts:66): a counter has an expiry
\* or is about to get it.
CountersExpire == \A d \in Days : count[d] > 0 => ttl[d] \/ Expiring(d) # {}

\* Only a call that dies between INCRBY and EXPIRE leaves a counter without.
OnlyFaultsLeak == faults = 0 => CountersExpire
=============================================================================
