------------------------------ MODULE RateLimit ------------------------------
(***************************************************************************)
(* The rate limit of one address in one tenant (middleware/                *)
(* rate_limit_middleware.ts): a sorted set of the milliseconds of its      *)
(* requests. Each reads the clock of one of several processes and sends    *)
(* its commands in a pipeline, which is no MULTI: those of others run in   *)
(* between.                                                                *)
(***************************************************************************)
EXTENDS Naturals, FiniteSets

CONSTANTS
  Hits,      \* requests of the address
  HitLimit,  \* requests the window may have
  Window,    \* length of the window
  MaxClock   \* bound on the clock

ASSUME RateAssumption == HitLimit \in Nat /\ Window \in Nat \ {0}

VARIABLES
  clock,    \* the time
  members,  \* the sorted set: the times of counted requests
  expires,  \* when Redis drops the set, 0 when it has no expiry
  removed,  \* history: the times that were removed from it
  hit       \* what each request does

rateVars == <<clock, members, expires, removed, hit>>

RateInit ==
  /\ clock = 0
  /\ members = {}
  /\ expires = 0
  /\ removed = {}
  /\ hit = [r \in Hits |-> [step |-> "new", now |-> 0, over |-> FALSE, late |-> FALSE]]

ReadClock(r) ==
  /\ hit[r].step = "new"
  /\ hit' = [hit EXCEPT ![r].step = "sent", ![r].now = clock]
  /\ UNCHANGED <<clock, members, expires, removed>>

Outside(now) == {m \in members : m + Window <= now}

\* ZREMRANGEBYSCORE: an emptied set is gone, and its expiry with it.
Trim(r) ==
  /\ hit[r].step = "sent"
  /\ members' = members \ Outside(hit[r].now)
  /\ removed' = removed \cup Outside(hit[r].now)
  /\ expires' = IF members' = {} THEN 0 ELSE expires
  /\ hit' = [hit EXCEPT ![r].step = "trimmed"]
  /\ UNCHANGED clock

\* ZADD: requests of the same millisecond are one member.
Add(r) ==
  /\ hit[r].step = "trimmed"
  /\ members' = members \cup {hit[r].now}
  /\ hit' = [hit EXCEPT ![r].step = "added"]
  /\ UNCHANGED <<clock, expires, removed>>

\* ZCARD, by which the request is within the limit or over it. It is late when a
\* request less than a window from it was removed before.
CountAs(r, count) ==
  /\ hit[r].step = "added"
  /\ hit' = [hit EXCEPT ![r].step = "counted", ![r].over = count > HitLimit,
                        ![r].late = \E m \in removed : m + Window > hit[r].now /\ m < hit[r].now + Window]
  /\ UNCHANGED <<clock, members, expires, removed>>

\* Variant of Count: the request is counted before it is added.
CountOthers(r) == CountAs(r, Cardinality(members \ {hit[r].now}))

Count(r) == CountAs(r, Cardinality(members))

\* EXPIRE, and the answer: the last command of the pipeline.
Answer(r) ==
  /\ hit[r].step = "counted"
  /\ expires' = IF members = {} THEN 0 ELSE clock + Window
  /\ hit' = [hit EXCEPT ![r].step = IF hit[r].over THEN "refused" ELSE "passed"]
  /\ UNCHANGED <<clock, members, removed>>

\* An error of Redis, after any of the commands, lets the request pass.
PassUncounted(r) ==
  /\ hit[r].step \in {"sent", "trimmed", "added", "counted"}
  /\ hit' = [hit EXCEPT ![r].step = "uncounted"]
  /\ UNCHANGED <<clock, members, expires, removed>>

Tick ==
  /\ clock < MaxClock
  /\ clock' = clock + 1
  /\ UNCHANGED <<members, expires, removed, hit>>

\* A window after the last EXPIRE the set is gone.
DropSet ==
  /\ expires # 0 /\ expires <= clock
  /\ members' = {}
  /\ removed' = removed \cup members
  /\ expires' = 0
  /\ UNCHANGED <<clock, hit>>

RateNext ==
  \/ \E r \in Hits :
       ReadClock(r) \/ Trim(r) \/ Add(r) \/ Count(r) \/ Answer(r) \/ PassUncounted(r)
  \/ Tick
  \/ DropSet

RateSpec == RateInit /\ [][RateNext]_rateVars

-----------------------------------------------------------------------------
(* Properties.                                                             *)

Passed == {r \in Hits : hit[r].step = "passed" /\ ~hit[r].late}

\* No window has more counted requests than the limit, however the commands of their
\* pipelines interleave, but for requests of the same millisecond, which are one member
\* of the set, and for a request that counts after another moved the window past it or
\* the set has expired.
WindowIsLimited ==
  \A r \in Passed :
    Cardinality({hit[s].now : s \in {s \in Passed : hit[s].now <= hit[r].now /\ hit[r].now < hit[s].now + Window}})
      <= HitLimit
=============================================================================
