------------------------------ MODULE Breakers ------------------------------
(***************************************************************************)
(* What each server keeps of a tenant in memory: its circuit breaker       *)
(* (services/circuit_breaker_service.ts), whose state it copies to the one *)
(* key cb:state in Redis, and its instance of the tenant's queue           *)
(* (services/tenant_queue_service.ts), whose jobs are in Redis too; and the*)
(* uninstall job, which destroys both through instances of its own. The    *)
(* key and the jobs are shared by every web and worker process. The breaker*)
(* is that of the opossum package, its states and events only.             *)
(***************************************************************************)
EXTENDS Naturals, Sequences

CONSTANTS
  Servers,        \* web and worker processes
  MaxTransitions, \* bound on the breakers that are made and on their events
  MaxJobs         \* bound on the jobs of the queue

ASSUME BreakersAssumption == "none" \notin Servers

VARIABLES
  breaker,     \* the breaker of each server: its state, or none
  logging,     \* its events that wait for the logger, oldest first
  writing,     \* its commands that wait for Redis, oldest first
  persisted,   \* cb:state in Redis
  author,      \* history: the server whose command came to cb:state last
  queue,       \* the queue in the map of each: none, open, obliterated or closed
  jobs,        \* its jobs in Redis
  uninstalled, \* history: the uninstall job has run
  crossed,     \* history: servers whose last word Redis may not have
  leftover,    \* history: servers that obliterated the queue, and a job came since
  transitions  \* history: breakers made and events

breakerVars == <<breaker, logging, writing, persisted, author, queue, jobs,
                 uninstalled, crossed, leftover, transitions>>

BreakersInit ==
  /\ breaker = [p \in Servers |-> "none"]
  /\ logging = [p \in Servers |-> <<>>]
  /\ writing = [p \in Servers |-> <<>>]
  /\ persisted = "none"
  /\ author = "none"
  /\ queue = [p \in Servers |-> "none"]
  /\ jobs = 0
  /\ uninstalled = FALSE
  /\ crossed = {}
  /\ leftover = {}
  /\ transitions = 0

QueueUnchanged == UNCHANGED <<queue, jobs, leftover>>

RedisUnchanged == UNCHANGED <<persisted, author, uninstalled>>

Counts == transitions < MaxTransitions /\ transitions' = transitions + 1

-----------------------------------------------------------------------------
(* The breaker.                                                            *)

BreakerIs(p, state) == breaker' = [breaker EXCEPT ![p] = state]

\* What a server sends to Redis goes there in the order it was sent.
Sends(p, state) == writing' = [writing EXCEPT ![p] = Append(@, state)]

\* The handler of an event waits for the logger first.
Says(p, state) == logging' = [logging EXCEPT ![p] = Append(@, state)]

\* getCircuit makes a breaker when there is none; it is closed and says nothing.
GetCircuit(p) ==
  /\ breaker[p] = "none"
  /\ Counts
  /\ BreakerIs(p, "CLOSED")
  /\ UNCHANGED <<logging, writing, crossed>> /\ RedisUnchanged /\ QueueUnchanged

\* Enough failures open it, the reset timeout half-opens it, and the next probe opens
\* it again or closes it.
ChangeState(p, to) ==
  /\ <<breaker[p], to>> \in {<<"CLOSED", "OPEN">>, <<"OPEN", "HALF_OPEN">>,
                             <<"HALF_OPEN", "OPEN">>, <<"HALF_OPEN", "CLOSED">>}
  /\ Counts
  /\ BreakerIs(p, to)
  /\ Says(p, to)
  /\ UNCHANGED <<writing, crossed>> /\ RedisUnchanged /\ QueueUnchanged

Logged(p) ==
  /\ logging[p] # <<>>
  /\ Sends(p, Head(logging[p]))
  /\ logging' = [logging EXCEPT ![p] = Tail(@)]
  /\ UNCHANGED <<breaker, crossed, transitions>> /\ RedisUnchanged /\ QueueUnchanged

\* #persistState and the DEL of destroy; their errors are swallowed.
WriteState(p) ==
  /\ writing[p] # <<>>
  /\ \/ /\ persisted' = Head(writing[p]) /\ author' = p
        /\ UNCHANGED crossed
     \/ /\ crossed' = crossed \cup {p}
        /\ UNCHANGED <<persisted, author>>
  /\ writing' = [writing EXCEPT ![p] = Tail(@)]
  /\ UNCHANGED <<breaker, logging, uninstalled, transitions>> /\ QueueUnchanged

\* Variant of ResetCircuit: the event is taken to be enough of a write.
ResetBeforeEvents(p) ==
  /\ breaker[p] # "none"
  /\ Counts
  /\ BreakerIs(p, "CLOSED")
  /\ Sends(p, "CLOSED")
  /\ UNCHANGED <<logging, crossed>> /\ RedisUnchanged /\ QueueUnchanged

\* reset, which the doctor's fix calls for open breakers: close says so by its event if
\* it was not closed, and reset writes at once.
ResetCircuit(p) ==
  /\ breaker[p] # "none"
  /\ Counts
  /\ BreakerIs(p, "CLOSED")
  /\ IF breaker[p] = "CLOSED" THEN UNCHANGED logging ELSE Says(p, "CLOSED")
  /\ Sends(p, "CLOSED")
  /\ UNCHANGED crossed /\ RedisUnchanged /\ QueueUnchanged

\* destroy, by the application: shutdown takes the listeners off the breaker, and the
\* events that wait for the logger come after the DEL.
DestroyCircuit(p) ==
  /\ Counts
  /\ BreakerIs(p, "none")
  /\ Sends(p, "none")
  /\ crossed' = IF logging[p] = <<>> THEN crossed ELSE crossed \cup {p}
  /\ UNCHANGED logging /\ RedisUnchanged /\ QueueUnchanged

StateExpires ==
  /\ persisted # "none"
  /\ persisted' = "none"
  /\ UNCHANGED <<breaker, logging, writing, author, uninstalled, crossed, transitions>>
  /\ QueueUnchanged

-----------------------------------------------------------------------------
(* The queue.                                                              *)

BreakerUnchanged ==
  UNCHANGED <<breaker, logging, writing, persisted, author, crossed, transitions>>

QueueIs(p, state) == queue' = [queue EXCEPT ![p] = state]

\* getOrCreate: getStats calls it too, so that to look makes a queue.
GetQueue(p) ==
  /\ queue[p] = "none"
  /\ QueueIs(p, "open")
  /\ UNCHANGED <<jobs, leftover, uninstalled>> /\ BreakerUnchanged

\* dispatch. An instance that is closed refuses the job; those of the other servers
\* know nothing of it.
Dispatch(p) ==
  /\ jobs < MaxJobs
  /\ queue[p] # "closed"
  /\ jobs' = jobs + 1
  /\ QueueIs(p, IF queue[p] = "none" THEN "open" ELSE queue[p])
  /\ leftover' = leftover \cup {q \in Servers : queue[q] \in {"obliterated", "closed"}}
  /\ UNCHANGED uninstalled /\ BreakerUnchanged

\* A worker of the application completes one.
WorkOff ==
  /\ jobs > 0
  /\ jobs' = jobs - 1
  /\ UNCHANGED <<queue, leftover, uninstalled>> /\ BreakerUnchanged

\* destroy: obliterate with force, close, and in the end drop it from the map.
ObliterateQueue(p) ==
  /\ queue[p] = "open"
  /\ jobs' = 0
  /\ QueueIs(p, "obliterated")
  /\ leftover' = leftover \ {p}
  /\ UNCHANGED uninstalled /\ BreakerUnchanged

CloseQueue(p) ==
  /\ queue[p] = "obliterated"
  /\ QueueIs(p, "closed")
  /\ UNCHANGED <<jobs, leftover, uninstalled>> /\ BreakerUnchanged

DropQueue(p) ==
  /\ queue[p] = "closed"
  /\ QueueIs(p, "none")
  /\ UNCHANGED <<jobs, leftover, uninstalled>> /\ BreakerUnchanged

\* An error of Redis is logged and the queue dropped all the same.
QueueFails(p) ==
  /\ queue[p] \in {"open", "obliterated"}
  /\ QueueIs(p, "none")
  /\ UNCHANGED <<jobs, leftover, uninstalled>> /\ BreakerUnchanged

\* The uninstall job makes both services anew, whose maps are empty: only the key in
\* Redis goes, by a connection of the job's own, and the jobs of the queue stay.
UninstallServices ==
  /\ ~uninstalled
  /\ uninstalled' = TRUE
  /\ persisted' = "none"
  /\ UNCHANGED <<breaker, logging, writing, author, crossed, transitions>> /\ QueueUnchanged

\* A server ends and begins anew: what it had in memory, and what waited, is gone.
Restart(p) ==
  /\ Counts
  /\ BreakerIs(p, "none")
  /\ logging' = [logging EXCEPT ![p] = <<>>]
  /\ writing' = [writing EXCEPT ![p] = <<>>]
  /\ QueueIs(p, "none")
  /\ crossed' = crossed \cup {p}
  /\ UNCHANGED <<jobs, leftover>> /\ RedisUnchanged

BreakersNext ==
  \/ \E p \in Servers :
       \/ GetCircuit(p) \/ (\E to \in {"OPEN", "HALF_OPEN", "CLOSED"} : ChangeState(p, to))
       \/ Logged(p) \/ WriteState(p) \/ ResetCircuit(p) \/ DestroyCircuit(p)
       \/ GetQueue(p) \/ Dispatch(p) \/ ObliterateQueue(p) \/ CloseQueue(p) \/ DropQueue(p)
       \/ QueueFails(p) \/ Restart(p)
  \/ StateExpires \/ WorkOff \/ UninstallServices

BreakersSpec == BreakersInit /\ [][BreakersNext]_breakerVars

-----------------------------------------------------------------------------
(* Properties.                                                             *)

\* Redis has the state of one server's breaker, that of the server whose command came
\* last, when nothing of that server is on its way; or none. It is not so when a write
\* of that server failed, when one of its events came after its own DEL, or when the
\* server began anew. What the breakers of the other servers are, the key does not say.
PersistedIsLast ==
  \A p \in Servers :
    author = p /\ logging[p] = <<>> /\ writing[p] = <<>> /\ p \notin crossed =>
      persisted \in {breaker[p], "none"}

\* The jobs of a queue that a server has destroyed came after it was obliterated, from
\* that server before it closed its instance or from another one.
DestroyedQueueIsEmpty ==
  \A p \in Servers : queue[p] = "closed" /\ p \notin leftover => jobs = 0

\* What Redis and the queue have when everything of a server has settled.
BreakersAreSound == PersistedIsLast /\ DestroyedQueueIsEmpty
=============================================================================
