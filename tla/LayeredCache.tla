---------------------------- MODULE LayeredCache ----------------------------
(***************************************************************************)
(* The package cache (utils/cache.ts): a BentoCache store with a memory    *)
(* layer in every process, a Redis layer they share, and a Redis bus that  *)
(* tells the other processes to forget what one of them wrote or deleted.  *)
(* The library is modelled from how the services use it.                   *)
(***************************************************************************)
CONSTANTS
  Processes,  \* Node processes, each with its memory layer
  Keys,       \* cache keys of one namespace
  Values,     \* cached values
  NoValue     \* the key is not cached

ASSUME CacheAssumption == NoValue \notin Values

VARIABLES
  local,   \* the memory layer of each process
  shared,  \* the Redis layer
  bus      \* <<process, key>>: invalidations on their way to a process

cache == <<local, shared, bus>>

Entries == Values \cup {NoValue}

CacheTypeOK ==
  /\ local \in [Processes -> [Keys -> Entries]]
  /\ shared \in [Keys -> Entries]
  /\ bus \subseteq Processes \X Keys

CacheInit ==
  /\ local = [p \in Processes |-> [k \in Keys |-> NoValue]]
  /\ shared = [k \in Keys |-> NoValue]
  /\ bus = {}

\* What a get that begins now finds: the memory layer, then the Redis layer.
Lookup(p, k) == IF local[p][k] # NoValue THEN local[p][k] ELSE shared[k]

\* The memory layers when that of process p holds v for key k.
LocalWith(p, k, v) == [local EXCEPT ![p] = [local[p] EXCEPT ![k] = v]]

\* get awaits Redis when the memory layer has nothing: v, which the Redis layer had
\* when it was read, goes into the memory layer when the answer arrives.
Keep(p, k, v) ==
  /\ local' = LocalWith(p, k, v)
  /\ UNCHANGED <<shared, bus>>

\* set, and delete when v is NoValue: both layers, and the bus.
Put(p, k, v) ==
  /\ local' = LocalWith(p, k, v)
  /\ shared' = [shared EXCEPT ![k] = v]
  /\ bus' = bus \cup ((Processes \ {p}) \X {k})

\* The bus reaches process p.
Invalidate(p, k) ==
  /\ <<p, k>> \in bus
  /\ bus' = bus \ {<<p, k>>}
  /\ local' = LocalWith(p, k, NoValue)
  /\ UNCHANGED shared

\* Redis pub/sub keeps no message for a subscriber that is disconnected.
LoseInvalidation(p, k) ==
  /\ <<p, k>> \in bus
  /\ bus' = bus \ {<<p, k>>}
  /\ UNCHANGED <<local, shared>>

\* The memory layer is bounded and forgets.
EvictLocal(p, k) ==
  /\ local[p][k] # NoValue
  /\ local' = LocalWith(p, k, NoValue)
  /\ UNCHANGED <<shared, bus>>

\* The time to live of the Redis entry is over.
ExpireShared(k) ==
  /\ shared[k] # NoValue
  /\ shared' = [shared EXCEPT ![k] = NoValue]
  /\ UNCHANGED <<local, bus>>
=============================================================================
