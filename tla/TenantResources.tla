--------------------------- MODULE TenantResources ---------------------------
(***************************************************************************)
(* What the bootstrappers give a tenant of a shared resource (services/    *)
(* bootstrappers/): a disk, a cache, a session and channels, whose keys    *)
(* begin with the tenant, and a mailer that stamps its messages. The disk, *)
(* the cache and the mailer are handles that keep the tenant they were     *)
(* made for; the session and the channels look at the scope of each call.  *)
(* A key is <<prefix, tenant, name>>, of Nobody when it begins with no     *)
(* tenant; a message is one with the tenant of its header, or with Nobody  *)
(* when it has none. Keys are names the callers use, in every tenant the   *)
(* same, but for those that climb out of a tenant's directory.             *)
(***************************************************************************)
EXTENDS AsyncContext

CONSTANTS
  RelativeKeys, \* the names the callers use, the same in every tenant
  ChannelPrefixes      \* prefixes of channels; the other resources have one

VARIABLES
  resource, \* which resource this is
  stored,   \* the keys it has, the channels that were given out or the messages that were sent
  own,      \* history: the same, if each tenant had a resource of its own
  handle,   \* the tenant of the handle each work holds
  prefix,   \* the prefix of the resource
  spoiled   \* history: the tenants that a call reached which the resource does not keep apart

resourceVars == <<resource, stored, own, handle, prefix, spoiled>>

Handles == {"disk", "cache", "mail"}
Resources == Handles \cup {"session", "channels"}

ResourcesInit ==
  /\ resource \in Resources
  /\ stored = {}
  /\ own = {}
  /\ handle = [w \in Works |-> Nobody]
  /\ prefix = CHOOSE p \in ChannelPrefixes : TRUE
  /\ spoiled = {}

\* tenantDisk, tenantCache and tenantMailer throw outside a scope.
TakeHandle(w) ==
  /\ resource \in Handles
  /\ CurrentId(w) # Nobody
  /\ handle' = [handle EXCEPT ![w] = CurrentId(w)]
  /\ UNCHANGED <<frames, resource, stored, own, prefix, spoiled>>

\* The tenant a call is for. The session and the channels throw outside a scope.
Caller(w) == IF resource \in Handles THEN handle[w] ELSE CurrentId(w)

\* What the tenants' own resources become, and the shared one.
Becomes(newStored, newOwn) ==
  /\ stored' = newStored
  /\ own' = newOwn
  /\ UNCHANGED <<frames, resource, handle, prefix>>

\* The key of a method of KEYED_METHODS, the namespace, the session's wrapper or
\* tenantChannel; and the message a compose callback makes.
Prefixed(w, name) == <<prefix, Caller(w), name>>

PutKey(w, name) ==
  /\ Caller(w) # Nobody
  /\ Becomes(stored \cup {Prefixed(w, name)}, own \cup {<<Caller(w), name>>})
  /\ UNCHANGED spoiled

ForgetKey(w, name) ==
  /\ resource \in {"disk", "cache", "session"} /\ Caller(w) # Nobody
  /\ Becomes(stored \ {Prefixed(w, name)}, own \ {<<Caller(w), name>>})
  /\ UNCHANGED spoiled

\* Variant of Destination: only the first key of a move belongs to the tenant.
PlainDestination(w, name) == <<prefix, Nobody, name>>

Destination(w, name) == Prefixed(w, name)

\* copy and move: both keys belong to the tenant.
MoveKey(w, from, to) ==
  /\ resource = "disk" /\ from # to /\ Prefixed(w, from) \in stored
  /\ Becomes((stored \ {Prefixed(w, from)}) \cup {Destination(w, to)},
             (own \ {<<handle[w], from>>}) \cup {<<handle[w], to>>})
  /\ UNCHANGED spoiled

\* deleteAll without a key has nothing to prefix, and is the whole disk's.
DeleteAll(w) ==
  /\ resource = "disk" /\ handle[w] # Nobody
  /\ Becomes({}, {k \in own : k[1] # handle[w]})
  /\ spoiled' = spoiled \cup (Tenants \ {handle[w]})

\* copyFromFs and moveFromFs take a key and are not in KEYED_METHODS, and raw is the session
\* itself: what is put with them has no tenant before it.
PutUnprefixed(w, name) ==
  /\ resource \in {"disk", "session"} /\ Caller(w) # Nobody
  /\ Becomes(stored \cup {<<prefix, Nobody, name>>}, own)
  /\ UNCHANGED spoiled

\* The prefix is put before a key that climbs ("../<tenant>/<name>") like before any other:
\* where Drive lets such a key pass, a put or a delete is of another tenant's.
ClimbOut(w, t, name) ==
  /\ resource = "disk" /\ handle[w] # Nobody /\ t # handle[w]
  /\ \E now \in {stored \cup {<<prefix, t, name>>}, stored \ {<<prefix, t, name>>}} : Becomes(now, own)
  /\ spoiled' = spoiled \cup {t}

\* send with a mail instance: its prepare is given no message, and the wrapper, which would
\* stamp that argument, stamps nothing.
SendInstance(w, name) ==
  /\ resource = "mail" /\ handle[w] # Nobody
  /\ Becomes(stored \cup {<<prefix, Nobody, name>>}, own)
  /\ UNCHANGED spoiled

\* createTransmitBootstrapper: its prefix is that of all channels from then on.
CreateTransmit(p) ==
  /\ resource = "channels" /\ p # prefix
  /\ prefix' = p
  /\ spoiled' = Tenants
  /\ UNCHANGED <<frames, resource, stored, own, handle>>

ResourceCall(w) ==
  \/ TakeHandle(w) \/ DeleteAll(w)
  \/ \E n \in RelativeKeys :
       \/ PutKey(w, n) \/ ForgetKey(w, n) \/ PutUnprefixed(w, n) \/ SendInstance(w, n)
       \/ \E t \in Tenants : ClimbOut(w, t, n)
  \/ \E from, to \in RelativeKeys : MoveKey(w, from, to)

ResourceStep == (\E w \in Works : ResourceCall(w)) \/ \E p \in ChannelPrefixes : CreateTransmit(p)

ResourcesSpec ==
  /\ ContextInit /\ ResourcesInit
  /\ [][ResourceStep \/ (UNCHANGED resourceVars /\ \E w \in Works : ContextStep(w))]_<<frames, resourceVars>>

-----------------------------------------------------------------------------
(* Properties.                                                             *)

\* A shared resource has under a tenant's name what that tenant put there, with the methods
\* that go by its name, and nothing else, in whatever scope a handle is used; but not of a
\* tenant whose files another one's deleteAll without a key, or key that climbs, has
\* reached, nor of channels that got another prefix. Nothing is said of what is put or sent
\* under no tenant's name.
ResourcesArePrivate ==
  \A t \in Tenants \ spoiled, n \in RelativeKeys :
    <<prefix, t, n>> \in stored <=> <<t, n>> \in own
=============================================================================
