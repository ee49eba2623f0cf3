--------------------------------- MODULE Sso ---------------------------------
(***************************************************************************)
(* Logins through the OpenID provider of a tenant (services/               *)
(* sso_service.ts, admin/controllers/sso_controller.ts): the state of a    *)
(* login waits in Redis for its callback, which takes it, reads the        *)
(* configuration of that moment and exchanges the code it was sent.        *)
(***************************************************************************)
CONSTANTS
  Logins,     \* a login is its state and its nonce
  Callbacks,  \* calls of handleCallback
  Issuers,    \* providers
  NoIssuer

VARIABLES
  config,     \* the row of the tenant: its issuer and whether it is enabled
  cachedDocs, \* issuers whose discovery document is cached
  login,      \* the state of each login: new, stored or gone, and the issuer its user was sent to
  redeemed,   \* codes the providers have exchanged: a code is <<login, 1 or 2>>
  callback,   \* what each callback does
  disabling   \* a disable read the row, and this is the issuer it read

ssoVars == <<config, cachedDocs, login, redeemed, callback, disabling>>

NoConfig == [issuer |-> NoIssuer, enabled |-> FALSE]

Codes == Logins \X {1, 2}

SsoInit ==
  /\ config = NoConfig
  /\ cachedDocs = {}
  /\ login = [l \in Logins |-> [step |-> "new", issuer |-> NoIssuer]]
  /\ redeemed = {}
  /\ callback = [c \in Callbacks |->
                   [step |-> "idle", login |-> NoIssuer, code |-> NoIssuer, issuer |-> NoIssuer, shared |-> FALSE]]
  /\ disabling = FALSE

-----------------------------------------------------------------------------
(* The configuration.                                                      *)

\* upsertConfig enables what it configures.
Upserted(i) == [issuer |-> i, enabled |-> TRUE]

\* update, with a body that is complete.
UpdateConfig(i) ==
  /\ config' = Upserted(i)
  /\ UNCHANGED <<cachedDocs, login, redeemed, callback, disabling>>

\* disable finds the row, enabled or not, and saves it when it was enabled.
FindToDisable ==
  /\ config.enabled /\ ~disabling
  /\ disabling' = TRUE
  /\ UNCHANGED <<config, cachedDocs, login, redeemed, callback>>

SaveDisabled ==
  /\ disabling
  /\ disabling' = FALSE
  /\ config' = [config EXCEPT !.enabled = FALSE]
  /\ UNCHANGED <<cachedDocs, login, redeemed, callback>>

-----------------------------------------------------------------------------
(* A login.                                                                *)

\* discover: the document is fetched once an hour; a failure or a document that does not
\* match its issuer is not cached.
Discovered(i) == cachedDocs' = cachedDocs \cup {i}

\* buildAuthUrl, for the enabled configuration.
BuildAuthUrl(l) ==
  /\ login[l].step = "new" /\ config.enabled
  /\ Discovered(config.issuer)
  /\ login' = [login EXCEPT ![l] = [step |-> "stored", issuer |-> config.issuer]]
  /\ UNCHANGED <<config, redeemed, callback, disabling>>

\* setex: the state is gone after ten minutes.
ExpireState(l) ==
  /\ login[l].step = "stored"
  /\ login' = [login EXCEPT ![l].step = "gone"]
  /\ UNCHANGED <<config, cachedDocs, redeemed, callback, disabling>>

CallbackAt(c, step) == callback[c].step = step

\* handleCallback finds the state. The code is one that a provider gave the user, for this
\* login or for another that the user has begun.
FindState(c, l, code) ==
  /\ CallbackAt(c, "idle") /\ login[code[1]].step # "new"
  /\ login[l].step = "stored"
  /\ callback' = [callback EXCEPT ![c] =
       [step |-> "found", login |-> l, code |-> code, issuer |-> NoIssuer,
        shared |-> \E d \in Callbacks : CallbackAt(d, "found") /\ callback[d].login = l]]
  /\ UNCHANGED <<config, cachedDocs, login, redeemed, disabling>>

\* Variant of DeleteState: the state is kept for another try.
KeepState(c) ==
  /\ CallbackAt(c, "found")
  /\ callback' = [callback EXCEPT ![c].step = "taken"]
  /\ UNCHANGED <<config, cachedDocs, login, redeemed, disabling>>

DeleteState(c) ==
  /\ CallbackAt(c, "found")
  /\ login' = [login EXCEPT ![callback[c].login].step = "gone"]
  /\ callback' = [callback EXCEPT ![c].step = "taken"]
  /\ UNCHANGED <<config, cachedDocs, redeemed, disabling>>

FailCallback(c) == callback' = [callback EXCEPT ![c].step = "failed"]

\* getConfig, and discover.
ReadConfig(c) ==
  /\ CallbackAt(c, "taken")
  /\ \/ ~config.enabled /\ FailCallback(c) /\ UNCHANGED cachedDocs
     \/ /\ config.enabled /\ Discovered(config.issuer)
        /\ callback' = [callback EXCEPT ![c].step = "configured", ![c].issuer = config.issuer]
     \/ /\ config.enabled /\ config.issuer \notin cachedDocs
        /\ FailCallback(c) /\ UNCHANGED cachedDocs
  /\ UNCHANGED <<config, login, redeemed, disabling>>

ForgetDocument(i) ==
  /\ i \in cachedDocs
  /\ cachedDocs' = cachedDocs \ {i}
  /\ UNCHANGED <<config, login, redeemed, callback, disabling>>

\* The provider knows the code, and has not exchanged it.
Accepts(issuer, code) == login[code[1]].issuer = issuer /\ code \notin redeemed

\* #verifyIdToken: the token the provider answers with has the nonce of the login the code
\* was given for.
Verified(c) == callback[c].code[1] = callback[c].login

ExchangeCode(c) ==
  LET code == callback[c].code
  IN /\ CallbackAt(c, "configured")
     /\ IF Accepts(callback[c].issuer, code)
          THEN /\ redeemed' = redeemed \cup {code}
               /\ callback' = [callback EXCEPT ![c].step =
                                 IF Verified(c) THEN "in" ELSE "failed"]
          ELSE FailCallback(c) /\ UNCHANGED redeemed
     /\ UNCHANGED <<config, cachedDocs, login, disabling>>

SsoNext ==
  \/ \E i \in Issuers : UpdateConfig(i) \/ ForgetDocument(i)
  \/ FindToDisable \/ SaveDisabled
  \/ \E l \in Logins : BuildAuthUrl(l) \/ ExpireState(l)
  \/ \E c \in Callbacks :
       \/ \E l \in Logins, code \in Codes : FindState(c, l, code)
       \/ DeleteState(c) \/ ReadConfig(c) \/ ExchangeCode(c)

SsoSpec == SsoInit /\ [][SsoNext]_ssoVars

-----------------------------------------------------------------------------
(* Properties.                                                             *)

\* Two callbacks log in with one state only when both found it before either deleted it.
StateUsedOnce ==
  \A c, d \in Callbacks :
    (c # d /\ CallbackAt(c, "in") /\ CallbackAt(d, "in") /\ callback[c].login = callback[d].login)
      => callback[c].shared \/ callback[d].shared

\* A user is logged in by what a provider gave for that login, and by the provider the
\* user was sent to, whatever was configured between the redirect and the callback.
LoginIsItsOwn ==
  \A c \in Callbacks :
    CallbackAt(c, "in") => /\ callback[c].code[1] = callback[c].login
                           /\ callback[c].issuer = login[callback[c].login].issuer

\* What handleCallback's state and nonce are for.
LoginsAreSound == StateUsedOnce /\ LoginIsItsOwn
=============================================================================
