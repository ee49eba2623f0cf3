--------------------------- MODULE MCImpersonation ---------------------------
(***************************************************************************)
(* Impersonation sessions, cached settings, logins, the gates before a     *)
(* route and the provider, side by side. They share no key and no row, so  *)
(* a behaviour is one of any one of them: part says which, and the others  *)
(* stay as they begin.                                                     *)
(***************************************************************************)
EXTENDS Impersonation, Settings, Sso, Gates, Provider

VARIABLE part

AllVars == <<part, vars, settingVars, ssoVars, gateVars, providerVars>>

SessionValues == {"new", "used"}
NoChain == {<<>>}
SomeChains == {<<>>, <<"host">>, <<"host", "header">>}

CachedInit ==
  /\ part \in {"impersonation", "settings", "sso", "gates", "provider"}
  /\ Init
  /\ SettingsInit
  /\ part # "settings" => setting = "flags"
  /\ SsoInit
  /\ GateInit
  /\ part # "gates" => standing = "ready" /\ ~maintained /\ chain = <<>>
  /\ ProviderInit
  /\ part # "provider" =>
       booting.config = [complete |-> TRUE, strategy |-> "header", chain |-> {}, secret |-> TRUE]

CachedNext ==
  /\ UNCHANGED part
  /\ \/ /\ part = "impersonation" /\ Next
        /\ UNCHANGED <<settingVars, ssoVars, gateVars, providerVars>>
     \/ /\ part = "settings" /\ SettingsNext
        /\ UNCHANGED <<vars, ssoVars, gateVars, providerVars>>
     \/ /\ part = "sso" /\ SsoNext
        /\ UNCHANGED <<vars, settingVars, gateVars, providerVars>>
     \/ /\ part = "gates" /\ GateNext
        /\ UNCHANGED <<vars, settingVars, ssoVars, providerVars>>
     \/ /\ part = "provider" /\ ProviderNext
        /\ UNCHANGED <<vars, settingVars, ssoVars, gateVars>>

CachedSpec == CachedInit /\ [][CachedNext]_AllVars
=============================================================================
