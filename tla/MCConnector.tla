----------------------------- MODULE MCConnector -----------------------------
(* Two datasets in one file and one in another; every way to be configured.  *)
EXTENDS Connector, TLC

MCFileOf == 1 :> 1 @@ 2 :> 1 @@ 3 :> 2
C(url, env, user, ids, token) ==
    [url |-> url, env |-> env, user |-> user, ids |-> ids, token |-> token]
MCConfs == {
    C(TRUE, TRUE, TRUE, FALSE, "absent"),    \* environment: user and password
    C(TRUE, TRUE, FALSE, TRUE, "absent"),    \* environment: Active Directory
    C(TRUE, FALSE, TRUE, TRUE, "expired"),   \* .hscfg with both, an old token
    C(TRUE, FALSE, FALSE, FALSE, "absent"),  \* .hscfg: no credentials
    C(FALSE, FALSE, TRUE, FALSE, "absent") } \* .hscfg without an endpoint
=============================================================================
