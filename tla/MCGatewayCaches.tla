--------------------------- MODULE MCGatewayCaches ---------------------------
(* What the gateway caches behind a fence: the policy with its generation of *)
(* the budget, and the credentials.  The two share no state, and a behaviour *)
(* here is a behaviour of one of them.                                       *)
EXTENDS MCBudgetGateway, CredentialCache

VARIABLE focus  \* the cache this behaviour is of

CachesInit ==
    /\ focus \in {"budget", "credentials"}
    /\ GatewayInit /\ CredentialInit
    \* Credentials are alike: it does not matter which is selected first.
    /\ Chosen(1) = "k1"
    \* The other stands still in one state of its own.
    /\ focus # "budget" => cached = NoRow /\ spent = Nothing
    /\ focus # "credentials" => \A c \in Credentials : Current.address[c] = OwnHost

CachesNext ==
    /\ UNCHANGED focus
    /\ \/ focus = "budget" /\ GatewayNext /\ UNCHANGED credentialVars
       \/ focus = "credentials" /\ CredentialNext /\ UNCHANGED gvars

CachesSpec == CachesInit /\ [][CachesNext]_<<focus, gvars, credentialVars>>

\* Either cache's state is one its code can hold.
CachesTypeOK == IF focus = "budget" THEN GatewayTypeOK ELSE CredentialTypeOK
=============================================================================
