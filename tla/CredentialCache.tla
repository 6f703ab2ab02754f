--------------------------- MODULE CredentialCache ---------------------------
(***************************************************************************)
(* Which secret a call carries, and where it is sent, for one agent and    *)
(* provider.  Postgres holds the credentials; Redis caches the selected    *)
(* one's address and its sealed secret, separately, behind one fence.  An  *)
(* operator's change commits its row first and rotates the fence after, or *)
(* dies, or fails, between the two.  A call reads the fence, then the      *)
(* address, then the secret, and fills what it missed in the background.   *)
(* It reads the fence once more before it asks Redis for the permission to *)
(* dispatch, and not after.                                                *)
(*                                                                         *)
(* A value read from a row is named by the version of the rows it was read *)
(* at.  Every stored address is one the operator's policy admits.          *)
(***************************************************************************)
EXTENDS Integers, Sequences, FiniteSets

CONSTANTS
    Credentials,   \* of one tenant and provider
    Addresses,     \* where a credential's secret may be sent
    OwnHost,       \* no stored address: the provider's public host
    Requests,      \* calls in flight
    MaxChanges,    \* bound on the operator's changes
    MaxFills,      \* bound on the background fills under way
    LateLosses     \* the fence may vanish under a call that had read none

ASSUME CredentialAssumption ==
    /\ OwnHost \in Addresses
    /\ MaxChanges \in Nat
    /\ MaxFills \in Nat
    /\ LateLosses \in BOOLEAN

VARIABLES
    rows,       \* provider_credentials and their Vault secrets, every version
    purging,    \* changes committed whose purge is on its way
    fence,      \* cred-fence:, a token or NoFence
    tokens,     \* tokens handed out so far, all distinct
    place,      \* endpoint:, the version its address was read at, or Miss
    sealed,     \* credential:, the version its secret was read at, or Miss
    fills,      \* setCachedEndpoint and setCachedKey in the background
    request,    \* [Requests -> a call]
    retired,    \* history: versions before this one were purged
    overtaken   \* history: a change was made before the last one was purged

credentialVars == <<rows, purging, fence, tokens, place, sealed, fills, request,
                    retired, overtaken>>

NoFence == 0
Miss == 0

CredentialRow == [active : Credentials,
                  address : [Credentials -> Addresses],
                  secret : [Credentials -> Nat]]

CallSteps == {"idle", "endpoint", "row", "key", "fillFence", "decrypt", "check",
              "permit", "sent"}
Over == {"idle", "sent"}

\* Before its first and after its last read of the fence.
Unwatched == Over \cup {"permit"}

Request == [at : CallSteps, seen : Nat, seenForFill : Nat, place : Nat, secret : Nat]
NoCallYet == [at |-> "idle", seen |-> NoFence, seenForFill |-> NoFence,
              place |-> Miss, secret |-> Miss]
Fill == [of : {"place", "sealed"}, version : Nat, seen : Nat]

CredentialTypeOK ==
    /\ rows \in Seq(CredentialRow)
    /\ rows # <<>>
    /\ purging \in Nat
    /\ fence \in Nat
    /\ tokens \in Nat
    /\ place \in 0..Len(rows)
    /\ sealed \in 0..Len(rows)
    /\ fills \subseteq Fill
    /\ request \in [Requests -> Request]
    /\ retired \in 1..Len(rows)
    /\ overtaken \in BOOLEAN

Version == Len(rows)
Current == rows[Version]

\* Version v: the selected credential, its address and its secret.
Chosen(v) == rows[v].active
AddressAt(v) == rows[v].address[Chosen(v)]
SecretAt(v) == rows[v].secret[Chosen(v)]

-----------------------------------------------------------------------------
(* Operators: dashboard/actions.ts *)

Change(new) ==
    /\ Version <= MaxChanges
    /\ rows' = Append(rows, new)
    /\ purging' = purging + 1
    /\ overtaken' = (overtaken \/ retired < Version)
    /\ UNCHANGED <<fence, tokens, place, sealed, fills, request, retired>>

\* setActiveProviderKeyBody
SetActive(c) ==
    /\ c # Current.active
    /\ Change([Current EXCEPT !.active = c])

\* rotateProviderKeyBody: the secret is replaced in place.
RotateKey(c) == Change([Current EXCEPT !.secret[c] = @ + 1])

\* writeProviderEndpoint
SetEndpoint(c, a) ==
    /\ a # Current.address[c]
    /\ Change([Current EXCEPT !.address[c] = a])

\* ROTATE_FENCE_LUA: the fence moves and both values go, in one script.
RotateFence ==
    /\ tokens' = tokens + 1
    /\ fence' = tokens + 1
    /\ place' = Miss
    /\ sealed' = Miss
    /\ retired' = Version

\* purgeProviderKeyForTenant; a failure is swallowed, and never tried again.
Purge ==
    /\ purging > 0
    /\ purging' = purging - 1
    /\ RotateFence \/ UNCHANGED <<fence, tokens, place, sealed, retired>>
    /\ UNCHANGED <<rows, fills, request, overtaken>>

-----------------------------------------------------------------------------
(* The call *)

Becomes(r, next) ==
    /\ request' = [request EXCEPT ![r] = next]
    /\ UNCHANGED <<rows, purging, fence, tokens, place, sealed, retired, overtaken>>

Moves(r, next) == Becomes(r, next) /\ UNCHANGED fills

Refuses(r) == Moves(r, NoCallYet)

\* A fill started in the background, or lost with its worker.
Begins(fill) ==
    fills' \in {fills} \cup IF Cardinality(fills) < MaxFills THEN {fills \cup {fill}} ELSE {}

\* readCredentialFence; a read that fails leaves null, as absence does.
Seen == {fence, NoFence}

\* resolveEndpoint reads the fence before anything else.
ReadFence(r) ==
    /\ request[r].at \in Over
    /\ \E seen \in Seen :
           Moves(r, [at |-> "endpoint", seen |-> seen, seenForFill |-> NoFence,
                    place |-> Miss, secret |-> Miss])

\* getCachedEndpoint; a failed read falls through to the row.
ReadEndpoint(r) ==
    /\ request[r].at = "endpoint"
    /\ \/ place # Miss /\ Moves(r, [request[r] EXCEPT !.at = "key", !.place = place])
       \/ Moves(r, [request[r] EXCEPT !.at = "row"])

\* The row names the selected credential and its address; unread, it refuses.
ReadRow(r) ==
    /\ request[r].at = "row"
    /\ \/ /\ Becomes(r, [request[r] EXCEPT !.at = "key", !.place = Version])
          /\ Begins([of |-> "place", version |-> Version, seen |-> request[r].seen])
       \/ Refuses(r)

\* Mutant: an entry is used without asking whose it is.
SameCredential_Unbound(v, w) == TRUE

\* unbindCachedKey, and the credential id get_provider_key_for_credential takes.
SameCredential(v, w) == Chosen(v) = Chosen(w)

\* getCachedKey: an entry of another credential is a miss; a failed read throws.
ReadKey(r) ==
    LET hit == sealed # Miss /\ SameCredential(sealed, request[r].place)
    IN  /\ request[r].at = "key"
        /\ \/ hit /\ Moves(r, [request[r] EXCEPT !.at = "check", !.secret = sealed])
           \/ ~hit /\ Moves(r, [request[r] EXCEPT !.at = "fillFence"])
           \/ Refuses(r)

\* A fresh fence for the fill, not the one the address was read under.
ReadFillFence(r) ==
    /\ request[r].at = "fillFence"
    /\ \E seen \in Seen : Moves(r, [request[r] EXCEPT !.at = "decrypt", !.seenForFill = seen])

\* get_provider_key_for_credential: no key unless it is still the selected one.
Decrypt(r) ==
    /\ request[r].at = "decrypt"
    /\ \/ /\ SameCredential(Version, request[r].place)
          /\ Becomes(r, [request[r] EXCEPT !.at = "check", !.secret = Version,
                                            !.seenForFill = NoFence])
          /\ Begins([of |-> "sealed", version |-> Version, seen |-> request[r].seenForFill])
       \/ Refuses(r)

\* Mutant: a fence that is gone is taken for one that has not moved.
Unmoved_GoneIsSame(seen) == fence \in {seen, NoFence}

Unmoved(seen) == fence = seen

\* Step 6b: one generation, or no dispatch to a stored address.
CheckFence(r) ==
    /\ request[r].at = "check"
    /\ \/ /\ AddressAt(request[r].place) = OwnHost \/ Unmoved(request[r].seen)
          /\ Moves(r, [request[r] EXCEPT !.at = "permit", !.seen = NoFence])
       \/ /\ AddressAt(request[r].place) # OwnHost
          /\ Refuses(r)

\* consumeDispatchPermission, awaited with a retry, and the fetch once it is granted:
\* the fence may have moved since step 6b, and nobody looks again.
SendPermitted(r) ==
    /\ request[r].at = "permit"
    /\ Moves(r, [request[r] EXCEPT !.at = "sent"]) \/ Refuses(r)

\* Mutant: an absent observation matches any fence.
Publishes_Wildcard(f) == f.seen = NoFence \/ fence = f.seen

\* FENCED_FILL_LUA: absence is an observation like any other.
Publishes(f) == fence = f.seen

\* A background fill lands, and publishes or is dropped.
LandFill(f) ==
    /\ f \in fills
    /\ fills' = fills \ {f}
    /\ place' = IF f.of = "place" /\ Publishes(f) THEN f.version ELSE place
    /\ sealed' = IF f.of = "sealed" /\ Publishes(f) THEN f.version ELSE sealed
    /\ UNCHANGED <<rows, purging, fence, tokens, request, retired, overtaken>>

-----------------------------------------------------------------------------
(* Redis *)

\* What calls and fills under way will compare the fence with.
Quoted ==
    {request[r].seen : r \in {q \in Requests : request[q].at \notin Unwatched}}
    \cup {request[r].seenForFill : r \in {q \in Requests : request[q].at = "decrypt"}}
    \cup {f.seen : f \in fills}

\* Sixty seconds pass over a value.
ExpireValue ==
    /\ \/ place' = Miss /\ sealed' = sealed
       \/ sealed' = Miss /\ place' = place
    /\ UNCHANGED <<rows, purging, fence, tokens, fills, request, retired, overtaken>>

\* The fence expires after a day, or is evicted.
LoseFence ==
    /\ fence # NoFence
    /\ LateLosses \/ NoFence \notin Quoted
    /\ fence' = NoFence
    /\ UNCHANGED <<rows, purging, tokens, place, sealed, fills, request, retired, overtaken>>

-----------------------------------------------------------------------------
CredentialInit ==
    /\ \E c \in Credentials, address \in [Credentials -> Addresses] :
           rows = <<[active |-> c, address |-> address, secret |-> [d \in Credentials |-> 0]]>>
    /\ purging = 0
    /\ fence = NoFence
    /\ tokens = 0
    /\ place = Miss
    /\ sealed = Miss
    /\ fills = {}
    /\ request = [r \in Requests |-> NoCallYet]
    /\ retired = 1
    /\ overtaken = FALSE

CredentialNext ==
    \/ \E c \in Credentials : SetActive(c) \/ RotateKey(c)
    \/ \E c \in Credentials, a \in Addresses : SetEndpoint(c, a)
    \/ Purge
    \/ \E r \in Requests :
           \/ ReadFence(r) \/ ReadEndpoint(r) \/ ReadRow(r) \/ ReadKey(r)
           \/ ReadFillFence(r) \/ Decrypt(r) \/ CheckFence(r) \/ SendPermitted(r)
    \/ \E f \in fills : LandFill(f)
    \/ ExpireValue
    \/ LoseFence

CredentialSpec == CredentialInit /\ [][CredentialNext]_credentialVars

-----------------------------------------------------------------------------
(* Properties *)

\* Once a purge has landed, nothing older than it is cached again, whichever
\* read began before it: a retired secret or address is not resurrected
\* (FENCED_FILL_LUA, ROTATE_FENCE_LUA).
PurgedIsForgotten ==
    /\ place # Miss => place >= retired
    /\ sealed # Miss => sealed >= retired

\* A secret goes to a stored address only if one version of the selected
\* credential had both, unless a change was made before the purge of the one
\* before it had landed (get_provider_key_for_credential and step 6b).
PairWasConfigured ==
    \A r \in Requests :
        LET p == request[r].place
            s == request[r].secret
        IN  request[r].at = "sent" /\ AddressAt(p) # OwnHost /\ ~overtaken
            => \E v \in DOMAIN rows : /\ Chosen(v) = Chosen(p) /\ Chosen(v) = Chosen(s)
                                      /\ AddressAt(v) = AddressAt(p)
                                      /\ SecretAt(v) = SecretAt(s)

\* A call to a stored address gets past its last look at the fence with nothing that
\* a purge had retired by then, however long before the purge the call had read it:
\* what it sends is at most one dispatch permission out of date (route.ts step 6b).
RetiredFailsTheCheck ==
    [][\A r \in Requests :
           request[r].at = "check" /\ request'[r].at = "permit"
           /\ AddressAt(request[r].place) # OwnHost
           => request[r].place >= retired /\ request[r].secret >= retired]_credentialVars
=============================================================================
