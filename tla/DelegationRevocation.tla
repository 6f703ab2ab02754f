------------------------- MODULE DelegationRevocation -------------------------
(***************************************************************************)
(* Revoking what an agent delegated.  Postgres is the record, read by the  *)
(* exchange before every visa; Redis holds a copy that the proxy reads on  *)
(* every delegated call.  An owner writes the record and then the copy, an *)
(* exchange reads and mints in two steps, and any of them may die between. *)
(*                                                                         *)
(* A read that fails refuses, at the exchange and at the proxy: such       *)
(* requests change nothing and are left out.                               *)
(***************************************************************************)
EXTENDS Integers

CONSTANTS
    Delegations,   \* links, each with a jti and an issue time of its own
    NoDelegation,
    Workers,       \* exchanges in flight
    Owners,        \* owners' requests in flight
    LinkFor,       \* longest life of a link
    VisaFor,       \* life of a visa
    CopyFor,       \* DELEGATION_REVOCATION_TTL_S
    ExchangeFor,   \* longest an exchange takes from its read to its visa
    LastSecond     \* bound on the clock

ASSUME RevocationAssumption ==
    /\ NoDelegation \notin Delegations
    /\ {LinkFor, VisaFor, CopyFor, ExchangeFor, LastSecond} \subseteq Nat
    /\ CopyFor > LinkFor

VARIABLES
    second,
    issued,      \* [Delegations -> when it was signed, or Never]
    revoked,     \* rows of delegation_revocations
    watermark,   \* agents.delegations_valid_after
    copied,      \* dlrev: until when each jti's key lives in Redis
    copiedMark,  \* dlwm:
    worker,      \* [Workers -> an exchange that has read the record]
    owner,       \* [Owners -> a revocation under way]
    visaUntil,   \* when the last visa of a link expires
    deadSince,   \* history: when a link was recorded as revoked
    copySurvives \* history: links whose copy was acknowledged, and not lost since

revocationVars == <<second, issued, revoked, watermark, copied, copiedMark,
                    worker, owner, visaUntil, deadSince, copySurvives>>

NotYet == -1
Seconds == 0..LastSecond
Later == 0..(LastSecond + LinkFor + VisaFor + CopyFor)

RevocationTypeOK ==
    /\ second \in Seconds
    /\ issued \in [Delegations -> Seconds \cup {NotYet}]
    /\ revoked \subseteq Delegations
    /\ watermark \in Seconds \cup {NotYet}
    /\ copied \in [Delegations -> Later]
    /\ copiedMark \in Seconds \cup {NotYet}
    /\ worker \in [Workers -> [link : Delegations \cup {NoDelegation}, since : Seconds]]
    /\ owner \in [Owners -> [link : Delegations \cup {NoDelegation},
                             mark : Seconds \cup {NotYet},
                             recorded : BOOLEAN]]
    /\ visaUntil \in [Delegations -> Later]
    /\ deadSince \in [Delegations -> Seconds \cup {NotYet}]
    /\ copySurvives \subseteq Delegations

NoExchange == [link |-> NoDelegation, since |-> 0]
NoRequest == [link |-> NoDelegation, mark |-> NotYet, recorded |-> FALSE]
Smaller(m, n) == IF m < n THEN m ELSE n

-----------------------------------------------------------------------------
(* The exchange *)

\* An agent signs a delegation.
Delegate(l) ==
    /\ issued[l] = NotYet
    /\ issued' = [issued EXCEPT ![l] = second]
    /\ UNCHANGED <<second, revoked, watermark, copied, copiedMark, worker, owner,
                   visaUntil, deadSince, copySurvives>>

Valid(l) == issued[l] # NotYet /\ second < issued[l] + LinkFor

\* Mutant: a link signed in the second of a revocation escapes it.
RecordRevokes_Strictly(l) == l \in revoked \/ issued[l] < watermark

\* delegationRecordRevokes
RecordRevokes(l) == l \in revoked \/ issued[l] <= watermark

ReadRecord(w, l) ==
    /\ worker[w] = NoExchange
    /\ Valid(l)
    /\ ~RecordRevokes(l)
    /\ worker' = [worker EXCEPT ![w] = [link |-> l, since |-> second]]
    /\ UNCHANGED <<second, issued, revoked, watermark, copied, copiedMark, owner,
                   visaUntil, deadSince, copySurvives>>

\* mintDelegatedVisa: never outlives the link; or the exchange dies first.
Mint(w) ==
    LET l == worker[w].link
    IN  /\ worker[w] # NoExchange
        /\ visaUntil' \in {visaUntil,
                           [visaUntil EXCEPT ![l] = Smaller(second + VisaFor, issued[l] + LinkFor)]}
        /\ worker' = [worker EXCEPT ![w] = NoExchange]
        /\ UNCHANGED <<second, issued, revoked, watermark, copied, copiedMark, owner,
                       deadSince, copySurvives>>

-----------------------------------------------------------------------------
(* revokeAgentDelegation, revokeAllAgentDelegations *)

Dead(dead) ==
    deadSince' = [l \in Delegations |-> IF l \in dead /\ deadSince[l] = NotYet
                                        THEN second ELSE deadSince[l]]

\* A jti may be revoked before anyone has seen its link.
RevokeOne(o, l) ==
    /\ owner[o] = NoRequest
    /\ revoked' = revoked \cup {l}
    /\ Dead({l})
    /\ owner' = [owner EXCEPT ![o] = [link |-> l, mark |-> NotYet, recorded |-> TRUE]]
    /\ UNCHANGED <<second, issued, watermark, copied, copiedMark, worker, visaUntil, copySurvives>>

\* The owner's clock is read before the column is written.
RevokeAll(o) ==
    /\ owner[o] = NoRequest
    /\ owner' = [owner EXCEPT ![o] = [link |-> NoDelegation, mark |-> second, recorded |-> FALSE]]
    /\ UNCHANGED <<second, issued, revoked, watermark, copied, copiedMark, worker, visaUntil,
                   deadSince, copySurvives>>

\* The column only moves forward: a trigger fails the update of an older clock,
\* and the request with it.
RecordMark(o) ==
    LET mark == owner[o].mark
    IN  /\ mark # NotYet /\ ~owner[o].recorded
        /\ \/ /\ mark >= watermark
              /\ watermark' = mark
              /\ Dead({l \in Delegations : issued[l] # NotYet /\ issued[l] <= mark})
              /\ owner' = [owner EXCEPT ![o].recorded = TRUE]
           \/ /\ owner' = [owner EXCEPT ![o] = NoRequest]
              /\ UNCHANGED <<watermark, deadSince>>
        /\ UNCHANGED <<second, issued, revoked, copied, copiedMark, worker, visaUntil, copySurvives>>

\* Mutant: the mark is set to whatever comes last.
Raised_Overwrites(mark) == mark

\* RAISE_WM_LUA
Raised(mark) == IF mark > copiedMark THEN mark ELSE copiedMark
CopyUntil == second + CopyFor

\* The owner is told whether the copy was written: "immediate".
CopyOne(o) ==
    LET l == owner[o].link
    IN  /\ l # NoDelegation
        /\ \/ /\ copied' = [copied EXCEPT ![l] = CopyUntil]
              /\ copySurvives' = copySurvives \cup {l}
           \/ UNCHANGED <<copied, copySurvives>>
        /\ owner' = [owner EXCEPT ![o] = NoRequest]
        /\ UNCHANGED <<second, issued, revoked, watermark, copiedMark, worker, visaUntil, deadSince>>

CopyMark(o) ==
    LET mark == owner[o].mark
    IN  /\ mark # NotYet /\ owner[o].recorded
        /\ \/ /\ copiedMark' = Raised(mark)
              /\ copySurvives' = copySurvives \cup
                     {l \in Delegations : issued[l] # NotYet /\ issued[l] <= mark}
           \/ UNCHANGED <<copiedMark, copySurvives>>
        /\ owner' = [owner EXCEPT ![o] = NoRequest]
        /\ UNCHANGED <<second, issued, revoked, watermark, copied, worker, visaUntil, deadSince>>

-----------------------------------------------------------------------------
\* Redis loses everything.
LoseCopies ==
    /\ copied' = [l \in Delegations |-> 0]
    /\ copiedMark' = NotYet
    /\ copySurvives' = {}
    /\ UNCHANGED <<second, issued, revoked, watermark, worker, owner, visaUntil, deadSince>>

Second ==
    /\ second < LastSecond
    /\ \A w \in Workers : worker[w] # NoExchange => second < worker[w].since + ExchangeFor
    /\ second' = second + 1
    /\ UNCHANGED <<issued, revoked, watermark, copied, copiedMark, worker, owner,
                   visaUntil, deadSince, copySurvives>>

RevocationInit ==
    /\ second = 0
    /\ issued = [l \in Delegations |-> NotYet]
    /\ revoked = {}
    /\ watermark = NotYet
    /\ copied = [l \in Delegations |-> 0]
    /\ copiedMark = NotYet
    /\ worker = [w \in Workers |-> NoExchange]
    /\ owner = [o \in Owners |-> NoRequest]
    /\ visaUntil = [l \in Delegations |-> 0]
    /\ deadSince = [l \in Delegations |-> NotYet]
    /\ copySurvives = {}

RevocationNext ==
    \/ \E l \in Delegations : \/ Delegate(l)
                              \/ \E w \in Workers : ReadRecord(w, l)
                              \/ \E o \in Owners : RevokeOne(o, l)
    \/ \E w \in Workers : Mint(w)
    \/ \E o \in Owners : RevokeAll(o) \/ RecordMark(o) \/ CopyOne(o) \/ CopyMark(o)
    \/ LoseCopies
    \/ Second

RevocationSpec == RevocationInit /\ [][RevocationNext]_revocationVars

-----------------------------------------------------------------------------
(* Properties *)

\* readDelegationRevocation
CopyRevokes(l) == second < copied[l] \/ issued[l] <= copiedMark

\* The proxy takes a call of this link now.
Admits(l) == second < visaUntil[l] /\ ~CopyRevokes(l)

\* A revocation the owner was told is immediate, of one link or of all, admits
\* no call of that link while Redis keeps what it was given: not under a visa
\* that an exchange mints after having read the record before, not once the key
\* has expired, not when an older revoke-all is copied last.
ImmediateMeansNow == \A l \in copySurvives : ~Admits(l)

\* "A revocation recorded there stops a worker within one visa lifetime whatever
\* happens next": with every copy lost or never written, a link is dead one
\* visa, and one exchange already under way, after its row was written.
RevokedWithinOneVisa ==
    \A l \in Delegations :
        deadSince[l] # NotYet /\ second >= deadSince[l] + VisaFor + ExchangeFor => ~Admits(l)
=============================================================================
