---------------------------- MODULE Caches_proofs ----------------------------
(***************************************************************************)
(* What the fence of the credential caches guarantees, for every set of    *)
(* credentials, addresses and calls and every order of changes, purges,    *)
(* lost purges, reads, fills and expiries; and that the system the runs    *)
(* check the two caches in, MCGatewayCaches, is a behaviour of each.       *)
(*                                                                         *)
(* The invariant ties each value to the fence it was read under: a call or *)
(* a fill that quotes the fence as it stands holds nothing older than the  *)
(* last purge, since a purge hands out a token nobody can have seen.       *)
(***************************************************************************)
EXTENDS MCGatewayCaches, BudgetGateway_proofs

\* A pair sent to a stored address had been one credential's, at some version.
Configured(q) ==
    q.at \in {"permit", "sent"} /\ AddressAt(q.place) # OwnHost /\ ~overtaken
    => \E v \in 1..Len(rows) : /\ Chosen(v) = Chosen(q.place) /\ Chosen(v) = Chosen(q.secret)
                               /\ AddressAt(v) = AddressAt(q.place)
                               /\ SecretAt(v) = SecretAt(q.secret)

\* What a call has read exists, is of one credential, and is not retired while
\* the fence it quotes stands.
WellRead(q) ==
    /\ q \in Request
    /\ q.place \in 0..Len(rows) /\ q.secret \in 0..Len(rows)
    /\ q.seen <= tokens /\ q.seenForFill <= tokens
    /\ q.at \in {"key", "fillFence", "decrypt", "check", "permit", "sent"} => q.place # Miss
    /\ q.at \in {"check", "permit", "sent"} => q.secret # Miss
    /\ q.at = "check" => SameCredential(q.secret, q.place)
    /\ q.at \notin Unwatched /\ q.seen = fence
       => /\ q.place # Miss => q.place >= retired
          /\ q.secret # Miss => q.secret >= retired
    /\ Configured(q)

WellFilled(f) ==
    /\ f \in Fill
    /\ f.version \in 1..Len(rows)
    /\ f.seen <= tokens
    /\ f.seen = fence => f.version >= retired

\* While no change has overtaken a purge, at most the last one awaits its own.
Latest == ~overtaken => retired >= Len(rows) - 1

\* A change behind one credential moves its address or its secret, not both.
OneField ==
    \A v \in 1..Len(rows) : \A w \in 1..Len(rows) :
        w = v + 1 /\ Chosen(v) = Chosen(w)
        => AddressAt(v) = AddressAt(w) \/ SecretAt(v) = SecretAt(w)

CacheInv ==
    /\ CredentialTypeOK
    /\ fence <= tokens
    /\ PurgedIsForgotten
    /\ \A r \in Requests : WellRead(request[r])
    /\ \A f \in fills : WellFilled(f)
    /\ Latest
    /\ OneField

-----------------------------------------------------------------------------
(* The start, and the operators *)

\* A call that is over has read nothing.
LEMMA NoCallYetRead ==
  ASSUME CredentialTypeOK PROVE WellRead(NoCallYet)
<1>1. NoCallYet \in Request
  BY DEF NoCallYet, Request, CallSteps, NoFence, Miss
<1>2. Len(rows) \in Nat
  BY DEF CredentialTypeOK
<1>3. QED
  BY <1>1, <1>2 DEF WellRead, NoCallYet, Configured, Unwatched, Over, NoFence, Miss,
                          CredentialTypeOK

\* One version of the rows and nothing cached: the invariant holds at the start.
LEMMA CacheInitInv == CredentialInit => CacheInv
<1> SUFFICES ASSUME CredentialInit PROVE CacheInv
  OBVIOUS
<1>1. PICK new : new \in CredentialRow /\ rows = <<new>>
  <2>1. PICK c \in Credentials, address \in [Credentials -> Addresses] :
            rows = <<[active |-> c, address |-> address, secret |-> [d \in Credentials |-> 0]]>>
    BY DEF CredentialInit
  <2>2. [active |-> c, address |-> address, secret |-> [d \in Credentials |-> 0]] \in CredentialRow
    BY DEF CredentialRow
  <2>3. QED
    BY <2>1, <2>2
<1>2. rows \in Seq(CredentialRow) /\ rows # <<>> /\ Len(rows) = 1
  BY <1>1
<1>3. NoCallYet \in Request
  BY DEF NoCallYet, Request, CallSteps, NoFence, Miss
<1>4. CredentialTypeOK
  <2>1. /\ purging = 0 /\ fence = 0 /\ tokens = 0 /\ place = 0 /\ sealed = 0
        /\ fills = {} /\ retired = 1 /\ overtaken = FALSE
    BY DEF CredentialInit, NoFence, Miss
  <2>2. request \in [Requests -> Request]
    BY <1>3 DEF CredentialInit
  <2>3. overtaken \in BOOLEAN /\ fills \subseteq Fill
    BY <2>1
  <2>4. place \in 0..Len(rows) /\ sealed \in 0..Len(rows) /\ retired \in 1..Len(rows)
    BY <1>2, <2>1
  <2>5. QED
    BY <1>2, <2>1, <2>2, <2>3, <2>4 DEF CredentialTypeOK
<1>5. \A r \in Requests : WellRead(request[r])
  BY <1>4, NoCallYetRead DEF CredentialInit
<1>6. QED
  BY <1>2, <1>4, <1>5 DEF CredentialInit, CacheInv, PurgedIsForgotten, Latest, OneField,
                          NoFence, Miss

\* A new version leaves the earlier ones as they were.
LEMMA Appended ==
  ASSUME CredentialTypeOK, NEW new \in CredentialRow, Change(new)
  PROVE  /\ rows' \in Seq(CredentialRow) /\ rows' # <<>> /\ Len(rows') = Len(rows) + 1
         /\ Len(rows) \in Nat /\ Len(rows) >= 1
         /\ \A v \in 1..Len(rows) : /\ Chosen(v)' = Chosen(v)
                                    /\ AddressAt(v)' = AddressAt(v)
                                    /\ SecretAt(v)' = SecretAt(v)
         /\ rows'[Len(rows) + 1] = new
         /\ ~overtaken' => ~overtaken /\ ~(retired < Len(rows))
<1>1. rows \in Seq(CredentialRow) /\ rows # <<>> /\ rows' = Append(rows, new)
  BY DEF CredentialTypeOK, Change
<1>2. /\ rows' \in Seq(CredentialRow) /\ rows' # <<>> /\ Len(rows') = Len(rows) + 1
      /\ Len(rows) \in Nat /\ Len(rows) >= 1
      /\ rows'[Len(rows) + 1] = new
  BY <1>1
<1>3. \A v \in 1..Len(rows) : rows'[v] = rows[v]
  BY <1>1
<1>4. ~overtaken' => ~overtaken /\ ~(retired < Len(rows))
  BY Zenon DEF Change, Version
<1>5. QED
  BY <1>2, <1>3, <1>4 DEF Chosen, AddressAt, SecretAt

\* A version that moves at most one of the selected credential's two parts keeps
\* the invariant: no fence moves, and nothing retired becomes current.
LEMMA ChangeInv ==
  ASSUME CacheInv, NEW new \in CredentialRow, Change(new),
         new.active = Current.active
         => new.address[new.active] = Current.address[new.active]
            \/ new.secret[new.active] = Current.secret[new.active]
  PROVE  CacheInv'
<1>1. CredentialTypeOK
  BY DEF CacheInv
<1>2. UNCHANGED <<fence, tokens, place, sealed, fills, request, retired>>
  BY DEF Change
<1>3. CredentialTypeOK'
  BY <1>1, <1>2, Appended DEF CredentialTypeOK, Change
<1>4. ASSUME NEW r \in Requests PROVE WellRead(request[r])'
  <2> DEFINE q == request[r]
  <2>1. WellRead(q)
    BY DEF CacheInv
  <2>2. q.place \in 0..Len(rows) /\ q.secret \in 0..Len(rows)
    BY <2>1 DEF WellRead
  <2>3. Configured(q)'
    <3>1. SUFFICES ASSUME q.at \in {"permit", "sent"}, AddressAt(q.place)' # OwnHost, ~overtaken'
                   PROVE  \E v \in 1..Len(rows') :
                              /\ Chosen(v)' = Chosen(q.place)' /\ Chosen(v)' = Chosen(q.secret)'
                              /\ AddressAt(v)' = AddressAt(q.place)'
                              /\ SecretAt(v)' = SecretAt(q.secret)'
      BY <1>2 DEF Configured
    <3>2. q.place \in 1..Len(rows) /\ q.secret \in 1..Len(rows) /\ ~overtaken
      BY <2>1, <2>2, <3>1, <1>1, Appended DEF WellRead, Miss
    <3>3. PICK v \in 1..Len(rows) : /\ Chosen(v) = Chosen(q.place)
                                    /\ Chosen(v) = Chosen(q.secret)
                                    /\ AddressAt(v) = AddressAt(q.place)
                                    /\ SecretAt(v) = SecretAt(q.secret)
      BY <2>1, <3>1, <3>2, <1>1, <1>2, Appended DEF WellRead, Configured
    <3>4. v \in 1..Len(rows')
      BY <1>1, Appended
    <3>5. QED
      BY <3>2, <3>3, <3>4, <1>1, <1>2, Appended
  <2>4. (q.at = "check" => SameCredential(q.secret, q.place))'
    BY <2>1, <2>2, <1>1, <1>2, Appended DEF WellRead, SameCredential, Miss
  <2>5. QED
    BY <1>1, <1>2, <2>1, <2>3, <2>4, Appended DEF WellRead
<1>5. \A f \in fills' : WellFilled(f)'
  BY <1>1, <1>2, Appended DEF CacheInv, WellFilled
<1>6. Latest'
  BY <1>1, <1>2, Appended DEF CacheInv, Latest, CredentialTypeOK
<1>7. OneField'
  <2>1. SUFFICES ASSUME NEW v \in 1..Len(rows'), NEW w \in 1..Len(rows'),
                        w = v + 1, Chosen(v)' = Chosen(w)'
                 PROVE  AddressAt(v)' = AddressAt(w)' \/ SecretAt(v)' = SecretAt(w)'
    BY DEF OneField
  <2>2. CASE w \in 1..Len(rows)
    <3>1. v \in 1..Len(rows)
      BY <2>1, <2>2
    <3>2. QED
      BY <2>1, <2>2, <3>1, <1>1, Appended DEF CacheInv, OneField
  <2>3. CASE w = Len(rows) + 1
    <3>1. v = Len(rows) /\ v \in 1..Len(rows)
      BY <2>1, <2>3, <1>1, Appended
    <3>2. /\ Chosen(v)' = Current.active
          /\ AddressAt(v)' = Current.address[Current.active]
          /\ SecretAt(v)' = Current.secret[Current.active]
      BY <3>1, <1>1, Appended DEF Current, Version, Chosen, AddressAt, SecretAt
    <3>3. /\ Chosen(w)' = new.active
          /\ AddressAt(w)' = new.address[new.active]
          /\ SecretAt(w)' = new.secret[new.active]
      BY <2>3, <1>1, Appended DEF Chosen, AddressAt, SecretAt
    <3>4. QED
      BY <2>1, <3>2, <3>3
  <2>4. QED
    BY <2>1, <2>2, <2>3, <1>1, Appended
<1>8. QED
  BY <1>2, <1>3, <1>4, <1>5, <1>6, <1>7 DEF CacheInv, PurgedIsForgotten

\* Each of the operator's changes moves one thing.
LEMMA OperatorInv ==
  ASSUME CacheInv, NEW c \in Credentials,
         SetActive(c) \/ RotateKey(c) \/ \E a \in Addresses : SetEndpoint(c, a)
  PROVE  CacheInv'
<1>1. Current \in CredentialRow
  BY DEF CacheInv, CredentialTypeOK, Current, Version
<1>2. CASE SetActive(c)
  <2> DEFINE new == [Current EXCEPT !.active = c]
  <2>1. new \in CredentialRow /\ new.active = c /\ new.active # Current.active
    BY <1>1, <1>2 DEF CredentialRow, SetActive
  <2>2. Change(new)
    BY <1>2 DEF SetActive
  <2> HIDE DEF new
  <2>3. QED
    BY <2>1, <2>2, ChangeInv
<1>3. CASE RotateKey(c)
  <2> DEFINE new == [Current EXCEPT !.secret[c] = @ + 1]
  <2>1. new \in CredentialRow /\ new.address = Current.address /\ new.active = Current.active
    BY <1>1 DEF CredentialRow
  <2>2. Change(new)
    BY <1>3 DEF RotateKey
  <2> HIDE DEF new
  <2>3. QED
    BY <2>1, <2>2, ChangeInv
<1>4. ASSUME NEW a \in Addresses, SetEndpoint(c, a) PROVE CacheInv'
  <2> DEFINE new == [Current EXCEPT !.address[c] = a]
  <2>1. new \in CredentialRow /\ new.secret = Current.secret /\ new.active = Current.active
    BY <1>1 DEF CredentialRow
  <2>2. Change(new)
    BY <1>4 DEF SetEndpoint
  <2> HIDE DEF new
  <2>3. QED
    BY <2>1, <2>2, ChangeInv
<1>5. QED
  BY <1>2, <1>3, <1>4
-----------------------------------------------------------------------------
(* Purges and losses *)

\* A purge hands out a token no one has quoted, or nothing happens.
LEMMA PurgeInv ==
  ASSUME CacheInv, Purge PROVE CacheInv'
<1>1. CredentialTypeOK /\ fence <= tokens
  BY DEF CacheInv
<1>2. UNCHANGED <<rows, fills, request, overtaken>> /\ purging' \in Nat
  BY <1>1 DEF Purge, CredentialTypeOK
<1>3. CASE UNCHANGED <<fence, tokens, place, sealed, retired>>
  BY <1>2, <1>3 DEF CacheInv, CredentialTypeOK, PurgedIsForgotten, WellRead, Configured,
                    SameCredential, Chosen, AddressAt, SecretAt, WellFilled, Latest, OneField
<1>4. CASE RotateFence
  <2>1. /\ tokens' = tokens + 1 /\ fence' = tokens + 1 /\ place' = 0 /\ sealed' = 0
        /\ retired' = Len(rows) /\ Len(rows) \in Nat /\ Len(rows) >= 1
        /\ tokens \in Nat /\ fence \in Nat
    BY <1>1, <1>4 DEF RotateFence, CredentialTypeOK, Miss, Version
  <2>2. CredentialTypeOK'
    BY <1>1, <1>2, <2>1 DEF CredentialTypeOK
  <2>3. \A r \in Requests : WellRead(request[r])'
    BY <1>2, <2>1 DEF CacheInv, WellRead, Request, Configured, SameCredential, Chosen,
                      AddressAt, SecretAt
  <2>4. \A f \in fills : WellFilled(f)'
    BY <1>2, <2>1 DEF CacheInv, WellFilled, Fill
  <2>5. Latest' /\ OneField' /\ PurgedIsForgotten'
    BY <1>2, <2>1 DEF CacheInv, Latest, OneField, Chosen, AddressAt, SecretAt,
                      PurgedIsForgotten, Miss
  <2>6. QED
    BY <1>2, <2>1, <2>2, <2>3, <2>4, <2>5 DEF CacheInv
<1>5. QED
  BY <1>3, <1>4 DEF Purge

\* Values expire under anyone; the fence vanishes only under those who saw it.
LEMMA LossInv ==
  ASSUME ~LateLosses, CacheInv, ExpireValue \/ LoseFence PROVE CacheInv'
<1>1. CredentialTypeOK /\ fence <= tokens
  BY DEF CacheInv
<1>2. CASE ExpireValue
  <2>1. UNCHANGED <<rows, purging, fence, tokens, fills, request, retired, overtaken>>
    BY <1>2 DEF ExpireValue
  <2>2. CredentialTypeOK' /\ PurgedIsForgotten'
    BY <1>1, <1>2, <2>1 DEF CacheInv, CredentialTypeOK, PurgedIsForgotten, ExpireValue, Miss
  <2>3. QED
    BY <2>1, <2>2 DEF CacheInv, WellRead, Configured, SameCredential, Chosen, AddressAt,
                      SecretAt, WellFilled, Latest, OneField
<1>3. CASE LoseFence
  <2>1. /\ fence' = 0 /\ NoFence \notin Quoted
        /\ UNCHANGED <<rows, purging, tokens, place, sealed, fills, request, retired, overtaken>>
    BY <1>3 DEF LoseFence, NoFence
  <2>2. ASSUME NEW r \in Requests, request[r].at \notin Unwatched PROVE request[r].seen # 0
    BY <2>1, <2>2 DEF Quoted, NoFence
  <2>3. \A f \in fills : f.seen # 0
    BY <2>1 DEF Quoted, NoFence
  <2>4. \A r \in Requests : WellRead(request[r])'
    BY <2>1, <2>2 DEF CacheInv, WellRead, Configured, SameCredential, Chosen, AddressAt, SecretAt
  <2>5. \A f \in fills : WellFilled(f)'
    BY <2>1, <2>3 DEF CacheInv, WellFilled
  <2>6. QED
    BY <1>1, <2>1, <2>4, <2>5 DEF CacheInv, CredentialTypeOK, PurgedIsForgotten, Latest,
                                  OneField, Chosen, AddressAt, SecretAt
<1>4. QED
  BY <1>2, <1>3

-----------------------------------------------------------------------------
(* Fills and calls *)

\* A fill that matches the fence carries nothing retired.
LEMMA FillInv ==
  ASSUME CacheInv, NEW f \in fills, LandFill(f) PROVE CacheInv'
<1>1. CredentialTypeOK /\ WellFilled(f)
  BY DEF CacheInv
<1>2. /\ fills' = fills \ {f}
      /\ UNCHANGED <<rows, purging, fence, tokens, request, retired, overtaken>>
  BY DEF LandFill
<1>3. /\ place' = place \/ (place' = f.version /\ f.version >= retired)
      /\ sealed' = sealed \/ (sealed' = f.version /\ f.version >= retired)
  BY <1>1 DEF LandFill, Publishes, WellFilled
<1>4. CredentialTypeOK' /\ PurgedIsForgotten'
  BY <1>1, <1>2, <1>3 DEF CacheInv, CredentialTypeOK, PurgedIsForgotten, WellFilled
<1>5. QED
  BY <1>2, <1>4 DEF CacheInv, WellRead, Configured, SameCredential, Chosen, AddressAt,
                    SecretAt, WellFilled, Latest, OneField

\* A call's step keeps the invariant if what it becomes, and what it fills, are
\* well read.
LEMMA MoveInv ==
  ASSUME CacheInv, NEW r \in Requests, NEW next, WellRead(next), Becomes(r, next),
         fills' = fills \/ \E f : WellFilled(f) /\ fills' = fills \cup {f}
  PROVE  CacheInv'
<1>1. CredentialTypeOK
  BY DEF CacheInv
<1>2. /\ request' = [request EXCEPT ![r] = next]
      /\ UNCHANGED <<rows, purging, fence, tokens, place, sealed, retired, overtaken>>
  BY DEF Becomes
<1>3. \A f \in fills' : WellFilled(f)
  BY DEF CacheInv
<1>4. fills' \subseteq Fill
  BY <1>3 DEF WellFilled
<1>5. next \in Request
  BY DEF WellRead
<1>6. \A q \in Requests : request'[q] = IF q = r THEN next ELSE request[q]
  BY <1>1, <1>2 DEF CredentialTypeOK
<1>7. \A q \in Requests : WellRead(request'[q])
  BY <1>6 DEF CacheInv
<1>8. CredentialTypeOK'
  BY <1>1, <1>2, <1>4, <1>5 DEF CredentialTypeOK
<1>9. \A f \in fills' : WellFilled(f)'
  BY <1>2, <1>3 DEF WellFilled
<1>10. \A q \in Requests : WellRead(request[q])'
  BY <1>2, <1>7 DEF WellRead, Configured, SameCredential, Chosen, AddressAt, SecretAt
<1>11. QED
  BY <1>2, <1>8, <1>9, <1>10 DEF CacheInv, PurgedIsForgotten, Latest, OneField, Chosen,
                                 AddressAt, SecretAt

\* What every call's step may use.
LEMMA CallFacts ==
  ASSUME CacheInv, NEW r \in Requests
  PROVE  /\ WellRead(request[r]) /\ request[r] \in Request
         /\ Len(rows) \in Nat /\ Len(rows) >= 1 /\ Len(rows) >= retired
         /\ fence \in Nat /\ tokens \in Nat /\ fence <= tokens /\ retired \in Nat
         /\ place \in 0..Len(rows) /\ (place # 0 => place >= retired)
         /\ sealed \in 0..Len(rows) /\ (sealed # 0 => sealed >= retired)
         /\ place \in Nat /\ sealed \in Nat
BY DEF CacheInv, CredentialTypeOK, WellRead, PurgedIsForgotten, Miss

\* A refused call has read nothing, and fills nothing.
LEMMA RefusalInv ==
  ASSUME CacheInv, NEW r \in Requests, Refuses(r) PROVE CacheInv'
BY NoCallYetRead, MoveInv DEF Refuses, Moves, CacheInv

\* What was cached when a call read it was not retired then.
LEMMA AddressInv ==
  ASSUME CacheInv, NEW r \in Requests, ReadFence(r) \/ ReadEndpoint(r) \/ ReadRow(r)
  PROVE  CacheInv'
<1> DEFINE q == request[r]
<1>1. CASE ReadFence(r)
  <2>1. PICK seen \in Seen :
            Moves(r, [at |-> "endpoint", seen |-> seen, seenForFill |-> NoFence,
                     place |-> Miss, secret |-> Miss])
    BY <1>1 DEF ReadFence
  <2> DEFINE next == [at |-> "endpoint", seen |-> seen, seenForFill |-> NoFence,
                      place |-> Miss, secret |-> Miss]
  <2>2. seen \in Nat /\ seen <= tokens
    BY CallFacts DEF Seen, NoFence
  <2>3. next \in Request /\ next.at = "endpoint" /\ next.seen = seen
        /\ next.seenForFill = 0 /\ next.place = 0 /\ next.secret = 0
    BY <2>2 DEF Request, CallSteps, NoFence, Miss
  <2> HIDE DEF next
  <2>4. WellRead(next)
    BY <2>2, <2>3, CallFacts DEF WellRead, Configured, Miss
  <2>5. QED
    BY <2>1, <2>4, MoveInv DEF Moves, next
<1>2. CASE ReadEndpoint(r)
  <2>1. q.at = "endpoint"
    BY <1>2 DEF ReadEndpoint
  <2>2. CASE place # Miss /\ Moves(r, [q EXCEPT !.at = "key", !.place = place])
    <3> DEFINE next == [q EXCEPT !.at = "key", !.place = place]
    <3>1. next \in Request /\ next.at = "key" /\ next.seen = q.seen /\ next.place = place
          /\ next.seenForFill = q.seenForFill /\ next.secret = q.secret
      BY CallFacts DEF Request, CallSteps
    <3> HIDE DEF next
    <3>2. WellRead(next)
      BY <2>1, <2>2, <3>1, CallFacts DEF WellRead, Configured, Unwatched, Over, Miss
    <3>3. QED
      BY <2>2, <3>2, MoveInv DEF Moves, next
  <2>3. CASE Moves(r, [q EXCEPT !.at = "row"])
    <3> DEFINE next == [q EXCEPT !.at = "row"]
    <3>1. next \in Request /\ next.at = "row" /\ next.seen = q.seen /\ next.place = q.place
          /\ next.seenForFill = q.seenForFill /\ next.secret = q.secret
      BY CallFacts DEF Request, CallSteps
    <3> HIDE DEF next
    <3>2. WellRead(next)
      BY <2>1, <3>1, CallFacts DEF WellRead, Configured, Unwatched, Over
    <3>3. QED
      BY <2>3, <3>2, MoveInv DEF Moves, next
  <2>4. QED
    BY <1>2, <2>2, <2>3 DEF ReadEndpoint
<1>3. CASE ReadRow(r)
  <2>1. q.at = "row"
    BY <1>3 DEF ReadRow
  <2>2. ASSUME Becomes(r, [q EXCEPT !.at = "key", !.place = Version]),
               Begins([of |-> "place", version |-> Version, seen |-> q.seen])
        PROVE  CacheInv'
    <3> DEFINE next == [q EXCEPT !.at = "key", !.place = Version]
               fill == [of |-> "place", version |-> Version, seen |-> q.seen]
    <3>1. next \in Request /\ next.at = "key" /\ next.seen = q.seen /\ next.place = Len(rows)
          /\ next.seenForFill = q.seenForFill /\ next.secret = q.secret
      BY CallFacts DEF Request, CallSteps, Version
    <3>2. fill \in Fill /\ fill.version = Len(rows) /\ fill.seen = q.seen
      BY CallFacts DEF Request, Fill, Version
    <3>3. fills' = fills \/ fills' = fills \cup {fill}
      BY <2>2 DEF Begins
    <3> HIDE DEF next, fill
    <3>4. WellRead(next)
      BY <2>1, <3>1, CallFacts DEF WellRead, Configured, Unwatched, Over, Miss
    <3>5. WellFilled(fill)
      BY <3>2, CallFacts DEF WellFilled, WellRead
    <3>6. QED
      BY <2>2, <3>3, <3>4, <3>5, MoveInv DEF next
  <2>3. QED
    BY <1>3, <2>2, RefusalInv DEF ReadRow
<1>4. QED
  BY <1>1, <1>2, <1>3

\* A secret is read for the credential of the address, and is not retired then.
LEMMA SecretInv ==
  ASSUME CacheInv, NEW r \in Requests, ReadKey(r) \/ ReadFillFence(r) \/ Decrypt(r)
  PROVE  CacheInv'
<1> DEFINE q == request[r]
<1>1. CASE ReadKey(r)
  <2>1. q.at = "key"
    BY <1>1 DEF ReadKey
  <2>2. ASSUME sealed # Miss, SameCredential(sealed, q.place),
               Moves(r, [q EXCEPT !.at = "check", !.secret = sealed])
        PROVE  CacheInv'
    <3> DEFINE next == [q EXCEPT !.at = "check", !.secret = sealed]
    <3>1. next \in Request /\ next.at = "check" /\ next.seen = q.seen /\ next.place = q.place
          /\ next.seenForFill = q.seenForFill /\ next.secret = sealed
      BY CallFacts DEF Request, CallSteps
    <3> HIDE DEF next
    <3>2. WellRead(next)
      BY <2>1, <2>2, <3>1, CallFacts DEF WellRead, Configured, Unwatched, Over, Miss
    <3>3. QED
      BY <2>2, <3>2, MoveInv DEF Moves, next
  <2>3. CASE Moves(r, [q EXCEPT !.at = "fillFence"])
    <3> DEFINE next == [q EXCEPT !.at = "fillFence"]
    <3>1. next \in Request /\ next.at = "fillFence" /\ next.seen = q.seen
          /\ next.place = q.place /\ next.seenForFill = q.seenForFill
          /\ next.secret = q.secret
      BY CallFacts DEF Request, CallSteps
    <3> HIDE DEF next
    <3>2. WellRead(next)
      BY <2>1, <3>1, CallFacts DEF WellRead, Configured, Unwatched, Over
    <3>3. QED
      BY <2>3, <3>2, MoveInv DEF Moves, next
  <2>4. QED
    BY <1>1, <2>2, <2>3, RefusalInv DEF ReadKey
<1>2. CASE ReadFillFence(r)
  <2>1. PICK seen \in Seen : Moves(r, [q EXCEPT !.at = "decrypt", !.seenForFill = seen])
    BY <1>2 DEF ReadFillFence
  <2> DEFINE next == [q EXCEPT !.at = "decrypt", !.seenForFill = seen]
  <2>2. q.at = "fillFence" /\ seen \in Nat /\ seen <= tokens
    BY <1>2, CallFacts DEF ReadFillFence, Seen, NoFence
  <2>3. next \in Request /\ next.at = "decrypt" /\ next.seen = q.seen /\ next.place = q.place
        /\ next.seenForFill = seen /\ next.secret = q.secret
    BY <2>2, CallFacts DEF Request, CallSteps
  <2> HIDE DEF next
  <2>4. WellRead(next)
    BY <2>2, <2>3, CallFacts DEF WellRead, Configured, Unwatched, Over
  <2>5. QED
    BY <2>1, <2>4, MoveInv DEF Moves, next
<1>3. CASE Decrypt(r)
  <2>1. q.at = "decrypt"
    BY <1>3 DEF Decrypt
  <2>2. ASSUME SameCredential(Version, q.place),
               Becomes(r, [q EXCEPT !.at = "check", !.secret = Version,
                                    !.seenForFill = NoFence]),
               Begins([of |-> "sealed", version |-> Version, seen |-> q.seenForFill])
        PROVE  CacheInv'
    <3> DEFINE next == [q EXCEPT !.at = "check", !.secret = Version, !.seenForFill = NoFence]
               fill == [of |-> "sealed", version |-> Version, seen |-> q.seenForFill]
    <3>1. next \in Request /\ next.at = "check" /\ next.seen = q.seen /\ next.place = q.place
          /\ next.seenForFill = 0 /\ next.secret = Len(rows)
      BY CallFacts DEF Request, CallSteps, Version, NoFence
    <3>2. fill \in Fill /\ fill.version = Len(rows) /\ fill.seen = q.seenForFill
      BY CallFacts DEF Request, Fill, Version
    <3>3. fills' = fills \/ fills' = fills \cup {fill}
      BY <2>2 DEF Begins
    <3> HIDE DEF next, fill
    <3>4. WellRead(next)
      BY <2>1, <2>2, <3>1, CallFacts DEF WellRead, Configured, Unwatched, Over, Miss,
                                             Version
    <3>5. WellFilled(fill)
      BY <3>2, CallFacts DEF WellFilled, WellRead
    <3>6. QED
      BY <2>2, <3>3, <3>4, <3>5, MoveInv DEF next
  <2>3. QED
    BY <1>3, <2>2, RefusalInv DEF Decrypt
<1>4. QED
  BY <1>1, <1>2, <1>3

\* Two versions on either side of at most one change behind one credential: one
\* of the two had both parts.
LEMMA PairIsConfigured ==
  ASSUME CacheInv, ~overtaken,
         NEW p \in 1..Len(rows), NEW s \in 1..Len(rows),
         p >= retired, s >= retired, SameCredential(s, p)
  PROVE  \E v \in 1..Len(rows) : /\ Chosen(v) = Chosen(p) /\ Chosen(v) = Chosen(s)
                                 /\ AddressAt(v) = AddressAt(p)
                                 /\ SecretAt(v) = SecretAt(s)
<1>1. Chosen(s) = Chosen(p) /\ Len(rows) \in Nat /\ retired \in Nat /\ retired >= Len(rows) - 1
  BY DEF SameCredential, CacheInv, Latest, CredentialTypeOK
<1>2. CASE p = s
  BY <1>1, <1>2
<1>3. CASE s = p + 1
  <2>1. AddressAt(p) = AddressAt(s) \/ SecretAt(p) = SecretAt(s)
    BY <1>1, <1>3 DEF CacheInv, OneField
  <2>2. QED
    BY <1>1, <2>1
<1>4. CASE p = s + 1
  <2>1. AddressAt(p) = AddressAt(s) \/ SecretAt(p) = SecretAt(s)
    BY <1>1, <1>4 DEF CacheInv, OneField
  <2>2. QED
    BY <1>1, <2>1
<1>5. p = s \/ s = p + 1 \/ p = s + 1
  BY <1>1
<1>6. QED
  BY <1>2, <1>3, <1>4, <1>5

\* A call that passes the check to a stored address quotes the fence as it stands.
LEMMA CheckFacts ==
  ASSUME CacheInv, NEW r \in Requests, request[r].at = "check", Unmoved(request[r].seen)
  PROVE  /\ request[r].place \in 1..Len(rows) /\ request[r].secret \in 1..Len(rows)
         /\ request[r].place >= retired /\ request[r].secret >= retired
         /\ SameCredential(request[r].secret, request[r].place)
BY CallFacts DEF WellRead, Unmoved, Unwatched, Over, Miss

\* The last check passes what was configured, or refuses.
LEMMA CheckInv ==
  ASSUME CacheInv, NEW r \in Requests, CheckFence(r) PROVE CacheInv'
<1> DEFINE q == request[r]
           next == [q EXCEPT !.at = "permit", !.seen = NoFence]
<1>1. q.at = "check"
  BY DEF CheckFence
<1>2. ASSUME AddressAt(q.place) = OwnHost \/ Unmoved(q.seen), Moves(r, next) PROVE CacheInv'
  <2>1. next \in Request /\ next.at = "permit" /\ next.seen = 0 /\ next.place = q.place
        /\ next.seenForFill = q.seenForFill /\ next.secret = q.secret
    BY CallFacts DEF Request, CallSteps, NoFence
  <2> HIDE DEF next
  <2>2. Configured(next)
    BY <1>1, <1>2, <2>1, CheckFacts, PairIsConfigured DEF Configured
  <2>3. WellRead(next)
    BY <1>1, <2>1, <2>2, CallFacts DEF WellRead, Unwatched, Over
  <2>4. QED
    BY <1>2, <2>3, MoveInv DEF Moves
<1>3. QED
  BY <1>2, RefusalInv DEF CheckFence

\* What passed the check is sent as it was, or not at all.
LEMMA SendInv ==
  ASSUME CacheInv, NEW r \in Requests, SendPermitted(r) PROVE CacheInv'
<1> DEFINE q == request[r]
           next == [q EXCEPT !.at = "sent"]
<1>1. q.at = "permit"
  BY DEF SendPermitted
<1>2. ASSUME Moves(r, next) PROVE CacheInv'
  <2>1. next \in Request /\ next.at = "sent" /\ next.seen = q.seen /\ next.place = q.place
        /\ next.seenForFill = q.seenForFill /\ next.secret = q.secret
    BY CallFacts DEF Request, CallSteps
  <2> HIDE DEF next
  <2>2. WellRead(next)
    BY <1>1, <2>1, CallFacts DEF WellRead, Configured, Unwatched, Over
  <2>3. QED
    BY <1>2, <2>2, MoveInv DEF Moves
<1>3. QED
  BY <1>2, RefusalInv DEF SendPermitted

-----------------------------------------------------------------------------
(* Theorems *)

\* Every step keeps the invariant.
LEMMA CacheNextInv ==
  ASSUME ~LateLosses, CacheInv, [CredentialNext]_credentialVars PROVE CacheInv'
<1>1. CASE UNCHANGED credentialVars
  BY <1>1 DEF credentialVars, CacheInv, CredentialTypeOK, PurgedIsForgotten, WellRead,
              Configured, SameCredential, Chosen, AddressAt, SecretAt, WellFilled, Latest,
              OneField
<1>2. CASE CredentialNext
  BY <1>2, OperatorInv, PurgeInv, LossInv, FillInv, AddressInv, SecretInv, CheckInv,
         SendInv
     DEF CredentialNext
<1>3. QED
  BY <1>1, <1>2

\* The invariant holds in every reachable state.
LEMMA CacheInvariance == ~LateLosses => (CredentialSpec => []CacheInv)
<1> SUFFICES ASSUME ~LateLosses PROVE CredentialSpec => []CacheInv
  OBVIOUS
<1>1. CacheInv /\ [CredentialNext]_credentialVars => CacheInv'
  BY CacheNextInv
<1>2. QED
  BY <1>1, CacheInitInv, PTL DEF CredentialSpec

\* No fill brings back what a landed purge dropped, however late it lands and
\* however early the read behind it began (FENCED_FILL_LUA, ROTATE_FENCE_LUA).
THEOREM NothingPurgedReturns == ~LateLosses => (CredentialSpec => []PurgedIsForgotten)
<1> SUFFICES ASSUME ~LateLosses PROVE CredentialSpec => []PurgedIsForgotten
  OBVIOUS
<1>1. CacheInv => PurgedIsForgotten
  BY DEF CacheInv
<1>2. QED
  BY <1>1, CacheInvariance, PTL

\* No secret is sent to an address that was not its credential's, at one and the
\* same version, while no change overtakes the purge of another (steps 6 and 6b).
THEOREM PairsAreConfigured == ~LateLosses => (CredentialSpec => []PairWasConfigured)
<1> SUFFICES ASSUME ~LateLosses PROVE CredentialSpec => []PairWasConfigured
  OBVIOUS
<1>1. CacheInv => PairWasConfigured
  <2>1. SUFFICES ASSUME CacheInv, NEW r \in Requests,
                        request[r].at = "sent", AddressAt(request[r].place) # OwnHost,
                        ~overtaken
                 PROVE  \E v \in DOMAIN rows :
                            /\ Chosen(v) = Chosen(request[r].place)
                            /\ Chosen(v) = Chosen(request[r].secret)
                            /\ AddressAt(v) = AddressAt(request[r].place)
                            /\ SecretAt(v) = SecretAt(request[r].secret)
    BY DEF PairWasConfigured
  <2>2. DOMAIN rows = 1..Len(rows)
    BY <2>1 DEF CacheInv, CredentialTypeOK
  <2>3. Configured(request[r])
    BY <2>1 DEF CacheInv, WellRead
  <2>4. QED
    BY <2>1, <2>2, <2>3 DEF Configured
<1>2. QED
  BY <1>1, CacheInvariance, PTL

\* Whatever a landed purge retired passes no check for a stored address afterwards,
\* however long before the purge the call had read it (step 6b).  A purge that lands
\* between the check and the dispatch is too late for that call.
THEOREM RetiredIsStopped == ~LateLosses => (CredentialSpec => RetiredFailsTheCheck)
<1> SUFFICES ASSUME ~LateLosses PROVE CredentialSpec => RetiredFailsTheCheck
  OBVIOUS
<1> DEFINE Passes == \A r \in Requests :
               request[r].at = "check" /\ request'[r].at = "permit"
               /\ AddressAt(request[r].place) # OwnHost
               => request[r].place >= retired /\ request[r].secret >= retired
<1>1. CacheInv /\ [CredentialNext]_credentialVars => [Passes]_credentialVars
  <2>1. SUFFICES ASSUME CacheInv, CredentialNext, NEW r \in Requests,
                        request[r].at = "check", request'[r].at = "permit",
                        AddressAt(request[r].place) # OwnHost
                 PROVE  request[r].place >= retired /\ request[r].secret >= retired
    OBVIOUS
  <2>2. request \in [Requests -> Request]
    BY <2>1 DEF CacheInv, CredentialTypeOK
  <2>3. \E q \in Requests : CheckFence(q) /\ q = r
    <3>1. request' # request
      BY <2>1
    <3>2. \A q \in Requests : \A next : Becomes(q, next) => q = r /\ next.at = "permit"
      BY <2>1, <2>2 DEF Becomes
    <3>3. \A q \in Requests : ~Refuses(q)
      BY <2>1, <3>2 DEF Refuses, Moves, NoCallYet
    <3>4. ASSUME NEW q \in Requests,
                 ReadFence(q) \/ ReadEndpoint(q) \/ ReadRow(q) \/ ReadKey(q)
                 \/ ReadFillFence(q) \/ Decrypt(q) \/ SendPermitted(q)
          PROVE  FALSE
      <4>1. request[q] \in Request
        BY <2>2
      <4>2. CASE ReadFence(q)
        BY <3>2, <4>2 DEF ReadFence, Moves
      <4>3. CASE ReadEndpoint(q)
        BY <2>1, <3>2, <4>1, <4>3, CallFacts DEF ReadEndpoint, Moves, Request
      <4>4. CASE ReadRow(q)
        BY <2>1, <3>2, <3>3, <4>1, <4>4, CallFacts DEF ReadRow, Request
      <4>5. CASE ReadKey(q)
        BY <2>1, <3>2, <3>3, <4>1, <4>5 DEF ReadKey, Moves, Request
      <4>6. CASE ReadFillFence(q)
        BY <2>1, <3>2, <4>1, <4>6, CallFacts DEF ReadFillFence, Moves, Request
      <4>7. CASE Decrypt(q)
        BY <2>1, <3>2, <3>3, <4>1, <4>7 DEF Decrypt, Request
      <4>8. CASE SendPermitted(q)
        BY <2>1, <3>2, <3>3, <4>1, <4>8, CallFacts DEF SendPermitted, Moves, Request
      <4>9. QED
        BY <3>4, <4>2, <4>3, <4>4, <4>5, <4>6, <4>7, <4>8
    <3>5. \E q \in Requests : CheckFence(q)
      BY <2>1, <3>1, <3>4 DEF CredentialNext, SetActive, RotateKey, SetEndpoint, Change, Purge,
                              LandFill, ExpireValue, LoseFence
    <3>6. QED
      BY <3>2, <3>5 DEF CheckFence, Moves, Refuses
  <2>4. Unmoved(request[r].seen)
    BY <2>1, <2>2, <2>3 DEF CheckFence, Refuses, Moves, Becomes, NoCallYet
  <2>5. QED
    BY <2>1, <2>4, CheckFacts
<1>2. QED
  BY <1>1, CacheInvariance, PTL DEF CredentialSpec, RetiredFailsTheCheck

-----------------------------------------------------------------------------
(* Type correctness, whatever is lost *)

\* What a fill will publish is a version there is.
CachesTyped == CredentialTypeOK /\ \A f \in fills : f.version \in 1..Len(rows)

\* A call that goes on, with at most one more fill under way.
LEMMA MoveTyped ==
  ASSUME CachesTyped, NEW r \in Requests, NEW next \in Request, Becomes(r, next),
         fills' = fills \/ \E f \in Fill : f.version \in 1..Len(rows) /\ fills' = fills \cup {f}
  PROVE  CachesTyped'
<1>1. request' \in [Requests -> Request]
  BY DEF CachesTyped, CredentialTypeOK, Becomes
<1>2. fills' \subseteq Fill /\ \A f \in fills' : f.version \in 1..Len(rows)
  BY DEF CachesTyped, CredentialTypeOK
<1>3. QED
  BY <1>1, <1>2 DEF CachesTyped, CredentialTypeOK, Becomes

\* No step of a call writes down anything but versions and tokens there are.
LEMMA CallTyped ==
  ASSUME CachesTyped, NEW r \in Requests,
         \/ ReadFence(r) \/ ReadEndpoint(r) \/ ReadRow(r) \/ ReadKey(r)
         \/ ReadFillFence(r) \/ Decrypt(r) \/ CheckFence(r) \/ SendPermitted(r)
  PROVE  CachesTyped'
<1> DEFINE q == request[r]
<1>1. /\ q \in Request /\ fence \in Nat /\ place \in Nat /\ sealed \in Nat
      /\ Version \in Nat /\ Version \in 1..Len(rows)
  BY DEF CachesTyped, CredentialTypeOK, Version
<1>2. NoCallYet \in Request /\ NoFence \in Nat /\ Miss \in Nat
  BY DEF NoCallYet, Request, CallSteps, NoFence, Miss
<1>3. ASSUME NEW next \in Request, Moves(r, next) PROVE CachesTyped'
  BY <1>3, MoveTyped DEF Moves
<1>4. ASSUME NEW next \in Request, Becomes(r, next), NEW fill \in Fill,
             fill.version \in 1..Len(rows), Begins(fill)
      PROVE  CachesTyped'
  BY <1>4, MoveTyped DEF Begins
<1>5. CASE Refuses(r)
  BY <1>2, <1>3, <1>5 DEF Refuses
<1>6. CASE ReadFence(r)
  <2>1. PICK seen \in Seen : Moves(r, [at |-> "endpoint", seen |-> seen, seenForFill |-> NoFence,
                                       place |-> Miss, secret |-> Miss])
    BY <1>6 DEF ReadFence
  <2>2. [at |-> "endpoint", seen |-> seen, seenForFill |-> NoFence,
         place |-> Miss, secret |-> Miss] \in Request
    BY <1>1, <1>2 DEF Seen, Request, CallSteps
  <2>3. QED
    BY <1>3, <2>1, <2>2
<1>7. CASE ReadEndpoint(r)
  <2>1. /\ [q EXCEPT !.at = "key", !.place = place] \in Request
        /\ [q EXCEPT !.at = "row"] \in Request
    BY <1>1 DEF Request, CallSteps
  <2>2. QED
    BY <1>3, <1>7, <2>1 DEF ReadEndpoint
<1>8. CASE ReadRow(r)
  <2>1. /\ [q EXCEPT !.at = "key", !.place = Version] \in Request
        /\ [of |-> "place", version |-> Version, seen |-> q.seen] \in Fill
    BY <1>1 DEF Request, CallSteps, Fill
  <2>2. QED
    BY <1>1, <1>4, <1>5, <1>8, <2>1 DEF ReadRow
<1>9. CASE ReadKey(r)
  <2>1. /\ [q EXCEPT !.at = "check", !.secret = sealed] \in Request
        /\ [q EXCEPT !.at = "fillFence"] \in Request
    BY <1>1 DEF Request, CallSteps
  <2>2. QED
    BY <1>3, <1>5, <1>9, <2>1 DEF ReadKey
<1>10. CASE ReadFillFence(r)
  <2>1. PICK seen \in Seen : Moves(r, [q EXCEPT !.at = "decrypt", !.seenForFill = seen])
    BY <1>10 DEF ReadFillFence
  <2>2. [q EXCEPT !.at = "decrypt", !.seenForFill = seen] \in Request
    BY <1>1, <1>2 DEF Seen, Request, CallSteps
  <2>3. QED
    BY <1>3, <2>1, <2>2
<1>11. CASE Decrypt(r)
  <2>1. /\ [q EXCEPT !.at = "check", !.secret = Version, !.seenForFill = NoFence] \in Request
        /\ [of |-> "sealed", version |-> Version, seen |-> q.seenForFill] \in Fill
    BY <1>1, <1>2 DEF Request, CallSteps, Fill
  <2>2. QED
    BY <1>1, <1>4, <1>5, <1>11, <2>1 DEF Decrypt
<1>12. CASE CheckFence(r)
  <2>1. [q EXCEPT !.at = "permit", !.seen = NoFence] \in Request
    BY <1>1, <1>2 DEF Request, CallSteps
  <2>2. QED
    BY <1>3, <1>5, <1>12, <2>1 DEF CheckFence
<1>13. CASE SendPermitted(r)
  <2>1. [q EXCEPT !.at = "sent"] \in Request
    BY <1>1 DEF Request, CallSteps
  <2>2. QED
    BY <1>3, <1>5, <1>13, <2>1 DEF SendPermitted
<1>14. QED
  BY <1>6, <1>7, <1>8, <1>9, <1>10, <1>11, <1>12, <1>13

\* Every step keeps the types, whatever is lost under a call or a fill.
LEMMA CachesNextTyped ==
  ASSUME CachesTyped, [CredentialNext]_credentialVars PROVE CachesTyped'
<1>1. CredentialTypeOK /\ Len(rows) \in Nat /\ Len(rows) >= 1 /\ Current \in CredentialRow
  BY DEF CachesTyped, CredentialTypeOK, Current, Version
<1>2. ASSUME NEW new \in CredentialRow, Change(new) PROVE CachesTyped'
  <2>1. rows' \in Seq(CredentialRow) /\ rows' # <<>> /\ Len(rows') = Len(rows) + 1
    BY <1>1, <1>2, Appended
  <2>2. QED
    BY <1>1, <1>2, <2>1 DEF CachesTyped, CredentialTypeOK, Change
<1>3. ASSUME NEW c \in Credentials, SetActive(c) PROVE CachesTyped'
  <2> DEFINE new == [Current EXCEPT !.active = c]
  <2>1. new \in CredentialRow /\ Change(new)
    BY <1>1, <1>3 DEF CredentialRow, SetActive
  <2> HIDE DEF new
  <2>2. QED
    BY <1>2, <2>1
<1>4. ASSUME NEW c \in Credentials, RotateKey(c) PROVE CachesTyped'
  <2> DEFINE new == [Current EXCEPT !.secret[c] = @ + 1]
  <2>1. Current.secret[c] + 1 \in Nat
    BY <1>1 DEF CredentialRow
  <2>2. new \in CredentialRow
    BY <1>1, <2>1 DEF CredentialRow
  <2>3. Change(new)
    BY <1>4 DEF RotateKey
  <2> HIDE DEF new
  <2>4. QED
    BY <1>2, <2>2, <2>3
<1>5. ASSUME NEW c \in Credentials, NEW a \in Addresses, SetEndpoint(c, a) PROVE CachesTyped'
  <2>1. [Current EXCEPT !.address[c] = a] \in CredentialRow
    BY <1>1 DEF CredentialRow
  <2>2. QED
    BY <1>2, <1>5, <2>1 DEF SetEndpoint
<1>6. CASE Purge
  BY <1>1, <1>6 DEF Purge, RotateFence, Version, Miss, CachesTyped, CredentialTypeOK
<1>7. ASSUME NEW f \in fills, LandFill(f) PROVE CachesTyped'
  BY <1>1, <1>7 DEF LandFill, CachesTyped, CredentialTypeOK
<1>8. CASE ExpireValue \/ LoseFence
  BY <1>1, <1>8 DEF ExpireValue, LoseFence, Miss, NoFence, CachesTyped, CredentialTypeOK
<1>9. CASE UNCHANGED credentialVars
  BY <1>9 DEF credentialVars, CachesTyped, CredentialTypeOK
<1>10. QED
  BY <1>3, <1>4, <1>5, <1>6, <1>7, <1>8, <1>9, CallTyped DEF CredentialNext

\* Every reachable state of the credential caches is one the code can hold, whenever a
\* fence is lost.
THEOREM CredentialTypeCorrect == CredentialSpec => []CredentialTypeOK
<1>1. CredentialInit => CachesTyped
  BY CacheInitInv DEF CacheInv, CachesTyped, CredentialInit
<1>2. CachesTyped /\ [CredentialNext]_credentialVars => CachesTyped'
  BY CachesNextTyped
<1>3. CachesTyped => CredentialTypeOK
  BY DEF CachesTyped
<1>4. QED
  BY <1>1, <1>2, <1>3, PTL DEF CredentialSpec

-----------------------------------------------------------------------------
(* The two caches side by side *)

\* The system the runs check behaves, in what is the gateway's, as the gateway does, and
\* in what is the credentials' as they do: what is proved of either holds there.
LEMMA CachesApart == CachesSpec => GatewaySpec /\ CredentialSpec
<1>1. CachesInit => GatewayInit /\ CredentialInit
  BY DEF CachesInit
<1>2. [CachesNext]_<<focus, gvars, credentialVars>>
        => [GatewayNext]_gvars /\ [CredentialNext]_credentialVars
  BY DEF CachesNext
<1>3. QED
  BY <1>1, <1>2, PTL DEF CachesSpec, GatewaySpec, CredentialSpec

\* Whichever cache a behaviour is of, its state is one its code can hold.
THEOREM CachesTypeCorrect == CachesSpec => []CachesTypeOK
<1>1. GatewayTypeOK /\ CredentialTypeOK => CachesTypeOK
  BY DEF CachesTypeOK
<1>2. QED
  BY <1>1, CachesApart, GatewayTypeCorrect, CredentialTypeCorrect, PTL
=============================================================================
