---------------------------- MODULE Control_proofs ----------------------------
(***************************************************************************)
(* Approvals, for any number of callers, requests and questions, any cap   *)
(* and any expiries: the types, one request sent per yes, one question per *)
(* request, and the list of the owner complete.                            *)
(*                                                                         *)
(* DelegationRevocation, for any number of links, exchanges and owners,    *)
(* and any lifetimes with the copy's beyond the link's: the types, the     *)
(* immediate stop, and the stop within one visa and one exchange.          *)
(*                                                                         *)
(* And the system the runs check these and the other controls in,          *)
(* MCControl: a behaviour of it is a behaviour of each.                    *)
(***************************************************************************)
EXTENDS MCControl, ChainLedgers_proofs, KillSwitch_proofs

-----------------------------------------------------------------------------
(* Approvals *)

\* The states of a question that an answer may still come of.
Standing == {"pending"} \cup Answers

\* What a call holds is a request, unless it holds none.
AskingNames == \A c \in Asking : asking[c].at = "waiting" => asking[c].fp \in Prints

ApprovalsTyped == ApprovalsTypeOK /\ AskingNames

\* A yes is used at most once, and only a yes is.
Spent(q) ==
  /\ question[q].st \in {"unasked", "pending"} => answer[q] = "none"
  /\ question[q].st = "approved" => answer[q] = "approved" /\ admitted[q] = 0
  /\ answer[q] # "approved" => admitted[q] = 0
  /\ admitted[q] <= 1

\* A question still standing is the one its request points to, for as long.
Reached(q) ==
  question[q].st \in Standing /\ now < question[q].until =>
     /\ question[q].fp \in Prints
     /\ pointer[question[q].fp].id = q
     /\ pointer[question[q].fp].until = question[q].until

\* A pending question is queued, and neither the purge nor the expiry of the
\* queue removes it while it lives.
Waits(q) ==
  question[q].st = "pending" /\ now < question[q].until =>
     /\ q \in queue
     /\ question[q].until = question[q].created + PendingFor
     /\ question[q].until <= queueUntil

Waiting == {q \in Questions : Lives(q) /\ question[q].st = "pending"}

ApprovalsInv ==
  /\ ApprovalsTyped
  /\ \A q \in Questions : Spent(q) /\ Reached(q) /\ Waits(q)
  /\ Cardinality(Waiting) <= MaxPending
  /\ queueUntil <= now + PendingFor

-----------------------------------------------------------------------------
\* The clock and the expiries are numbers within the bounds.
LEMMA Times ==
  /\ MaxPending \in Nat /\ LastTime \in Nat
  /\ PendingFor \in Nat \ {0} /\ ApprovedFor \in Nat \ {0} /\ DeniedFor \in Nat \ {0}
  /\ 0 \in Instants
  /\ \A t \in Instants : t \in Int /\ t >= 0
BY ApprovalsAssumption DEF Instants

\* A clock in its bounds, plus the life of a pending question, is an instant.
LEMMA Soon ==
  ASSUME now \in 0..LastTime
  PROVE  now \in Instants /\ now + PendingFor \in Instants
BY Times DEF Instants

\* Sets of questions are finite, and a smaller one has fewer.
LEMMA Counts ==
  ASSUME NEW S \in SUBSET Questions, NEW T \in SUBSET S
  PROVE  /\ IsFiniteSet(S) /\ Cardinality(S) \in Nat
         /\ Cardinality(T) \in Nat /\ Cardinality(T) <= Cardinality(S)
<1>1. IsFiniteSet(Questions)
  BY ApprovalsAssumption
<1>2. IsFiniteSet(S)
  BY <1>1, FS_Subset
<1>3. QED
  BY <1>2, FS_Subset, FS_CardinalityType

\* What each reply of CHECK_LUA says of the question the request points to.
LEMMA Replies ==
  ASSUME ApprovalsTyped, NEW fp \in Prints, NEW create \in BOOLEAN
  PROVE  LET reply == CheckReply(fp, create)
             st == StateOf(Pointed(fp))
         IN  /\ reply \in Standing \cup {"none", "full", "created"}
             /\ reply \in Standing => st = reply
             /\ reply \notin Standing => st \notin Standing
             /\ reply = "created" => ~(Cardinality(Fresh) >= MaxPending)
BY DEF CheckReply, Standing, Answers

\* A question that still stands is the one its request points to.
LEMMA Named ==
  ASSUME ApprovalsInv, NEW q \in Questions, question[q].st \in Standing, now < question[q].until
  PROVE  Pointed(question[q].fp) = q /\ StateOf(q) = question[q].st
<1>1. Reached(q) /\ q # NoQuestion
  BY ApprovalsAssumption DEF ApprovalsInv
<1>2. QED
  BY <1>1 DEF Reached, Pointed, StateOf, Lives, Standing, Answers

\* So no two stand for one request.
LEMMA NamedOnce ==
  ASSUME ApprovalsInv, NEW p \in Questions, NEW q \in Questions,
         question[p].st \in Standing, now < question[p].until,
         question[q].st \in Standing, now < question[q].until,
         question[p].fp = question[q].fp
  PROVE  p = q
BY Named

-----------------------------------------------------------------------------
\* Fewer waiting questions are still within the cap.
LEMMA FewerWait ==
  ASSUME ApprovalsInv, Waiting' \subseteq Waiting PROVE Cardinality(Waiting)' <= MaxPending
<1>1. Waiting \in SUBSET Questions /\ Waiting' \in SUBSET Waiting
  BY DEF Waiting
<1>2. Cardinality(Waiting') <= Cardinality(Waiting) /\ Cardinality(Waiting') \in Nat
      /\ Cardinality(Waiting) \in Nat
  BY <1>1, Counts
<1>3. QED
  BY <1>2, Times DEF ApprovalsInv

\* A yes found and used in one step: it was unused, and is not used again.
LEMMA UseInv ==
  ASSUME ApprovalsInv, NEW q \in Questions, Use(q), UNCHANGED <<now, answer>>,
         question[q].st = "approved", now < question[q].until
  PROVE  /\ question' \in [Questions -> Question]
         /\ pointer' \in [Prints -> [id : Questions \cup {NoQuestion}, until : Instants]]
         /\ queue' \subseteq Questions /\ queueUntil' = queueUntil
         /\ admitted' \in [Questions -> Nat]
         /\ \A p \in Questions : (Spent(p) /\ Reached(p) /\ Waits(p))'
         /\ Cardinality(Waiting)' <= MaxPending
<1> DEFINE fp == question[q].fp
           done == [question[q] EXCEPT !.st = "used"]
           off == [pointer[fp] EXCEPT !.until = 0]
<1>1. /\ question \in [Questions -> Question]
      /\ pointer \in [Prints -> [id : Questions \cup {NoQuestion}, until : Instants]]
      /\ queue \subseteq Questions /\ admitted \in [Questions -> Nat]
  BY DEF ApprovalsInv, ApprovalsTyped, ApprovalsTypeOK
<1>2. Reached(q) /\ Spent(q)
  BY DEF ApprovalsInv
<1>3. fp \in Prints
  BY <1>2 DEF Reached, Standing, Answers
<1>4. /\ question' = [question EXCEPT ![q] = done] /\ done \in Question /\ done.st = "used"
      /\ pointer' = [pointer EXCEPT ![fp] = off]
      /\ off \in [id : Questions \cup {NoQuestion}, until : Instants]
      /\ queue' = queue \ {q} /\ queueUntil' = queueUntil
      /\ admitted' = [admitted EXCEPT ![q] = @ + 1]
  BY <1>1, <1>3, Times DEF Use, Question
<1> HIDE DEF done, off
<1>5. /\ \A p \in Questions : p # q => question'[p] = question[p] /\ admitted'[p] = admitted[p]
      /\ question'[q].st = "used" /\ admitted'[q] = admitted[q] + 1
      /\ \A g \in Prints : g # fp => pointer'[g] = pointer[g]
  BY <1>1, <1>4
<1>6. ASSUME NEW p \in Questions PROVE (Spent(p) /\ Reached(p) /\ Waits(p))'
  <2>1. CASE p = q
    <3>1. answer[q] = "approved" /\ admitted[q] = 0
      BY <1>2 DEF Spent
    <3>2. QED
      BY <1>5, <2>1, <3>1 DEF Spent, Reached, Waits, Standing, Answers
  <2>2. CASE p # q
    <3>1. Spent(p) /\ Reached(p) /\ Waits(p)
      BY DEF ApprovalsInv
    <3>2. Spent(p)' /\ Waits(p)'
      BY <1>4, <1>5, <2>2, <3>1 DEF Spent, Waits
    <3>3. question[p].st \in Standing /\ now < question[p].until => question[p].fp # fp
      BY <2>2, NamedOnce DEF Standing, Answers
    <3>4. Reached(p)'
      BY <1>5, <2>2, <3>1, <3>3 DEF Reached
    <3>5. QED
      BY <3>2, <3>4
  <2>3. QED
    BY <2>1, <2>2
<1>7. Waiting' \subseteq Waiting
  BY <1>5 DEF Waiting, Lives
<1>8. Cardinality(Waiting)' <= MaxPending
  BY <1>7, FewerWait
<1>9. /\ question' \in [Questions -> Question]
      /\ pointer' \in [Prints -> [id : Questions \cup {NoQuestion}, until : Instants]]
  BY <1>1, <1>4
<1>10. queue' \subseteq Questions /\ admitted' \in [Questions -> Nat]
  BY <1>1, <1>4
<1>11. QED
  BY <1>4, <1>6, <1>8, <1>9, <1>10

\* A new question: none stood for its request, and the queue had room.
LEMMA CreateInv ==
  ASSUME ApprovalsInv, NEW q \in Questions, NEW fp \in Prints, Create(fp, q),
         UNCHANGED <<now, answer>>,
         StateOf(Pointed(fp)) \notin Standing, ~(Cardinality(Fresh) >= MaxPending)
  PROVE  /\ question' \in [Questions -> Question]
         /\ pointer' \in [Prints -> [id : Questions \cup {NoQuestion}, until : Instants]]
         /\ queue' \subseteq Questions /\ queueUntil' \in Instants
         /\ queueUntil' <= now + PendingFor
         /\ admitted' \in [Questions -> Nat]
         /\ \A p \in Questions : (Spent(p) /\ Reached(p) /\ Waits(p))'
         /\ Cardinality(Waiting)' <= MaxPending
<1> DEFINE asked == [st |-> "pending", fp |-> fp, until |-> now + PendingFor,
                     created |-> now, sent |-> FALSE]
           to == [id |-> q, until |-> now + PendingFor]
<1>1. /\ question \in [Questions -> Question]
      /\ pointer \in [Prints -> [id : Questions \cup {NoQuestion}, until : Instants]]
      /\ queue \subseteq Questions /\ admitted \in [Questions -> Nat]
      /\ now \in 0..LastTime /\ queueUntil \in Instants
  BY DEF ApprovalsInv, ApprovalsTyped, ApprovalsTypeOK
<1>2. now \in Instants /\ now + PendingFor \in Instants
  BY <1>1, Soon
<1>3. /\ asked \in Question /\ asked.st = "pending" /\ asked.fp = fp
      /\ asked.until = now + PendingFor /\ asked.created = now
      /\ to \in [id : Questions \cup {NoQuestion}, until : Instants]
      /\ to.id = q /\ to.until = now + PendingFor
  BY <1>2 DEF Question
<1>4. /\ question[q].st = "unasked"
      /\ question' = [question EXCEPT ![q] = asked]
      /\ pointer' = [pointer EXCEPT ![fp] = to]
      /\ queue' = Fresh \cup {q} /\ queueUntil' = now + PendingFor
      /\ admitted' = admitted
  BY DEF Create
<1> HIDE DEF asked, to
<1>5. /\ \A p \in Questions : p # q => question'[p] = question[p]
      /\ question'[q] = asked /\ pointer'[fp] = to
      /\ \A g \in Prints : g # fp => pointer'[g] = pointer[g]
  BY <1>1, <1>4
<1>6. Fresh \subseteq queue
  BY DEF Fresh, Queued
<1>7. Waiting \subseteq Fresh
  <2> SUFFICES ASSUME NEW p \in Waiting PROVE p \in Fresh
    OBVIOUS
  <2>1. /\ p \in Questions /\ question[p].st = "pending" /\ now < question[p].until
        /\ Waits(p) /\ question[p] \in Question
    BY <1>1 DEF Waiting, Lives, ApprovalsInv
  <2>2. question[p].until \in Int /\ question[p].created \in Int /\ now \in Int
    BY <1>1, <2>1, Times DEF Question
  <2>3. p \in queue /\ now < queueUntil /\ question[p].created > now - PendingFor
    BY <1>1, <2>1, <2>2, Times DEF Waits
  <2>4. QED
    BY <2>3 DEF Fresh, Queued
<1>8. ASSUME NEW p \in Questions PROVE (Spent(p) /\ Reached(p) /\ Waits(p))'
  <2>1. Spent(p) /\ Reached(p) /\ Waits(p)
    BY DEF ApprovalsInv
  <2>2. CASE p = q
    <3>1. answer[q] = "none"
      BY <1>4, <2>1, <2>2 DEF Spent
    <3>2. Spent(p)'
      BY <1>3, <1>4, <1>5, <2>1, <2>2, <3>1 DEF Spent
    <3>3. Reached(p)' /\ Waits(p)'
      BY <1>3, <1>4, <1>5, <2>2, <1>1, Times DEF Reached, Waits
    <3>4. QED
      BY <3>2, <3>3
  <2>3. CASE p # q
    <3>1. question[p].st \in Standing /\ now < question[p].until => question[p].fp # fp
      BY Named
    <3>2. Spent(p)' /\ Reached(p)'
      BY <1>4, <1>5, <2>1, <2>3, <3>1 DEF Spent, Reached
    <3>3. question[p].st = "pending" /\ now < question[p].until => p \in Fresh
      BY <1>7 DEF Waiting, Lives
    <3>4. question[p].until <= queueUntil => question[p].until <= now + PendingFor
      <4>1. question[p].until \in Int
        BY <1>1, Times DEF Question
      <4>2. QED
        BY <1>1, <4>1, Times DEF ApprovalsInv
    <3>5. Waits(p)'
      BY <1>4, <1>5, <2>1, <2>3, <3>3, <3>4 DEF Waits
    <3>6. QED
      BY <3>2, <3>5
  <2>4. QED
    BY <2>2, <2>3
<1>9. Cardinality(Waiting)' <= MaxPending
  <2>1. Waiting' \subseteq Fresh \cup {q}
    <3> SUFFICES ASSUME NEW p \in Waiting' PROVE p \in Fresh \cup {q}
      OBVIOUS
    <3>1. p \in Questions /\ (p # q => p \in Waiting)
      BY <1>5 DEF Waiting, Lives
    <3>2. QED
      BY <1>7, <3>1
  <2>2. Fresh \in SUBSET Questions /\ IsFiniteSet(Fresh) /\ Cardinality(Fresh) \in Nat
    BY <1>1, <1>6, Counts
  <2>3. Cardinality(Fresh \cup {q}) <= Cardinality(Fresh) + 1
        /\ Cardinality(Fresh \cup {q}) \in Nat
    <3>1. Cardinality(Fresh \cup {q}) = IF q \in Fresh THEN Cardinality(Fresh)
                                                    ELSE Cardinality(Fresh) + 1
      BY <2>2, FS_AddElement
    <3> DEFINE n == Cardinality(Fresh)
               m == Cardinality(Fresh \cup {q})
    <3>2. n \in Nat /\ (m = n \/ m = n + 1)
      BY <2>2, <3>1
    <3> HIDE DEF n, m
    <3>3. m <= n + 1 /\ m \in Nat
      BY <3>2
    <3>4. QED
      BY <3>3 DEF n, m
  <2>4. /\ Cardinality(Waiting') <= Cardinality(Fresh \cup {q})
        /\ Cardinality(Waiting') \in Nat
    <3>1. Fresh \cup {q} \in SUBSET Questions
      BY <2>2
    <3>2. QED
      BY <2>1, <3>1, Counts
  <2>5. QED
    BY <2>2, <2>3, <2>4, Times
<1>10. /\ question' \in [Questions -> Question]
       /\ pointer' \in [Prints -> [id : Questions \cup {NoQuestion}, until : Instants]]
  BY <1>1, <1>3, <1>4
<1>11. queue' \subseteq Questions /\ admitted' \in [Questions -> Nat]
  BY <1>1, <1>4, <1>6
<1>12. queueUntil' \in Instants /\ queueUntil' <= now + PendingFor
  BY <1>2, <1>4, Times
<1>13. QED
  BY <1>8, <1>9, <1>10, <1>11, <1>12

\* The pointer that is dropped led to no standing question.
LEMMA DropInv ==
  ASSUME ApprovalsInv, NEW fp \in Prints, Drop(fp), UNCHANGED <<now, answer>>,
         StateOf(Pointed(fp)) \notin Standing
  PROVE  /\ pointer' \in [Prints -> [id : Questions \cup {NoQuestion}, until : Instants]]
         /\ UNCHANGED <<question, queue, queueUntil, admitted>>
         /\ \A p \in Questions : (Spent(p) /\ Reached(p) /\ Waits(p))'
         /\ Cardinality(Waiting)' <= MaxPending
<1> DEFINE off == [pointer[fp] EXCEPT !.until = 0]
<1>1. pointer \in [Prints -> [id : Questions \cup {NoQuestion}, until : Instants]]
  BY DEF ApprovalsInv, ApprovalsTyped, ApprovalsTypeOK
<1>2. /\ pointer' = [pointer EXCEPT ![fp] = off]
      /\ off \in [id : Questions \cup {NoQuestion}, until : Instants]
      /\ UNCHANGED <<question, queue, queueUntil, admitted>>
  BY <1>1, Times DEF Drop
<1> HIDE DEF off
<1>3. ASSUME NEW p \in Questions PROVE (Spent(p) /\ Reached(p) /\ Waits(p))'
  <2>1. Spent(p) /\ Reached(p) /\ Waits(p)
    BY DEF ApprovalsInv
  <2>2. question[p].st \in Standing /\ now < question[p].until => question[p].fp # fp
    BY Named
  <2>3. QED
    BY <1>1, <1>2, <2>1, <2>2 DEF Spent, Reached, Waits
<1>4. Waiting' = Waiting
  BY <1>2 DEF Waiting, Lives
<1>5. QED
  BY <1>1, <1>2, <1>3, <1>4, FewerWait

\* CHECK_LUA, whatever it answers.
LEMMA CheckInv ==
  ASSUME ApprovalsInv, NEW fp \in Prints, NEW create \in BOOLEAN, Check(fp, create),
         UNCHANGED <<now, answer>>
  PROVE  /\ question' \in [Questions -> Question]
         /\ pointer' \in [Prints -> [id : Questions \cup {NoQuestion}, until : Instants]]
         /\ queue' \subseteq Questions /\ queueUntil' \in Instants
         /\ queueUntil' <= now + PendingFor
         /\ admitted' \in [Questions -> Nat]
         /\ \A p \in Questions : (Spent(p) /\ Reached(p) /\ Waits(p))'
         /\ Cardinality(Waiting)' <= MaxPending
<1> DEFINE reply == CheckReply(fp, create)
<1>1. /\ question \in [Questions -> Question]
      /\ pointer \in [Prints -> [id : Questions \cup {NoQuestion}, until : Instants]]
      /\ queue \subseteq Questions /\ queueUntil \in Instants /\ admitted \in [Questions -> Nat]
      /\ queueUntil <= now + PendingFor
      /\ ApprovalsTyped
  BY DEF ApprovalsInv, ApprovalsTyped, ApprovalsTypeOK
<1>2. /\ reply \in Standing => StateOf(Pointed(fp)) = reply
      /\ reply \notin Standing => StateOf(Pointed(fp)) \notin Standing
      /\ reply = "created" => ~(Cardinality(Fresh) >= MaxPending)
  BY <1>1, Replies
<1> HIDE DEF reply
<1>3. CASE reply = "approved" /\ Use(Pointed(fp))
  <2>1. StateOf(Pointed(fp)) = "approved"
    BY <1>2, <1>3 DEF Standing, Answers
  <2>2. /\ Pointed(fp) \in Questions
        /\ question[Pointed(fp)].st = "approved" /\ now < question[Pointed(fp)].until
    <3>1. Pointed(fp) # NoQuestion /\ Lives(Pointed(fp)) /\ question[Pointed(fp)].st = "approved"
      BY <2>1 DEF StateOf
    <3>2. Pointed(fp) \in Questions
      BY <1>1, <3>1 DEF Pointed
    <3>3. QED
      BY <3>1, <3>2 DEF Lives
  <2>3. QED
    BY <1>1, <1>3, <2>2, UseInv
<1>4. CASE reply = "created" /\ \E q \in Questions : Create(fp, q)
  BY <1>2, <1>4, CreateInv DEF Standing, Answers
<1>5. CASE reply \in {"none", "full"} /\ Drop(fp)
  BY <1>1, <1>2, <1>5, DropInv DEF Standing, Answers
<1>6. CASE UNCHANGED <<question, pointer, queue, queueUntil, admitted>>
  <2>1. \A p \in Questions : (Spent(p) /\ Reached(p) /\ Waits(p))'
    BY <1>6 DEF ApprovalsInv, Spent, Reached, Waits
  <2>2. Waiting' = Waiting
    BY <1>6 DEF Waiting, Lives
  <2>3. QED
    BY <1>1, <1>6, <2>1, <2>2, FewerWait
<1>7. QED
  BY <1>3, <1>4, <1>5, <1>6 DEF Check, reply

-----------------------------------------------------------------------------
\* Asking for the first time, and asking again while waiting.
LEMMA AskInv ==
  ASSUME ApprovalsInv, NEW c \in Asking,
         Poll(c) \/ \E fp \in Prints, create \in BOOLEAN : Ask(c, fp, create)
  PROVE  ApprovalsInv'
<1>1. PICK fp \in Prints, create \in BOOLEAN :
         /\ Check(fp, create) /\ UNCHANGED <<now, answer>>
         /\ \/ asking' = [asking EXCEPT ![c] = Goes(fp, CheckReply(fp, create))]
            \/ asking' = [asking EXCEPT ![c] = NotAsking]
  BY DEF Ask, Poll, ApprovalsInv, ApprovalsTyped, AskingNames
<1>2. /\ NotAsking \in [at : {"idle", "waiting"}, fp : Prints \cup {NoPrint}]
      /\ NotAsking.at = "idle"
  BY DEF NotAsking
<1>3. \A reply : /\ Goes(fp, reply) \in [at : {"idle", "waiting"}, fp : Prints \cup {NoPrint}]
                 /\ Goes(fp, reply).at = "waiting" => Goes(fp, reply).fp \in Prints
  BY <1>2 DEF Goes
<1>4. asking' \in [Asking -> [at : {"idle", "waiting"}, fp : Prints \cup {NoPrint}]]
      /\ AskingNames'
  BY <1>1, <1>2, <1>3 DEF ApprovalsInv, ApprovalsTyped, ApprovalsTypeOK, AskingNames
<1>5. QED
  BY <1>1, <1>4, CheckInv DEF ApprovalsInv, ApprovalsTyped, ApprovalsTypeOK

\* Sending the prompt answers nothing.
LEMMA AttachInv ==
  ASSUME ApprovalsInv, NEW q \in Questions, Attach(q) PROVE ApprovalsInv'
<1> DEFINE sent == [question[q] EXCEPT !.sent = TRUE]
<1>1. /\ question \in [Questions -> Question]
      /\ question' = [question EXCEPT ![q] = sent]
      /\ UNCHANGED <<now, pointer, queue, queueUntil, asking, answer, admitted>>
  BY DEF Attach, ApprovalsInv, ApprovalsTyped, ApprovalsTypeOK
<1>2. /\ sent \in Question /\ sent.st = question[q].st /\ sent.fp = question[q].fp
      /\ sent.until = question[q].until /\ sent.created = question[q].created
  BY <1>1 DEF Question
<1> HIDE DEF sent
<1>3. \A p \in Questions : /\ question'[p] \in Question
                           /\ question'[p].st = question[p].st
                           /\ question'[p].fp = question[p].fp
                           /\ question'[p].until = question[p].until
                           /\ question'[p].created = question[p].created
  BY <1>1, <1>2
<1>4. ApprovalsTyped'
  BY <1>1, <1>2 DEF ApprovalsInv, ApprovalsTyped, ApprovalsTypeOK, AskingNames
<1>5. \A p \in Questions : (Spent(p) /\ Reached(p) /\ Waits(p))'
  BY <1>1, <1>3 DEF ApprovalsInv, Spent, Reached, Waits
<1>6. Waiting' = Waiting
  BY <1>1, <1>3 DEF Waiting, Lives
<1>7. QED
  BY <1>1, <1>4, <1>5, <1>6, FewerWait DEF ApprovalsInv

\* An answer takes its question off the list and makes the pointer last as long.
LEMMA DecideInv ==
  ASSUME ApprovalsInv, NEW q \in Questions, NEW decision \in Answers, NEW tapped \in BOOLEAN,
         Decide(q, decision, tapped)
  PROVE  ApprovalsInv'
<1> DEFINE fp == question[q].fp
           until == now + AnswerFor(decision)
           done == [question[q] EXCEPT !.st = decision, !.until = until]
           to == [id |-> q, until |-> until]
<1>1. /\ question \in [Questions -> Question]
      /\ pointer \in [Prints -> [id : Questions \cup {NoQuestion}, until : Instants]]
      /\ queue \subseteq Questions /\ answer \in [Questions -> Answers \cup {"none"}]
      /\ now \in 0..LastTime
  BY DEF ApprovalsInv, ApprovalsTyped, ApprovalsTypeOK
<1>2. /\ question[q].st = "pending" /\ now < question[q].until
      /\ Spent(q) /\ Reached(q)
  BY DEF Decide, Lives, ApprovalsInv
<1>3. fp \in Prints
  BY <1>2 DEF Reached, Standing
<1>4. until \in Instants
  BY <1>1, Times DEF AnswerFor, Instants
<1>5. /\ question' = [question EXCEPT ![q] = done]
      /\ pointer' = [pointer EXCEPT ![fp] = to]
      /\ queue' = queue \ {q} /\ answer' = [answer EXCEPT ![q] = decision]
      /\ UNCHANGED <<now, queueUntil, asking, admitted>>
  BY <1>1 DEF Decide, Redirect
<1> HIDE DEF until
<1>6. /\ done \in Question /\ done.st = decision /\ done.fp = fp /\ done.until = until
      /\ to \in [id : Questions \cup {NoQuestion}, until : Instants]
      /\ to.id = q /\ to.until = until
  BY <1>1, <1>4 DEF Question, Answers
<1> HIDE DEF done, to
<1>7. /\ \A p \in Questions : p # q => question'[p] = question[p] /\ answer'[p] = answer[p]
      /\ question'[q] = done /\ answer'[q] = decision
      /\ pointer'[fp] = to
      /\ \A g \in Prints : g # fp => pointer'[g] = pointer[g]
  BY <1>1, <1>3, <1>5
<1>8. ApprovalsTyped'
  BY <1>5, <1>6 DEF ApprovalsInv, ApprovalsTyped, ApprovalsTypeOK, AskingNames
<1>9. ASSUME NEW p \in Questions PROVE (Spent(p) /\ Reached(p) /\ Waits(p))'
  <2>1. Spent(p) /\ Reached(p) /\ Waits(p)
    BY DEF ApprovalsInv
  <2>2. CASE p = q
    <3>1. admitted[q] = 0
      BY <1>2 DEF Spent
    <3>2. decision \in {"approved", "denied"}
      BY DEF Answers
    <3>3. QED
      BY <1>3, <1>5, <1>6, <1>7, <2>2, <3>1, <3>2 DEF Spent, Reached, Waits
  <2>3. CASE p # q
    <3>1. question[p].st \in Standing /\ now < question[p].until => question[p].fp # fp
      BY <1>2, <2>3, NamedOnce DEF Standing
    <3>2. QED
      BY <1>5, <1>7, <2>1, <2>3, <3>1 DEF Spent, Reached, Waits
  <2>4. QED
    BY <2>2, <2>3
<1>10. Waiting' \subseteq Waiting
  <2>1. decision # "pending"
    BY DEF Answers
  <2>2. QED
    BY <1>5, <1>6, <1>7, <2>1 DEF Waiting, Lives
<1>11. QED
  BY <1>5, <1>8, <1>9, <1>10, FewerWait DEF ApprovalsInv

\* Time only lets questions lapse.
LEMMA PassesInv == ASSUME ApprovalsInv, Passes PROVE ApprovalsInv'
<1>1. /\ now \in 0..LastTime /\ now' \in 0..LastTime /\ now' = now + 1
      /\ queueUntil \in Int
      /\ UNCHANGED <<question, pointer, queue, queueUntil, asking, answer, admitted>>
  BY Times DEF Passes, ApprovalsInv, ApprovalsTyped, ApprovalsTypeOK
<1>2. \A q \in Questions : question[q].until \in Int
  BY Times DEF ApprovalsInv, ApprovalsTyped, ApprovalsTypeOK, Question
<1>3. \A q \in Questions : now' < question'[q].until => now < question[q].until
  BY <1>1, <1>2
<1>4. ApprovalsTyped'
  BY <1>1 DEF ApprovalsInv, ApprovalsTyped, ApprovalsTypeOK, AskingNames
<1>5. \A p \in Questions : (Spent(p) /\ Reached(p) /\ Waits(p))'
  BY <1>1, <1>3 DEF ApprovalsInv, Spent, Reached, Waits
<1>6. Waiting' \subseteq Waiting
  BY <1>1, <1>3 DEF Waiting, Lives
<1>7. queueUntil' <= now' + PendingFor
  BY <1>1, Times DEF ApprovalsInv
<1>8. QED
  BY <1>4, <1>5, <1>6, <1>7, FewerWait DEF ApprovalsInv

\* Nothing has been asked: the empty queue meets the invariant.
LEMMA ApprovalsInitInv == ApprovalsInit => ApprovalsInv
<1> SUFFICES ASSUME ApprovalsInit PROVE ApprovalsInv
  OBVIOUS
<1>1. ApprovalsTyped
  BY Times DEF ApprovalsInit, ApprovalsTyped, ApprovalsTypeOK, AskingNames, NotAsking, Question
<1>2. \A q \in Questions : Spent(q) /\ Reached(q) /\ Waits(q)
  BY DEF ApprovalsInit, Spent, Reached, Waits, Standing, Answers
<1>3. Waiting = {}
  BY DEF ApprovalsInit, Waiting
<1>4. Cardinality(Waiting) <= MaxPending /\ queueUntil <= now + PendingFor
  BY <1>3, FS_EmptySet, Times DEF ApprovalsInit
<1>5. QED
  BY <1>1, <1>2, <1>4 DEF ApprovalsInv

\* The invariant holds in every reachable state, whatever expires and however the fetches interleave.
LEMMA ApprovalsInvariance == ApprovalsSpec => []ApprovalsInv
<1>1. ASSUME ApprovalsInv, [ApprovalsNext]_approvalVars PROVE ApprovalsInv'
  <2>1. CASE UNCHANGED approvalVars
    <3>1. Waiting' = Waiting
      BY <2>1 DEF approvalVars, Waiting, Lives
    <3>2. QED
      BY <1>1, <2>1, <3>1 DEF approvalVars, ApprovalsInv, ApprovalsTyped, ApprovalsTypeOK, AskingNames,
                              Spent, Reached, Waits
  <2>2. QED
    BY <1>1, <2>1, AskInv, AttachInv, DecideInv, PassesInv DEF ApprovalsNext
<1>2. QED
  BY <1>1, ApprovalsInitInv, PTL DEF ApprovalsSpec

\* Every reachable state is well typed.
THEOREM ApprovalsTypeCorrect == ApprovalsSpec => []ApprovalsTypeOK
<1>1. ApprovalsInv => ApprovalsTypeOK
  BY DEF ApprovalsInv, ApprovalsTyped
<1>2. QED
  BY <1>1, ApprovalsInvariance, PTL

\* One yes of the owner sends one request, however many callers ask at once, and
\* nothing else is sent (CHECK_LUA), for any number of callers and any expiries.
THEOREM OneSendPerYes == ApprovalsSpec => []YesSendsOnce
<1>1. ApprovalsInv => YesSendsOnce
  <2> SUFFICES ASSUME ApprovalsInv, NEW q \in Questions
               PROVE  admitted[q] <= (IF answer[q] = "approved" THEN 1 ELSE 0)
    BY DEF YesSendsOnce
  <2>1. Spent(q)
    BY DEF ApprovalsInv
  <2>2. QED
    BY <2>1 DEF Spent
<1>2. QED
  BY <1>1, ApprovalsInvariance, PTL

\* While an answer stands, or is awaited, no second question is put to the owner
\* for the same request (CHECK_LUA, DECIDE_LUA).
THEOREM OneQuestionAtATime == ApprovalsSpec => []OneQuestionPerRequest
<1>1. ApprovalsInv => OneQuestionPerRequest
  <2>1. ApprovalsInv =>
           \A q \in Questions : Lives(q) /\ question[q].st # "used" => question[q].st \in Standing
    BY DEF ApprovalsInv, ApprovalsTyped, ApprovalsTypeOK, Question, Standing, Lives
  <2>2. QED
    BY <2>1, NamedOnce DEF OneQuestionPerRequest, Lives
<1>2. QED
  BY <1>1, ApprovalsInvariance, PTL

\* The owner's list shows every pending question, and never more than the cap
\* (CHECK_LUA's purge, count and add).
THEOREM ListIsComplete == ApprovalsSpec => []PendingAreListed
<1>1. ApprovalsInv => PendingAreListed
  <2> SUFFICES ASSUME ApprovalsInv PROVE PendingAreListed
    OBVIOUS
  <2>1. Waiting \subseteq Queued
    <3> SUFFICES ASSUME NEW q \in Waiting PROVE q \in Queued
      OBVIOUS
    <3>1. /\ q \in Questions /\ question[q].st = "pending" /\ now < question[q].until
          /\ Waits(q)
      BY DEF Waiting, Lives, ApprovalsInv
    <3>2. question[q].until \in Int /\ queueUntil \in Int /\ now \in Int
      BY <3>1, Times DEF ApprovalsInv, ApprovalsTyped, ApprovalsTypeOK, Question
    <3>3. now < queueUntil /\ q \in queue
      BY <3>1, <3>2 DEF Waits
    <3>4. QED
      BY <3>3 DEF Queued
  <2>2. QED
    BY <2>1 DEF PendingAreListed, Waiting, ApprovalsInv
<1>2. QED
  BY <1>1, ApprovalsInvariance, PTL

-----------------------------------------------------------------------------
(* Delegation and its revocation *)

\* Lifetimes and clocks are integers, and nothing is issued, read or asked for
\* in the future.
LEMMA Lifetimes ==
  /\ LinkFor \in Nat /\ VisaFor \in Nat /\ CopyFor \in Nat /\ ExchangeFor \in Nat
  /\ LastSecond \in Nat /\ CopyFor > LinkFor /\ NoDelegation \notin Delegations
  /\ 0 \in Seconds /\ 0 \in Later /\ NotYet = -1
  /\ Seconds \subseteq Later
  /\ \A s \in Seconds : s \in Int /\ s >= 0
  /\ \A s \in Later : s \in Int /\ s >= 0
BY RevocationAssumption DEF Seconds, Later, NotYet

\* The blank records are records of their kinds.
LEMMA Blanks ==
  /\ NoExchange \in [link : Delegations \cup {NoDelegation}, since : Seconds]
  /\ NoExchange.link = NoDelegation
  /\ NoRequest \in [link : Delegations \cup {NoDelegation}, mark : Seconds \cup {NotYet},
                    recorded : BOOLEAN]
  /\ NoRequest.link = NoDelegation /\ NoRequest.mark = NotYet
BY Lifetimes DEF NoExchange, NoRequest

-----------------------------------------------------------------------------
(* What keeps revocations in force *)

\* An exchange in flight carries a link that was issued, read no longer ago than
\* an exchange takes; a visa outlives neither its own span nor its link.
Held(w) ==
  worker[w] # NoExchange =>
     /\ worker[w].link \in Delegations
     /\ issued[worker[w].link] # NotYet
     /\ worker[w].since <= second
     /\ second <= worker[w].since + ExchangeFor

Visas(l) ==
  /\ issued[l] <= second
  /\ visaUntil[l] <= second + VisaFor
  /\ visaUntil[l] > 0 => issued[l] # NotYet /\ visaUntil[l] <= issued[l] + LinkFor

\* A revocation under way has its row, and its clock is not ahead.
Asked(o) ==
  /\ owner[o].link # NoDelegation => owner[o].link \in revoked
  /\ owner[o].mark <= second

\* A link the proxy must already refuse is below the copied mark, or its key
\* outlasts every visa that was or is being made of it.
InUse(l) == visaUntil[l] > 0 \/ \E w \in Workers : worker[w] # NoExchange /\ worker[w].link = l

Covered(l) ==
  l \in copySurvives =>
     \/ issued[l] # NotYet /\ issued[l] <= copiedMark
     \/ l \in revoked /\ (InUse(l) => issued[l] + LinkFor <= copied[l])

\* A dead link is refused by the record, the exchanges that still carry it read
\* before it died, and so its visas end in time.
Dying(l) ==
  deadSince[l] # NotYet =>
     /\ l \in revoked \/ (issued[l] # NotYet /\ issued[l] <= watermark)
     /\ \A w \in Workers : worker[w] # NoExchange /\ worker[w].link = l
                            => worker[w].since <= deadSince[l]
     /\ visaUntil[l] <= deadSince[l] + VisaFor + ExchangeFor

RevocationInv ==
  /\ RevocationTypeOK
  /\ \A w \in Workers : Held(w)
  /\ \A o \in Owners : Asked(o)
  /\ \A l \in Delegations : Visas(l) /\ Covered(l) /\ Dying(l)

-----------------------------------------------------------------------------
\* No worker and no revocation: the invariant holds at the start.
LEMMA RevocationInitInv == RevocationInit => RevocationInv
<1> SUFFICES ASSUME RevocationInit PROVE RevocationInv
  OBVIOUS
<1>1. RevocationTypeOK
  BY Lifetimes, Blanks DEF RevocationInit, RevocationTypeOK
<1>2. QED
  BY <1>1, Lifetimes, Blanks
     DEF RevocationInit, RevocationInv, Held, Asked, Visas, Covered, Dying, InUse

\* Signing a link disturbs nothing: no visa and no exchange carries it yet.
LEMMA DelegateInv ==
  ASSUME RevocationInv, NEW k \in Delegations, Delegate(k) PROVE RevocationInv'
<1>1. RevocationTypeOK'
  BY DEF Delegate, RevocationInv, RevocationTypeOK
<1>2. /\ issued[k] = NotYet /\ issued'[k] = second
      /\ \A l \in Delegations : l # k => issued'[l] = issued[l]
      /\ UNCHANGED <<second, revoked, watermark, copied, copiedMark, worker, owner,
                     visaUntil, deadSince, copySurvives>>
  BY DEF Delegate, RevocationInv, RevocationTypeOK
<1>3. second \in Seconds /\ second # NotYet
  BY Lifetimes DEF RevocationInv, RevocationTypeOK
<1>4. \A w \in Workers : Held(w)'
  BY <1>2, <1>3 DEF RevocationInv, Held
<1>5. \A o \in Owners : Asked(o)'
  BY <1>2 DEF RevocationInv, Asked
<1>6. ASSUME NEW l \in Delegations PROVE (Visas(l) /\ Covered(l) /\ Dying(l))'
  <2>1. CASE l # k
    BY <1>2, <2>1 DEF RevocationInv, Visas, Covered, Dying, InUse
  <2>2. CASE l = k
    <3>1. ~(visaUntil[k] > 0) /\ ~InUse(k)
      BY <1>2 DEF RevocationInv, Visas, InUse, Held
    <3>2. Visas(l)'
      BY <1>2, <1>3, <2>2, <3>1, Lifetimes DEF RevocationInv, Visas
    <3>3. Covered(l)' /\ Dying(l)'
      BY <1>2, <2>2, <3>1 DEF RevocationInv, Covered, Dying, InUse
    <3>4. QED
      BY <3>2, <3>3
  <2>3. QED
    BY <2>1, <2>2
<1>7. QED
  BY <1>1, <1>4, <1>5, <1>6 DEF RevocationInv

\* An exchange that reads the record now carries no dead link.
LEMMA ReadRecordInv ==
  ASSUME RevocationInv, NEW v \in Workers, NEW k \in Delegations, ReadRecord(v, k)
  PROVE  RevocationInv'
<1> DEFINE read == [link |-> k, since |-> second]
<1>1. /\ read \in [link : Delegations \cup {NoDelegation}, since : Seconds]
      /\ read.link = k /\ read.since = second
  BY DEF RevocationInv, RevocationTypeOK
<1>2. /\ issued[k] # NotYet /\ k \notin revoked /\ ~(issued[k] <= watermark)
      /\ worker' = [worker EXCEPT ![v] = read]
      /\ UNCHANGED <<second, issued, revoked, watermark, copied, copiedMark, owner,
                     visaUntil, deadSince, copySurvives>>
  BY DEF ReadRecord, Valid, RecordRevokes
<1> HIDE DEF read
<1>3. RevocationTypeOK'
  BY <1>1, <1>2 DEF RevocationInv, RevocationTypeOK
<1>4. \A w \in Workers : worker'[w] = IF w = v THEN read ELSE worker[w]
  BY <1>2 DEF RevocationInv, RevocationTypeOK
<1>5. \A w \in Workers : Held(w)'
  BY <1>1, <1>2, <1>4, Lifetimes DEF RevocationInv, RevocationTypeOK, Held
<1>6. \A o \in Owners : Asked(o)'
  BY <1>2 DEF RevocationInv, Asked
<1>7. ASSUME NEW l \in Delegations PROVE (Visas(l) /\ Covered(l) /\ Dying(l))'
  <2>1. Visas(l)'
    BY <1>2 DEF RevocationInv, Visas
  <2>2. Covered(l)' /\ Dying(l)'
    BY <1>1, <1>2, <1>4 DEF RevocationInv, Covered, Dying, InUse
  <2>3. QED
    BY <2>1, <2>2
<1>8. QED
  BY <1>3, <1>5, <1>6, <1>7 DEF RevocationInv

\* A visa ends with its link, and soon after the read behind it.
LEMMA MintInv ==
  ASSUME RevocationInv, NEW v \in Workers, Mint(v) PROVE RevocationInv'
<1> DEFINE k == worker[v].link
           span == Smaller(second + VisaFor, issued[k] + LinkFor)
<1>1. /\ worker[v] # NoExchange
      /\ k \in Delegations /\ issued[k] # NotYet
      /\ worker[v].since <= second /\ second <= worker[v].since + ExchangeFor
      /\ worker[v].since \in Seconds
      /\ second \in Seconds /\ issued[k] \in Seconds
      /\ issued[k] <= second
  BY DEF Mint, RevocationInv, RevocationTypeOK, Held, Visas
<1>2. /\ span \in Later
      /\ span <= second + VisaFor /\ span <= issued[k] + LinkFor
  BY <1>1, Lifetimes DEF Smaller, Seconds, Later
<1>3. /\ worker' = [worker EXCEPT ![v] = NoExchange]
      /\ visaUntil' \in {visaUntil, [visaUntil EXCEPT ![k] = span]}
      /\ UNCHANGED <<second, issued, revoked, watermark, copied, copiedMark, owner,
                     deadSince, copySurvives>>
  BY DEF Mint
<1> HIDE DEF span
<1>4. RevocationTypeOK'
  BY <1>2, <1>3, Blanks DEF RevocationInv, RevocationTypeOK
<1>5. /\ \A w \in Workers : worker'[w] = IF w = v THEN NoExchange ELSE worker[w]
      /\ \A l \in Delegations : visaUntil'[l] = visaUntil[l] \/ (l = k /\ visaUntil'[l] = span)
  BY <1>3 DEF RevocationInv, RevocationTypeOK
<1>6. \A w \in Workers : Held(w)'
  BY <1>3, <1>5 DEF RevocationInv, Held
<1>7. \A o \in Owners : Asked(o)'
  BY <1>3 DEF RevocationInv, Asked
<1>8. ASSUME NEW l \in Delegations PROVE (Visas(l) /\ Covered(l) /\ Dying(l))'
  <2>1. CASE visaUntil'[l] = visaUntil[l]
    BY <1>3, <1>5, <2>1 DEF RevocationInv, Visas, Covered, Dying, InUse
  <2>2. CASE l = k /\ visaUntil'[l] = span
    <3>1. InUse(k)
      BY <1>1 DEF InUse
    <3>2. Visas(l)'
      BY <1>1, <1>2, <1>3, <2>2 DEF RevocationInv, Visas
    <3>3. Covered(l)'
      BY <1>3, <2>2, <3>1 DEF RevocationInv, Covered
    <3>4. deadSince[k] # NotYet => span <= deadSince[k] + VisaFor + ExchangeFor
      <4>1. deadSince[k] \in Seconds \cup {NotYet}
        BY <1>1 DEF RevocationInv, RevocationTypeOK
      <4>2. deadSince[k] # NotYet => worker[v].since <= deadSince[k]
        BY <1>1 DEF RevocationInv, Dying
      <4>3. /\ span \in Int /\ second \in Int /\ worker[v].since \in Int /\ VisaFor \in Int
            /\ ExchangeFor \in Int /\ (deadSince[k] # NotYet => deadSince[k] \in Int)
        BY <1>1, <1>2, <4>1, Lifetimes
      <4>4. span <= second + VisaFor /\ second <= worker[v].since + ExchangeFor
        BY <1>1, <1>2
      <4>5. QED
        BY <4>2, <4>3, <4>4
    <3>5. Dying(l)'
      BY <1>3, <1>5, <2>2, <3>4 DEF RevocationInv, Dying
    <3>6. QED
      BY <3>2, <3>3, <3>5
  <2>3. QED
    BY <1>5, <2>1, <2>2
<1>9. QED
  BY <1>4, <1>6, <1>7, <1>8 DEF RevocationInv

\* Links that die now die in time: a visa lasts VisaFor from its mint, and an
\* exchange under way read the record no later than now.
LEMMA DeadInv ==
  ASSUME RevocationInv, NEW dead, Dead(dead), NEW l \in Delegations,
         UNCHANGED <<second, issued, worker, visaUntil>>,
         revoked \subseteq revoked', watermark <= watermark',
         watermark' \in Seconds \cup {NotYet},
         l \in dead => l \in revoked' \/ (issued[l] # NotYet /\ issued[l] <= watermark')
  PROVE  Dying(l)' /\ deadSince' \in [Delegations -> Seconds \cup {NotYet}]
<1>1. deadSince' \in [Delegations -> Seconds \cup {NotYet}]
  BY DEF Dead, RevocationInv, RevocationTypeOK
<1>2. deadSince'[l] = IF l \in dead /\ deadSince[l] = NotYet THEN second ELSE deadSince[l]
  BY DEF Dead
<1>3. /\ second \in Seconds /\ visaUntil[l] \in Later
      /\ watermark \in Seconds \cup {NotYet} /\ issued[l] \in Seconds \cup {NotYet}
  BY DEF RevocationInv, RevocationTypeOK
<1>4. CASE l \in dead /\ deadSince[l] = NotYet
  <2>1. visaUntil[l] <= second + VisaFor + ExchangeFor
    BY <1>3, Lifetimes DEF RevocationInv, Visas
  <2>2. \A w \in Workers : worker[w] # NoExchange => worker[w].since <= second
    BY DEF RevocationInv, Held
  <2>3. QED
    BY <1>1, <1>2, <1>4, <2>1, <2>2 DEF Dying
<1>5. CASE ~(l \in dead /\ deadSince[l] = NotYet)
  <2>1. issued[l] <= watermark => issued[l] <= watermark'
    BY <1>3, Lifetimes
  <2>2. QED
    BY <1>1, <1>2, <1>5, <2>1 DEF RevocationInv, Dying
<1>6. QED
  BY <1>4, <1>5

\* The owner's steps, which record an instant and copy it to the fast store, keep the invariant.
LEMMA OwnerInv ==
  ASSUME RevocationInv, NEW o \in Owners,
         (\E k \in Delegations : RevokeOne(o, k)) \/ RevokeAll(o) \/ RecordMark(o)
  PROVE  RevocationInv'
<1>1. /\ second \in Seconds /\ watermark \in Seconds \cup {NotYet}
      /\ owner[o] \in [link : Delegations \cup {NoDelegation}, mark : Seconds \cup {NotYet},
                       recorded : BOOLEAN]
  BY DEF RevocationInv, RevocationTypeOK
<1>2. ASSUME NEW k \in Delegations, RevokeOne(o, k) PROVE RevocationInv'
  <2> DEFINE request == [link |-> k, mark |-> NotYet, recorded |-> TRUE]
  <2>1. /\ request \in [link : Delegations \cup {NoDelegation}, mark : Seconds \cup {NotYet},
                        recorded : BOOLEAN]
        /\ request.link = k /\ request.mark = NotYet
    OBVIOUS
  <2>2. /\ revoked' = revoked \cup {k} /\ Dead({k})
        /\ owner' = [owner EXCEPT ![o] = request]
        /\ UNCHANGED <<second, issued, watermark, copied, copiedMark, worker, visaUntil,
                       copySurvives>>
    BY <1>2 DEF RevokeOne
  <2> HIDE DEF request
  <2>3. watermark <= watermark'
    BY <1>1, <2>2, Lifetimes
  <2>4. \A l \in Delegations : Dying(l)'
    BY <1>1, <2>2, <2>3, DeadInv
  <2>5. RevocationTypeOK'
    BY <2>1, <2>2 DEF Dead, RevocationInv, RevocationTypeOK
  <2>6. \A p \in Owners : Asked(p)'
    BY <1>1, <2>1, <2>2, Lifetimes DEF RevocationInv, RevocationTypeOK, Asked
  <2>7. \A w \in Workers : Held(w)'
    BY <2>2 DEF RevocationInv, Held
  <2>8. \A l \in Delegations : Visas(l)' /\ Covered(l)'
    BY <2>2 DEF RevocationInv, Visas, Covered, InUse
  <2>9. QED
    BY <2>4, <2>5, <2>6, <2>7, <2>8 DEF RevocationInv
<1>3. CASE RevokeAll(o)
  <2> DEFINE request == [link |-> NoDelegation, mark |-> second, recorded |-> FALSE]
  <2>1. /\ request \in [link : Delegations \cup {NoDelegation}, mark : Seconds \cup {NotYet},
                        recorded : BOOLEAN]
        /\ request.link = NoDelegation /\ request.mark = second
    BY <1>1
  <2>2. /\ owner' = [owner EXCEPT ![o] = request]
        /\ UNCHANGED <<second, issued, revoked, watermark, copied, copiedMark, worker, visaUntil,
                       deadSince, copySurvives>>
    BY <1>3 DEF RevokeAll
  <2> HIDE DEF request
  <2>3. RevocationTypeOK'
    BY <2>1, <2>2 DEF RevocationInv, RevocationTypeOK
  <2>4. \A p \in Owners : Asked(p)'
    BY <1>1, <2>1, <2>2, Lifetimes DEF RevocationInv, RevocationTypeOK, Asked
  <2>5. QED
    BY <2>2, <2>3, <2>4 DEF RevocationInv, Held, Visas, Covered, Dying, InUse
<1>4. CASE RecordMark(o)
  <2> DEFINE mark == owner[o].mark
             done == [owner[o] EXCEPT !.recorded = TRUE]
             under == {l \in Delegations : issued[l] # NotYet /\ issued[l] <= mark}
  <2>1. CASE owner' = [owner EXCEPT ![o] = NoRequest] /\ UNCHANGED <<watermark, deadSince>>
    <3>1. UNCHANGED <<second, issued, revoked, watermark, copied, copiedMark, worker, visaUntil,
                      deadSince, copySurvives>>
      BY <1>4, <2>1 DEF RecordMark
    <3>2. RevocationTypeOK'
      BY <2>1, <3>1, Blanks DEF RevocationInv, RevocationTypeOK
    <3>3. \A p \in Owners : Asked(p)'
      BY <1>1, <2>1, <3>1, Blanks, Lifetimes DEF RevocationInv, RevocationTypeOK, Asked
    <3>4. QED
      BY <3>1, <3>2, <3>3 DEF RevocationInv, Held, Visas, Covered, Dying, InUse
  <2>2. CASE /\ mark >= watermark /\ watermark' = mark /\ Dead(under)
             /\ owner' = [owner EXCEPT ![o] = done]
    <3>1. UNCHANGED <<second, issued, revoked, copied, copiedMark, worker, visaUntil, copySurvives>>
      BY <1>4 DEF RecordMark
    <3>2. /\ done \in [link : Delegations \cup {NoDelegation}, mark : Seconds \cup {NotYet},
                       recorded : BOOLEAN]
          /\ done.link = owner[o].link /\ done.mark = owner[o].mark
          /\ mark \in Seconds \cup {NotYet}
      BY <1>1
    <3> HIDE DEF done
    <3>3. watermark <= watermark' /\ watermark' \in Seconds \cup {NotYet}
      BY <1>1, <2>2, <3>2, Lifetimes
    <3>4. \A l \in Delegations : Dying(l)'
      BY <2>2, <3>1, <3>3, DeadInv
    <3>5. RevocationTypeOK'
      BY <2>2, <3>1, <3>2, <3>3 DEF Dead, RevocationInv, RevocationTypeOK
    <3>6. \A p \in Owners : Asked(p)'
      BY <2>2, <3>1, <3>2 DEF RevocationInv, RevocationTypeOK, Asked
    <3>7. \A w \in Workers : Held(w)'
      BY <3>1 DEF RevocationInv, Held
    <3>8. \A l \in Delegations : Visas(l)' /\ Covered(l)'
      BY <3>1 DEF RevocationInv, Visas, Covered, InUse
    <3>9. QED
      BY <3>4, <3>5, <3>6, <3>7, <3>8 DEF RevocationInv
  <2>3. QED
    BY <1>4, <2>1, <2>2 DEF RecordMark
<1>5. QED
  BY <1>2, <1>3, <1>4

\* The copy covers what was recorded: its key outlives any link issued so far,
\* and the mark only rises.
LEMMA CopyInv ==
  ASSUME RevocationInv, NEW o \in Owners, CopyOne(o) \/ CopyMark(o)
  PROVE  RevocationInv'
<1>1. /\ UNCHANGED <<second, issued, revoked, watermark, worker, visaUntil, deadSince>>
      /\ owner' = [owner EXCEPT ![o] = NoRequest]
  BY DEF CopyOne, CopyMark
<1>2. /\ second \in Seconds /\ copiedMark \in Seconds \cup {NotYet}
      /\ owner[o] \in [link : Delegations \cup {NoDelegation}, mark : Seconds \cup {NotYet},
                       recorded : BOOLEAN]
      /\ \A l \in Delegations : issued[l] \in Seconds \cup {NotYet}
  BY DEF RevocationInv, RevocationTypeOK
<1>3. \A w \in Workers : Held(w)'
  BY <1>1 DEF RevocationInv, Held
<1>4. \A p \in Owners : Asked(p)'
  BY <1>1, <1>2, Blanks, Lifetimes DEF RevocationInv, RevocationTypeOK, Asked
<1>5. \A l \in Delegations : Visas(l)' /\ Dying(l)'
  BY <1>1 DEF RevocationInv, Visas, Dying
<1>6. \A l \in Delegations : InUse(l)' <=> InUse(l)
  BY <1>1 DEF InUse
<1>7. CASE CopyOne(o)
  <2> DEFINE k == owner[o].link
  <2>1. k \in Delegations /\ k \in revoked /\ copiedMark' = copiedMark
    BY <1>2, <1>7 DEF CopyOne, RevocationInv, Asked
  <2>2. second + CopyFor \in Later
    BY <1>2, Lifetimes DEF Seconds, Later
  <2>3. RevocationTypeOK'
    BY <1>1, <1>7, <2>1, <2>2, Blanks DEF CopyOne, CopyUntil, RevocationInv, RevocationTypeOK
  <2>4. ASSUME NEW l \in Delegations PROVE Covered(l)'
    <3>1. CASE UNCHANGED <<copied, copySurvives>>
      BY <1>1, <1>6, <2>1, <3>1 DEF RevocationInv, Covered
    <3>2. CASE copied' = [copied EXCEPT ![k] = second + CopyFor]
               /\ copySurvives' = copySurvives \cup {k}
      <4>1. CASE l = k
        <5>1. issued[k] + LinkFor <= copied'[k]
          BY <1>2, <2>1, <3>2, Lifetimes DEF RevocationInv, RevocationTypeOK, Visas
        <5>2. QED
          BY <1>1, <2>1, <4>1, <5>1 DEF Covered
      <4>2. CASE l # k
        BY <1>1, <1>6, <2>1, <3>2, <4>2 DEF RevocationInv, RevocationTypeOK, Covered
      <4>3. QED
        BY <4>1, <4>2
    <3>3. QED
      BY <1>7, <3>1, <3>2 DEF CopyOne, CopyUntil
  <2>5. QED
    BY <1>3, <1>4, <1>5, <2>3, <2>4 DEF RevocationInv
<1>8. CASE CopyMark(o)
  <2> DEFINE mark == owner[o].mark
  <2>1. mark \in Seconds /\ copied' = copied
    BY <1>2, <1>8 DEF CopyMark
  <2>2. /\ Raised(mark) \in Seconds
        /\ Raised(mark) >= mark /\ Raised(mark) >= copiedMark
    BY <1>2, <2>1, Lifetimes DEF Raised
  <2>3. RevocationTypeOK'
    BY <1>1, <1>8, <2>1, <2>2, Blanks DEF CopyMark, RevocationInv, RevocationTypeOK
  <2>4. ASSUME NEW l \in Delegations PROVE Covered(l)'
    <3>1. CASE UNCHANGED <<copiedMark, copySurvives>>
      BY <1>1, <1>6, <2>1, <3>1 DEF RevocationInv, Covered
    <3>2. CASE /\ copiedMark' = Raised(mark)
               /\ copySurvives' = copySurvives \cup
                     {j \in Delegations : issued[j] # NotYet /\ issued[j] <= mark}
      <4>1. issued[l] <= mark \/ issued[l] <= copiedMark => issued[l] <= copiedMark'
        BY <1>2, <2>1, <2>2, <3>2, Lifetimes
      <4>2. QED
        BY <1>1, <1>6, <2>1, <3>2, <4>1 DEF RevocationInv, Covered
    <3>3. QED
      BY <1>8, <3>1, <3>2 DEF CopyMark
  <2>5. QED
    BY <1>3, <1>4, <1>5, <2>3, <2>4 DEF RevocationInv
<1>9. QED
  BY <1>7, <1>8

\* Losing Redis takes back every promise made of it, and time ends no exchange
\* later than it may take.
LEMMA OtherInv == ASSUME RevocationInv, LoseCopies \/ Second PROVE RevocationInv'
<1>1. CASE LoseCopies
  <2>1. RevocationTypeOK'
    BY <1>1, Lifetimes DEF LoseCopies, RevocationInv, RevocationTypeOK
  <2>2. QED
    BY <1>1, <2>1 DEF LoseCopies, RevocationInv, Held, Asked, Visas, Covered, Dying
<1>2. CASE Second
  <2>1. /\ second \in Seconds /\ second' \in Seconds /\ second' = second + 1
        /\ \A w \in Workers : worker[w] # NoExchange => second < worker[w].since + ExchangeFor
        /\ UNCHANGED <<issued, revoked, watermark, copied, copiedMark, worker, owner,
                       visaUntil, deadSince, copySurvives>>
    BY <1>2, Lifetimes DEF Second, RevocationInv, RevocationTypeOK, Seconds
  <2>2. RevocationTypeOK'
    BY <2>1 DEF RevocationInv, RevocationTypeOK
  <2>3. \A w \in Workers : Held(w)'
    <3> SUFFICES ASSUME NEW w \in Workers, worker[w] # NoExchange
                 PROVE  worker[w].since <= second' /\ second' <= worker[w].since + ExchangeFor
      BY <2>1 DEF RevocationInv, Held
    <3>1. worker[w].since \in Seconds
      BY DEF RevocationInv, RevocationTypeOK
    <3>2. worker[w].since \in Int /\ second \in Int
      BY <2>1, <3>1, Lifetimes, Zenon
    <3>3. worker[w].since <= second
      BY DEF RevocationInv, Held
    <3>4. ExchangeFor \in Int
      BY Lifetimes
    <3>5. QED
      BY <2>1, <3>2, <3>3, <3>4
  <2>4. \A o \in Owners : Asked(o)'
    <3> TAKE o \in Owners
    <3>1. owner[o].mark \in Int /\ second \in Int
      BY Lifetimes DEF RevocationInv, RevocationTypeOK
    <3>2. Asked(o)
      BY DEF RevocationInv
    <3>3. owner[o].mark <= second + 1
      BY <3>1, <3>2 DEF Asked
    <3>4. QED
      BY <2>1, <3>2, <3>3 DEF Asked
  <2>5. \A l \in Delegations : Visas(l)'
    <3> TAKE l \in Delegations
    <3>1. issued[l] \in Int /\ visaUntil[l] \in Int /\ second \in Int
      BY Lifetimes DEF RevocationInv, RevocationTypeOK
    <3>2. Visas(l)
      BY DEF RevocationInv
    <3>3. issued[l] <= second + 1 /\ visaUntil[l] <= second + 1 + VisaFor
      BY <3>1, <3>2, Lifetimes DEF Visas
    <3>4. QED
      BY <2>1, <3>2, <3>3 DEF Visas
  <2>6. \A l \in Delegations : Covered(l)' /\ Dying(l)'
    BY <2>1 DEF RevocationInv, Covered, Dying, InUse
  <2>7. QED
    BY <2>2, <2>3, <2>4, <2>5, <2>6 DEF RevocationInv
<1>3. QED
  BY <1>1, <1>2

-----------------------------------------------------------------------------
\* The invariant holds in every reachable state, whatever is flushed and however the exchanges overlap.
LEMMA RevocationInvariance == RevocationSpec => []RevocationInv
<1>1. ASSUME RevocationInv, [RevocationNext]_revocationVars PROVE RevocationInv'
  <2>1. CASE UNCHANGED revocationVars
    BY <1>1, <2>1 DEF revocationVars, RevocationInv, RevocationTypeOK, Held, Asked, Visas,
                      Covered, Dying, InUse
  <2>2. QED
    BY <1>1, <2>1, DelegateInv, ReadRecordInv, MintInv, OwnerInv, CopyInv, OtherInv
       DEF RevocationNext
<1>2. QED
  BY <1>1, RevocationInitInv, PTL DEF RevocationSpec

\* Every reachable state is well typed.
THEOREM RevocationTypeCorrect == RevocationSpec => []RevocationTypeOK
<1>1. RevocationInv => RevocationTypeOK
  BY DEF RevocationInv
<1>2. QED
  BY <1>1, RevocationInvariance, PTL

\* While Redis keeps the copy an owner was told of, no call of a link it revokes
\* is admitted, whatever exchanges, revocations and issues interleave
\* (isDelegationRevoked, RAISE_WM_LUA), for any lifetimes with CopyFor > LinkFor.
THEOREM RevocationIsImmediate == RevocationSpec => []ImmediateMeansNow
<1>1. RevocationInv => ImmediateMeansNow
  <2> SUFFICES ASSUME RevocationInv, NEW l \in copySurvives, second < visaUntil[l]
               PROVE  CopyRevokes(l)
    BY DEF ImmediateMeansNow, Admits
  <2>1. l \in Delegations
    BY DEF RevocationInv, RevocationTypeOK
  <2>2. /\ second \in Seconds /\ visaUntil[l] \in Later /\ copied[l] \in Later
        /\ issued[l] \in Seconds \cup {NotYet}
    BY <2>1 DEF RevocationInv, RevocationTypeOK
  <2>3. visaUntil[l] > 0
    BY <2>2, Lifetimes
  <2>4. visaUntil[l] <= issued[l] + LinkFor /\ InUse(l)
    BY <2>1, <2>3 DEF RevocationInv, Visas, InUse
  <2>5. issued[l] <= copiedMark \/ issued[l] + LinkFor <= copied[l]
    BY <2>1, <2>4 DEF RevocationInv, Covered
  <2>6. QED
    BY <2>2, <2>4, <2>5, Lifetimes DEF CopyRevokes
<1>2. QED
  BY <1>1, RevocationInvariance, PTL

\* One visa and one exchange under way after its row was written, a revoked link
\* is dead with no copy at all (delegationRecordRevokes, mintDelegatedVisa).
THEOREM RevocationIsBounded == RevocationSpec => []RevokedWithinOneVisa
<1>1. RevocationInv => RevokedWithinOneVisa
  <2> SUFFICES ASSUME RevocationInv, NEW l \in Delegations, deadSince[l] # NotYet,
                      second >= deadSince[l] + VisaFor + ExchangeFor
               PROVE  ~(second < visaUntil[l])
    BY DEF RevokedWithinOneVisa, Admits
  <2>1. /\ second \in Seconds /\ visaUntil[l] \in Later
        /\ deadSince[l] \in Seconds \cup {NotYet}
    BY DEF RevocationInv, RevocationTypeOK
  <2>2. visaUntil[l] <= deadSince[l] + VisaFor + ExchangeFor
    BY DEF RevocationInv, Dying
  <2>3. QED
    BY <2>1, <2>2, Lifetimes
<1>2. QED
  BY <1>1, RevocationInvariance, PTL

-----------------------------------------------------------------------------
(* The controls side by side *)

\* The system the runs check behaves, in what is one component's, as that component:
\* what is proved of any of them holds there.
LEMMA ControlsApart ==
  ControlSpec => ChainSpec /\ KillSpec /\ ApprovalsSpec /\ RevocationSpec
<1>1. ControlInit => ChainInit /\ KillInit /\ ApprovalsInit /\ RevocationInit
  BY DEF ControlInit
<1>2. [ControlNext]_<<focus, cvars, killVars, approvalVars, revocationVars>>
        => /\ [ChainNext]_cvars
           /\ [KillNext]_killVars
           /\ [ApprovalsNext]_approvalVars
           /\ [RevocationNext]_revocationVars
  BY DEF ControlNext
<1>3. QED
  BY <1>1, <1>2, PTL DEF ControlSpec, ChainSpec, KillSpec, ApprovalsSpec, RevocationSpec

\* Whichever component a behaviour is of, its state is one its code can hold.
THEOREM ControlTypeCorrect == ControlSpec => []ControlTypeOK
<1>1. ChainTypeOK /\ KillTypeOK /\ ApprovalsTypeOK /\ RevocationTypeOK => ControlTypeOK
  BY DEF ControlTypeOK
<1>2. QED
  BY <1>1, ControlsApart, ChainTypeCorrect, KillTypeCorrect, ApprovalsTypeCorrect,
     RevocationTypeCorrect, PTL
=============================================================================
