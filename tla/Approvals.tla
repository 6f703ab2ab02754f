------------------------------ MODULE Approvals ------------------------------
(***************************************************************************)
(* "Ask me first": the owner's yes or no on one request, in the three      *)
(* scripts of lib/state/approvals.ts and the loop of lib/approvals/gate.ts *)
(* that waits for it.  A record, the pointer from a request's fingerprint  *)
(* to it, and the queue of pending ones are separate keys, each with an    *)
(* expiry of its own that the scripts set together.                        *)
(*                                                                         *)
(* Retries of the transport run a script twice; a call that lost its reply *)
(* is one more caller here.                                                *)
(***************************************************************************)
EXTENDS Integers, FiniteSets

CONSTANTS
    Prints,      \* fingerprints of requests
    NoPrint,
    Questions,   \* approval ids, minted once
    NoQuestion,
    Asking,      \* gateway calls waiting for an answer
    MaxPending,  \* MAX_PENDING_APPROVALS
    PendingFor, ApprovedFor, DeniedFor,  \* how long each state lives
    LastTime     \* bound on the clock

ASSUME ApprovalsAssumption ==
    /\ NoQuestion \notin Questions
    /\ NoPrint \notin Prints
    /\ IsFiniteSet(Questions)
    /\ {MaxPending, LastTime} \subseteq Nat
    /\ {PendingFor, ApprovedFor, DeniedFor} \subseteq Nat \ {0}

VARIABLES
    now,
    question,  \* apv:<id>; a record lives while now < until
    pointer,   \* apvfp:<fingerprint>: the id, until when
    queue,     \* apvq:<workspace>: pending ids; its key lives until queueUntil
    queueUntil,
    asking,    \* [Asking -> the call]
    answer,    \* history: the owner's answer to each question
    admitted   \* history: how many calls each question let through

approvalVars == <<now, question, pointer, queue, queueUntil, asking, answer, admitted>>

Answers == {"approved", "denied"}
Instants == 0..(LastTime + PendingFor + ApprovedFor + DeniedFor)

Question == [st : {"unasked", "pending", "used"} \cup Answers, fp : Prints \cup {NoPrint},
             until : Instants, created : Instants, sent : BOOLEAN]

ApprovalsTypeOK ==
    /\ now \in 0..LastTime
    /\ question \in [Questions -> Question]
    /\ pointer \in [Prints -> [id : Questions \cup {NoQuestion}, until : Instants]]
    /\ queue \subseteq Questions
    /\ queueUntil \in Instants
    /\ asking \in [Asking -> [at : {"idle", "waiting"}, fp : Prints \cup {NoPrint}]]
    /\ answer \in [Questions -> Answers \cup {"none"}]
    /\ admitted \in [Questions -> Nat]

Lives(q) == question[q].st # "unasked" /\ now < question[q].until

\* GET of the pointer, and HGET of the state behind it.
Pointed(fp) == IF now < pointer[fp].until THEN pointer[fp].id ELSE NoQuestion
StateOf(q) == IF q # NoQuestion /\ Lives(q) THEN question[q].st ELSE "gone"

-----------------------------------------------------------------------------
(* CHECK_LUA *)

Queued == IF now < queueUntil THEN queue ELSE {}

\* ZREMRANGEBYSCORE: what is older than a pending question lives.
Fresh == {q \in Queued : question[q].created > now - PendingFor}

CheckReply(fp, create) ==
    LET st == StateOf(Pointed(fp))
    IN  CASE st \in {"pending"} \cup Answers -> st
          [] st \notin {"pending"} \cup Answers /\ ~create -> "none"
          [] OTHER -> IF Cardinality(Fresh) >= MaxPending THEN "full" ELSE "created"

\* Mutant: the yes is used by a write of its own, after the answer.
Use_Later(q) ==
    /\ admitted' = [admitted EXCEPT ![q] = @ + 1]
    /\ UNCHANGED <<question, pointer, queue, queueUntil>>

\* Admitted and used in one step.
Use(q) ==
    /\ question' = [question EXCEPT ![q].st = "used"]
    /\ pointer' = [pointer EXCEPT ![question[q].fp].until = 0]
    /\ queue' = queue \ {q}
    /\ admitted' = [admitted EXCEPT ![q] = @ + 1]
    /\ UNCHANGED queueUntil

\* Mutant: the queue keeps what it was, and a burst is not counted.
Create_Uncounted(fp, q) ==
    /\ question[q].st = "unasked"
    /\ question' = [question EXCEPT ![q] =
                      [st |-> "pending", fp |-> fp, until |-> now + PendingFor,
                       created |-> now, sent |-> FALSE]]
    /\ pointer' = [pointer EXCEPT ![fp] = [id |-> q, until |-> now + PendingFor]]
    /\ queue' = Fresh
    /\ queueUntil' = now + PendingFor
    /\ UNCHANGED admitted

Create(fp, q) ==
    /\ question[q].st = "unasked"
    /\ question' = [question EXCEPT ![q] =
                      [st |-> "pending", fp |-> fp, until |-> now + PendingFor,
                       created |-> now, sent |-> FALSE]]
    /\ pointer' = [pointer EXCEPT ![fp] = [id |-> q, until |-> now + PendingFor]]
    /\ queue' = Fresh \cup {q}
    /\ queueUntil' = now + PendingFor
    /\ UNCHANGED admitted

\* A pointer whose record is gone or used is dropped.
Drop(fp) ==
    /\ pointer' = [pointer EXCEPT ![fp].until = 0]
    /\ UNCHANGED <<question, queue, queueUntil, admitted>>

Check(fp, create) ==
    LET reply == CheckReply(fp, create)
    IN  \/ reply = "approved" /\ Use(Pointed(fp))
        \/ reply = "created" /\ \E q \in Questions : Create(fp, q)
        \/ reply \in {"none", "full"} /\ Drop(fp)
        \/ /\ reply \in {"pending", "denied"}
           /\ UNCHANGED <<question, pointer, queue, queueUntil, admitted>>

-----------------------------------------------------------------------------
(* awaitApproval, existingApproval *)

NotAsking == [at |-> "idle", fp |-> NoPrint]

\* What the call does with a reply: a question keeps it waiting, anything else
\* is its answer, "none" that it should be sent again.
Goes(fp, reply) ==
    IF reply \in {"created", "pending"} THEN [at |-> "waiting", fp |-> fp] ELSE NotAsking

Ask(c, fp, create) ==
    /\ asking[c].at # "waiting"
    /\ Check(fp, create)
    /\ asking' = [asking EXCEPT ![c] = Goes(fp, CheckReply(fp, create))]
    /\ UNCHANGED <<now, answer>>

Poll(c) ==
    LET fp == asking[c].fp
    IN  /\ asking[c].at = "waiting"
        /\ Check(fp, FALSE)
        /\ \/ asking' = [asking EXCEPT ![c] = Goes(fp, CheckReply(fp, FALSE))]
           \/ asking' = [asking EXCEPT ![c] = NotAsking]
        /\ UNCHANGED <<now, answer>>

\* The prompt is in the owner's chat, and ATTACH_LUA binds it to the record.
Attach(q) ==
    /\ Lives(q)
    /\ ~question[q].sent
    /\ question' = [question EXCEPT ![q].sent = TRUE]
    /\ UNCHANGED <<now, pointer, queue, queueUntil, asking, answer, admitted>>

-----------------------------------------------------------------------------
(* DECIDE_LUA *)

AnswerFor(decision) == IF decision = "denied" THEN DeniedFor ELSE ApprovedFor

\* Mutant: the pointer keeps the life it was created with.
Redirect_Not(q, decision) == UNCHANGED pointer

Redirect(q, decision) ==
    pointer' = [pointer EXCEPT ![question[q].fp] =
                   [id |-> q, until |-> now + AnswerFor(decision)]]

\* The owner answers, on the dashboard or on the message this question was
\* sent as; only a pending question takes an answer.
Decide(q, decision, tapped) ==
    /\ Lives(q)
    /\ tapped => question[q].sent
    /\ question[q].st = "pending"
    /\ question' = [question EXCEPT ![q].st = decision, ![q].until = now + AnswerFor(decision)]
    /\ Redirect(q, decision)
    /\ queue' = queue \ {q}
    /\ answer' = [answer EXCEPT ![q] = decision]
    /\ UNCHANGED <<now, queueUntil, asking, admitted>>

-----------------------------------------------------------------------------
Passes ==
    /\ now < LastTime
    /\ now' = now + 1
    /\ UNCHANGED <<question, pointer, queue, queueUntil, asking, answer, admitted>>

ApprovalsInit ==
    /\ now = 0
    /\ question = [q \in Questions |-> [st |-> "unasked", fp |-> NoPrint, until |-> 0,
                                        created |-> 0, sent |-> FALSE]]
    /\ asking = [c \in Asking |-> NotAsking]
    /\ pointer = [fp \in Prints |-> [id |-> NoQuestion, until |-> 0]]
    /\ queue = {}
    /\ queueUntil = 0
    /\ answer = [q \in Questions |-> "none"]
    /\ admitted = [q \in Questions |-> 0]

ApprovalsNext ==
    \/ \E c \in Asking : \/ Poll(c)
                         \/ \E fp \in Prints, create \in BOOLEAN : Ask(c, fp, create)
    \/ \E q \in Questions : \/ Attach(q)
                            \/ \E decision \in Answers, tapped \in BOOLEAN :
                                  Decide(q, decision, tapped)
    \/ Passes

ApprovalsSpec == ApprovalsInit /\ [][ApprovalsNext]_approvalVars

-----------------------------------------------------------------------------
(* Properties *)

\* However many retries and callers race for one yes, it sends one request, and
\* nothing is sent that the owner did not say yes to (CHECK_LUA's
\* approved-and-used step, lines 108-114).
YesSendsOnce ==
    \A q \in Questions : admitted[q] <= (IF answer[q] = "approved" THEN 1 ELSE 0)

\* A request waits under one question at a time: while an answer to it stands,
\* a no included, its retries never put a second question to the owner.
OneQuestionPerRequest ==
    \A p, q \in Questions :
        /\ Lives(p) /\ question[p].st # "used"
        /\ Lives(q) /\ question[q].st # "used"
        /\ question[p].fp = question[q].fp
        => p = q

\* A workspace never has more questions waiting for its owner than the cap, and
\* each of them is in the list the owner is shown.
PendingAreListed ==
    LET pending == {q \in Questions : Lives(q) /\ question[q].st = "pending"}
    IN  pending \subseteq Queued /\ Cardinality(pending) <= MaxPending
=============================================================================
