--------------------------- MODULE KillSwitch_proofs ---------------------------
(***************************************************************************)
(* Theorems about KillSwitch for any number of stops, presses and calls:   *)
(* its types always, and, as long as no arm and disarm of one stop overlap *)
(* and Redis is not lost inside a reload or an arm, that saved stops are   *)
(* enforced and lifted ones stay lifted.                                   *)
(***************************************************************************)
EXTENDS KillSwitch, TLAPS

Pressing == {"save", "bump", "clear"}
Lifting == {"bump", "clear"}

\* A press under way names its stop.
PressesName == \A p \in Presses : press[p].at \in Pressing => press[p].stop \in Stops

Typed == KillTypeOK /\ PressesName

-----------------------------------------------------------------------------
(* What a read makes of a call *)

\* A call that does not exist yet is well formed.
LEMMA NoCallTyped ==
  NoCall \in CallAt /\ NoCall.at = "idle" /\ NoCall.flag = FALSE /\ NoCall.bound = FALSE
BY KillAssumption DEF NoCall, CallAt, Unreadable

\* What the end of a call changes in its record.
LEMMA CloseFields ==
  ASSUME NEW read \in CallAt, NEW verdict \in Decided
  PROVE  /\ Close(read, verdict) \in CallAt
         /\ Close(read, verdict).at = verdict
         /\ Close(read, verdict).bound <=> (read.bound /\ verdict = "admitted")
<1> DEFINE kept == read.bound /\ verdict = "admitted"
<1>1. Close(read, verdict) = [NoCall EXCEPT !.at = verdict, !.bound = kept]
  BY DEF Close
<1>2. kept \in BOOLEAN
  OBVIOUS
<1>3. (kept = TRUE) <=> (read.bound /\ verdict = "admitted")
  BY DEF CallAt
<1> HIDE DEF kept
<1>4. /\ [NoCall EXCEPT !.at = verdict, !.bound = kept] \in CallAt
      /\ [NoCall EXCEPT !.at = verdict, !.bound = kept].at = verdict
      /\ [NoCall EXCEPT !.at = verdict, !.bound = kept].bound = kept
  BY <1>2, NoCallTyped DEF CallAt, Decided
<1>5. QED
  BY <1>1, <1>2, <1>3, <1>4

\* What reading the flags changes in a call's record.
LEMMA LookFields ==
  ASSUME NEW s \in Stops
  PROVE  /\ Look(s) \in CallAt
         /\ Look(s).at = "idle" /\ Look(s).stop = s
         /\ Look(s).flag <=> s \in flags
         /\ Look(s).bound <=> s \in owed
<1> DEFINE seen == s \in flags
           due == s \in owed
           read == [NoCall EXCEPT !.stop = s, !.flag = seen, !.bound = due]
<1>1. Look(s) = read
  BY DEF Look
<1>2. seen \in BOOLEAN /\ due \in BOOLEAN
  OBVIOUS
<1>3. (seen = TRUE <=> s \in flags) /\ (due = TRUE <=> s \in owed)
  OBVIOUS
<1> HIDE DEF seen, due
<1>4. /\ read \in CallAt
      /\ read.at = "idle" /\ read.stop = s /\ read.flag = seen /\ read.bound = due
  BY <1>2, NoCallTyped DEF CallAt
<1>5. QED
  BY <1>1, <1>2, <1>3, <1>4

\* What reading the loaded mark changes in a call's record.
LEMMA MarkedFields ==
  ASSUME NEW read \in CallAt
  PROVE  /\ Marked(read) \in CallAt
         /\ loaded => Marked(read) = Close(read, Verdict(read.flag))
         /\ ~loaded => /\ Marked(read).at = "generation"
                       /\ Marked(read).stop = read.stop
                       /\ Marked(read).bound <=> read.bound
<1>1. Verdict(read.flag) \in Decided
  BY DEF Verdict, Decided
<1>2. CASE loaded
  BY <1>1, <1>2, CloseFields DEF Marked
<1>3. CASE ~loaded
  BY <1>3 DEF Marked, CallAt, Reloading
<1>4. QED
  BY <1>2, <1>3

\* What is unreadable never admits; what is read admits exactly when the flag is down.
LEMMA Verdicts ==
  /\ Posture \in Decided /\ Posture # "admitted"
  /\ \A b \in BOOLEAN : Verdict(b) \in Decided /\ (Verdict(b) = "admitted" <=> ~b)
BY DEF Posture, Decided, Verdict

-----------------------------------------------------------------------------
(* Type correctness *)

\* A call's own steps keep the state well typed.
LEMMA StepTyped ==
  ASSUME Typed, NEW c \in Calls, NEW read \in CallAt, Step(c, read)
  PROVE  Typed'
BY DEF Typed, KillTypeOK, PressesName, Step

\* Reading keeps the types.
LEMMA ReadTyped ==
  ASSUME Typed, NEW c \in Calls,
         \/ \E s \in Stops : ReadFlagAndMarker(c, s) \/ ReadSessionFlag(c, s)
         \/ ReadMarker(c) \/ ReadGeneration(c) \/ ReadRows(c) \/ ReadSessionRows(c)
  PROVE  Typed'
<1>1. call[c] \in CallAt
  BY DEF Typed, KillTypeOK
<1>2. ASSUME NEW s \in Stops, ReadFlagAndMarker(c, s) PROVE Typed'
  BY <1>2, LookFields, MarkedFields, CloseFields, Verdicts, StepTyped DEF ReadFlagAndMarker
<1>3. ASSUME NEW s \in Stops, ReadSessionFlag(c, s) PROVE Typed'
  <2>1. [Look(s) EXCEPT !.at = "marker"] \in CallAt
    BY LookFields DEF CallAt
  <2>2. QED
    BY <1>3, <2>1, StepTyped DEF ReadSessionFlag
<1>4. CASE ReadMarker(c)
  <2> DEFINE missed == ~call[c].flag /\ call[c].stop \in flags
             read == [call[c] EXCEPT !.bound = @ /\ ~missed]
  <2>1. read \in CallAt
    BY <1>1 DEF CallAt
  <2>2. QED
    BY <1>4, <2>1, MarkedFields, StepTyped DEF ReadMarker
<1>5. CASE ReadGeneration(c)
  <2>1. PICK g \in {disarms, Unreadable} :
           Step(c, [call[c] EXCEPT !.at = "record", !.gen = g])
    BY <1>5 DEF ReadGeneration
  <2>2. g \in Unreadable..MaxDisarms
    BY KillAssumption DEF Typed, KillTypeOK, Unreadable
  <2>3. [call[c] EXCEPT !.at = "record", !.gen = g] \in CallAt
    BY <1>1, <2>2 DEF CallAt, Reloading
  <2>4. QED
    BY <2>1, <2>3, StepTyped
<1>6. CASE Unread(c)
  <2>1. Close(call[c], IF call[c].flag THEN "blocked" ELSE Posture) \in CallAt
    BY <1>1, CloseFields, Verdicts DEF Decided
  <2>2. QED
    BY <1>6, <2>1, StepTyped DEF Unread
<1>7. CASE ReadRows(c)
  <2>1. [call[c] EXCEPT !.at = "sessions", !.rows = armed \ SessionStops] \in CallAt
    BY <1>1 DEF Typed, KillTypeOK, CallAt, Reloading
  <2>2. QED
    BY <1>6, <1>7, <2>1, StepTyped DEF ReadRows
<1>8. CASE ReadSessionRows(c)
  <2>1. [call[c] EXCEPT !.at = "writeback", !.rows = @ \cup (armed \cap SessionStops)] \in CallAt
    BY <1>1 DEF Typed, KillTypeOK, CallAt, Reloading
  <2>2. QED
    BY <1>6, <1>8, <2>1, StepTyped DEF ReadSessionRows
<1>9. QED
  BY <1>2, <1>3, <1>4, <1>5, <1>7, <1>8

\* A reload's steps keep the state well typed.
LEMMA ReloadTyped ==
  ASSUME Typed, NEW c \in Calls, Reload(c)
  PROVE  Typed'
<1>1. call[c] \in CallAt
  BY DEF Typed, KillTypeOK
<1>2. Close(call[c], Verdict(call[c].flag \/ call[c].stop \in call[c].rows)) \in CallAt
  BY <1>1, CloseFields, Verdicts
<1>3. flags' \subseteq Stops /\ loaded' \in BOOLEAN
  BY <1>1 DEF Reload, WriteBack, Typed, KillTypeOK, CallAt
<1>4. QED
  BY <1>2, <1>3 DEF Reload, Typed, KillTypeOK, PressesName

\* A press's steps keep the state well typed.
LEMMA PressTyped ==
  ASSUME Typed, NEW p \in Presses,
         \/ \E s \in Stops : ArmFlag(p, s) \/ DisarmRecord(p, s)
         \/ ArmRecord(p) \/ DisarmBump(p) \/ DisarmFlag(p)
  PROVE  Typed'
<1>1. NoPress \in PressAt /\ NoPress.at = "idle"
  BY DEF NoPress, PressAt
<1>2. press[p] \in PressAt /\ (press[p].at \in Pressing => press[p].stop \in Stops)
  BY DEF Typed, KillTypeOK, PressesName
<1>3. ASSUME NEW s \in Stops, ArmFlag(p, s) PROVE Typed'
  <2>1. [at |-> "save", stop |-> s, saved |-> FALSE] \in PressAt
    BY DEF PressAt
  <2>2. press' \in [Presses -> PressAt] /\ PressesName'
    <3>1. CASE UNCHANGED press
      BY <3>1 DEF Typed, KillTypeOK, PressesName
    <3>2. CASE press' = [press EXCEPT ![p] = [at |-> "save", stop |-> s, saved |-> FALSE]]
      BY <2>1, <3>2 DEF Typed, KillTypeOK, PressesName
    <3>3. QED
      BY <1>3, <3>1, <3>2 DEF ArmFlag
  <2>3. QED
    BY <1>3, <2>2 DEF ArmFlag, Typed, KillTypeOK
<1>4. ASSUME NEW s \in Stops, DisarmRecord(p, s) PROVE Typed'
  <2>1. PICK deleted \in BOOLEAN, saved \in BOOLEAN :
           /\ armed' = IF deleted THEN armed \ {s} ELSE armed
           /\ press' = [press EXCEPT ![p] = [at |-> "bump", stop |-> s, saved |-> saved]]
    BY <1>4 DEF DisarmRecord
  <2>2. [at |-> "bump", stop |-> s, saved |-> saved] \in PressAt
    BY DEF PressAt
  <2>3. \A c \in Calls : [call[c] EXCEPT !.bound = FALSE] \in CallAt
    BY DEF Typed, KillTypeOK, CallAt
  <2>4. call' \in [Calls -> CallAt]
    BY <1>4, <2>3 DEF DisarmRecord, Released, Typed, KillTypeOK
  <2>5. QED
    BY <1>4, <2>1, <2>2, <2>4 DEF DisarmRecord, Typed, KillTypeOK, PressesName
<1>5. CASE ArmRecord(p)
  BY <1>1, <1>2, <1>5 DEF ArmRecord, Finish, Typed, KillTypeOK, PressesName, Pressing
<1>6. CASE DisarmBump(p)
  <2>1. [press[p] EXCEPT !.at = "clear"] \in PressAt
        /\ [press[p] EXCEPT !.at = "clear"].stop = press[p].stop
    BY <1>2 DEF PressAt
  <2>2. disarms' \in 0..MaxDisarms
    BY <1>6, KillAssumption DEF DisarmBump, Typed, KillTypeOK
  <2>3. press' \in [Presses -> PressAt] /\ PressesName'
    BY <1>1, <1>2, <1>6, <2>1 DEF DisarmBump, Finish, Typed, KillTypeOK, PressesName, Pressing
  <2>4. QED
    BY <1>6, <2>2, <2>3 DEF DisarmBump, Typed, KillTypeOK
<1>7. CASE DisarmFlag(p)
  <2>1. press' \in [Presses -> PressAt] /\ PressesName'
    BY <1>1, <1>7 DEF DisarmFlag, Finish, Typed, KillTypeOK, PressesName, Pressing
  <2>2. press[p].stop \in Stops
    BY <1>2, <1>7 DEF DisarmFlag, Pressing
  <2>3. flags' \subseteq Stops /\ lifted' \subseteq Stops
    BY <1>7, <2>2 DEF DisarmFlag, Typed, KillTypeOK
  <2>4. QED
    BY <1>7, <2>1, <2>3 DEF DisarmFlag, Typed, KillTypeOK
<1>8. QED
  BY <1>3, <1>4, <1>5, <1>6, <1>7

\* The initial state is well typed.
LEMMA KillInitTyped == KillInit => Typed
BY KillAssumption DEF KillInit, Typed, KillTypeOK, PressesName, Pressing, NoPress, PressAt,
                      NoCall, CallAt, Unreadable

\* Every step keeps the state well typed.
LEMMA NextTyped == ASSUME Typed, [KillNext]_killVars PROVE Typed'
<1>1. CASE KillFlush
  <2>1. /\ flags' = {} /\ loaded' = FALSE /\ disarms' = 0
        /\ UNCHANGED <<armed, press, call, owed, lifted>>
    BY <1>1 DEF KillFlush
  <2>2. disarms' \in 0..MaxDisarms
    BY <2>1, KillAssumption
  <2>3. PressesName'
    BY <2>1 DEF Typed, PressesName
  <2>4. QED
    BY <2>1, <2>2, <2>3 DEF Typed, KillTypeOK
<1>2. CASE UNCHANGED killVars
  BY <1>2 DEF killVars, Typed, KillTypeOK, PressesName
<1>3. QED
  BY <1>1, <1>2, ReadTyped, ReloadTyped, PressTyped DEF KillNext

\* Every reachable state is well typed, for any stops, presses and calls.
THEOREM KillTypeCorrect == KillSpec => []KillTypeOK
<1>1. Typed /\ [KillNext]_killVars => Typed'
  BY NextTyped
<1>2. Typed => KillTypeOK
  BY DEF Typed
<1>3. QED
  BY <1>1, <1>2, KillInitTyped, PTL DEF KillSpec

-----------------------------------------------------------------------------
(* The inductive invariant *)

\* The exclusions under which the code makes its promises.
Orderly == ~OpposedPresses /\ ~LoudFlushes

\* An arming press has set its flag; no stop is armed and lifted at once; a
\* recorded disarm has left no row.
PressesInv ==
  \A p \in Presses :
     /\ press[p].at = "save" => /\ press[p].stop \in flags
                                /\ press[p].stop \notin lifted
                                /\ Disarming(press[p].stop) = {}
     /\ press[p].at \in Lifting => press[p].stop \notin owed
     /\ press[p].at \in Lifting /\ press[p].saved => press[p].stop \notin armed

\* A reload that may still write back has seen no row of a lifted stop, nor of
\* one whose disarm has passed its bump.
Current(read) ==
  /\ read.at \in {"record", "sessions", "writeback"} => read.gen <= disarms
  /\ read.at \in {"sessions", "writeback"} /\ read.gen = disarms =>
        /\ read.rows \cap lifted = {}
        /\ \A p \in Presses : press[p].at = "clear" /\ press[p].saved
                               => press[p].stop \notin read.rows

\* What a reload has read so far covers what was saved, with what Redis holds.
Covers(read) ==
  /\ read.at = "sessions" => owed \ SessionStops \subseteq flags \cup read.rows
  /\ read.at = "writeback" => owed \subseteq flags \cup read.rows

\* A call owed its stop is still deciding, and finds the stop in the rows.
Heeds(read) ==
  read.bound => /\ read.at \in {"marker"} \cup Reloading
                /\ read.stop \in owed
                /\ read.at = "sessions" /\ read.stop \notin SessionStops => read.stop \in read.rows
                /\ read.at = "writeback" => read.stop \in read.rows

StopsInv ==
  /\ flags \cap lifted = {}
  /\ armed \cap lifted = {}
  /\ owed \subseteq armed
  /\ loaded => owed \subseteq flags

KillInv ==
  /\ Typed
  /\ PressesInv
  /\ StopsInv
  /\ \A c \in Calls : Current(call[c]) /\ Covers(call[c]) /\ Heeds(call[c])

-----------------------------------------------------------------------------
(* Reading *)

\* A step that only moves one call has to answer for that call alone.
LEMMA StepInv ==
  ASSUME KillInv, NEW c \in Calls, NEW read \in CallAt, Step(c, read),
         Current(read), Covers(read), Heeds(read)
  PROVE  KillInv'
<1>1. /\ UNCHANGED <<armed, flags, loaded, disarms, press, owed, lifted>>
      /\ \A d \in Calls : call'[d] = IF d = c THEN read ELSE call[d]
  BY DEF Step, KillInv, Typed, KillTypeOK
<1>2. Typed'
  BY StepTyped DEF KillInv
<1>3. PressesInv' /\ StopsInv'
  BY <1>1 DEF KillInv, PressesInv, StopsInv, Disarming
<1>4. ASSUME NEW d \in Calls PROVE (Current(call[d]) /\ Covers(call[d]) /\ Heeds(call[d]))'
  <2>1. CASE d = c
    BY <1>1, <2>1 DEF Current, Covers, Heeds
  <2>2. CASE d # c
    BY <1>1, <2>2 DEF KillInv, Current, Covers, Heeds
  <2>3. QED
    BY <2>1, <2>2
<1>5. QED
  BY <1>2, <1>3, <1>4 DEF KillInv

\* A decided call that is not admitted against its stop satisfies everything.
LEMMA ClosedInv ==
  ASSUME NEW read \in CallAt, NEW verdict \in Decided, read.bound => verdict # "admitted"
  PROVE  /\ Close(read, verdict) \in CallAt
         /\ Current(Close(read, verdict))
         /\ Covers(Close(read, verdict))
         /\ Heeds(Close(read, verdict))
BY CloseFields DEF Current, Covers, Heeds, Decided

\* The marker, read with the stop's flag, answers rightly.
LEMMA MarkedInv ==
  ASSUME NEW read \in CallAt, read.bound => read.stop \in owed /\ (loaded => read.flag)
  PROVE  /\ Marked(read) \in CallAt
         /\ Current(Marked(read)) /\ Covers(Marked(read)) /\ Heeds(Marked(read))
<1>1. CASE loaded
  <2>1. Verdict(read.flag) \in Decided /\ (read.bound => Verdict(read.flag) # "admitted")
    BY <1>1, Verdicts DEF CallAt
  <2>2. QED
    BY <1>1, <2>1, MarkedFields, ClosedInv
<1>2. CASE ~loaded
  BY <1>2, MarkedFields DEF Current, Covers, Heeds, Reloading
<1>3. QED
  BY <1>1, <1>2

\* A call's read of the flags keeps the invariant: what it read was in force when it read it.
LEMMA ReadInv ==
  ASSUME KillInv, NEW c \in Calls,
         \/ \E s \in Stops : ReadFlagAndMarker(c, s) \/ ReadSessionFlag(c, s)
         \/ ReadMarker(c) \/ ReadGeneration(c) \/ ReadRows(c) \/ ReadSessionRows(c)
  PROVE  KillInv'
<1>1. /\ call[c] \in CallAt
      /\ Current(call[c]) /\ Covers(call[c]) /\ Heeds(call[c])
  BY DEF KillInv, Typed, KillTypeOK
<1>2. loaded => owed \subseteq flags
  BY DEF KillInv, StopsInv
<1>3. ASSUME NEW s \in Stops, ReadFlagAndMarker(c, s) PROVE KillInv'
  <2>1. CASE Step(c, Marked(Look(s)))
    BY <1>2, <2>1, LookFields, MarkedInv, StepInv
  <2>2. CASE Step(c, Close(Look(s), Posture))
    BY <2>2, LookFields, Verdicts, ClosedInv, StepInv
  <2>3. QED
    BY <1>3, <2>1, <2>2 DEF ReadFlagAndMarker
<1>4. ASSUME NEW s \in Stops, ReadSessionFlag(c, s) PROVE KillInv'
  <2> DEFINE read == [Look(s) EXCEPT !.at = "marker"]
  <2>1. /\ read \in CallAt
        /\ read.at = "marker" /\ read.stop = s /\ read.bound = Look(s).bound
    BY LookFields DEF CallAt
  <2>2. Current(read) /\ Covers(read) /\ Heeds(read)
    BY <2>1, LookFields DEF Current, Covers, Heeds
  <2>3. QED
    BY <1>4, <2>1, <2>2, StepInv DEF ReadSessionFlag
<1>5. CASE ReadMarker(c)
  <2> DEFINE missed == ~call[c].flag /\ call[c].stop \in flags
             kept == call[c].bound /\ ~missed
             read == [call[c] EXCEPT !.bound = kept]
  <2>1. call[c].at = "marker" /\ Step(c, Marked(read))
    BY <1>5 DEF ReadMarker
  <2>2. kept \in BOOLEAN
    OBVIOUS
  <2>3. kept = TRUE => /\ call[c].bound
                       /\ call[c].stop \in owed /\ (loaded => call[c].flag)
    BY <1>1, <1>2 DEF Heeds
  <2> HIDE DEF kept
  <2>4. /\ read \in CallAt
        /\ read.bound = kept /\ read.stop = call[c].stop /\ read.flag = call[c].flag
    BY <1>1, <2>2 DEF CallAt
  <2>5. read.bound => read.stop \in owed /\ (loaded => read.flag)
    BY <2>2, <2>3, <2>4
  <2>6. QED
    BY <2>1, <2>4, <2>5, MarkedInv, StepInv
<1>6. CASE ReadGeneration(c)
  <2>1. PICK g \in {disarms, Unreadable} :
           Step(c, [call[c] EXCEPT !.at = "record", !.gen = g])
    BY <1>6 DEF ReadGeneration
  <2> DEFINE read == [call[c] EXCEPT !.at = "record", !.gen = g]
  <2>2. g \in Unreadable..MaxDisarms /\ g <= disarms
    BY KillAssumption DEF KillInv, Typed, KillTypeOK, Unreadable
  <2>3. /\ read \in CallAt
        /\ read.at = "record" /\ read.gen = g /\ read.stop = call[c].stop
        /\ read.bound = call[c].bound
    BY <1>1, <2>2 DEF CallAt, Reloading
  <2>4. Current(read) /\ Covers(read) /\ Heeds(read)
    BY <1>1, <2>2, <2>3 DEF Current, Covers, Heeds, Reloading
  <2>5. QED
    BY <2>1, <2>3, <2>4, StepInv
<1>7. CASE Unread(c)
  <2> DEFINE verdict == IF call[c].flag THEN "blocked" ELSE Posture
  <2>1. verdict \in Decided /\ verdict # "admitted"
    BY Verdicts DEF Decided
  <2>2. QED
    BY <1>1, <1>7, <2>1, ClosedInv, StepInv DEF Unread
<1>8. CASE ReadRows(c)
  <2> DEFINE read == [call[c] EXCEPT !.at = "sessions", !.rows = armed \ SessionStops]
  <2>1. call[c].at = "record"
    BY <1>8 DEF ReadRows
  <2>2. /\ read \in CallAt
        /\ read.at = "sessions" /\ read.gen = call[c].gen /\ read.stop = call[c].stop
        /\ read.bound = call[c].bound /\ read.rows = armed \ SessionStops
    BY <1>1 DEF KillInv, Typed, KillTypeOK, CallAt, Reloading
  <2>3. Current(read)
    BY <1>1, <2>1, <2>2 DEF Current, KillInv, StopsInv, PressesInv, Lifting
  <2>4. Covers(read) /\ Heeds(read)
    BY <1>1, <2>1, <2>2 DEF Covers, Heeds, KillInv, StopsInv, Reloading
  <2>5. QED
    BY <1>7, <1>8, <2>2, <2>3, <2>4, StepInv DEF ReadRows
<1>9. CASE ReadSessionRows(c)
  <2> DEFINE read == [call[c] EXCEPT !.at = "writeback", !.rows = @ \cup (armed \cap SessionStops)]
  <2>1. call[c].at = "sessions"
    BY <1>9 DEF ReadSessionRows
  <2>2. /\ read \in CallAt
        /\ read.at = "writeback" /\ read.gen = call[c].gen /\ read.stop = call[c].stop
        /\ read.bound = call[c].bound
        /\ read.rows = call[c].rows \cup (armed \cap SessionStops)
    BY <1>1 DEF KillInv, Typed, KillTypeOK, CallAt, Reloading
  <2>3. Current(read)
    BY <1>1, <2>1, <2>2 DEF Current, KillInv, StopsInv, PressesInv, Lifting
  <2>4. Covers(read)
    BY <1>1, <2>1, <2>2 DEF Covers, KillInv, StopsInv
  <2>5. Heeds(read)
    BY <1>1, <2>1, <2>2 DEF Heeds, KillInv, StopsInv, Reloading
  <2>6. QED
    BY <1>7, <1>9, <2>2, <2>3, <2>4, <2>5, StepInv DEF ReadSessionRows
<1>10. QED
  BY <1>3, <1>4, <1>5, <1>6, <1>8, <1>9

-----------------------------------------------------------------------------
(* Writing back, pressing, losing *)

\* The rows, guarded by the generation, restore only what is armed still.
LEMMA ReloadInv == ASSUME KillInv, NEW c \in Calls, Reload(c) PROVE KillInv'
<1> DEFINE found == call[c].flag \/ call[c].stop \in call[c].rows
           read == Close(call[c], Verdict(found))
<1>1. /\ call[c] \in CallAt /\ call[c].at = "writeback"
      /\ Current(call[c]) /\ Covers(call[c]) /\ Heeds(call[c])
  BY DEF KillInv, Typed, KillTypeOK, Reload
<1>2. /\ UNCHANGED <<armed, disarms, press, owed, lifted>>
      /\ \A d \in Calls : call'[d] = IF d = c THEN read ELSE call[d]
  BY DEF Reload, KillInv, Typed, KillTypeOK
<1>3. /\ flags \subseteq flags' /\ flags' \cap lifted = {}
      /\ loaded' => owed \subseteq flags'
  <2>1. CASE call[c].gen = disarms /\ WriteBack(c)
    BY <1>1, <2>1 DEF WriteBack, Current, Covers, KillInv, StopsInv
  <2>2. CASE UNCHANGED <<flags, loaded>>
    BY <2>2 DEF KillInv, StopsInv
  <2>3. QED
    BY <2>1, <2>2 DEF Reload, WriteBack
<1>4. Typed'
  BY ReloadTyped DEF KillInv
<1>5. PressesInv' /\ StopsInv'
  BY <1>2, <1>3 DEF KillInv, PressesInv, StopsInv, Disarming
<1>6. /\ read \in CallAt /\ Current(read) /\ Covers(read) /\ Heeds(read)
      /\ read.at \in Decided /\ ~read.bound
  <2>1. found \in BOOLEAN /\ (call[c].bound => found)
    BY <1>1 DEF Heeds, CallAt
  <2>2. Verdict(found) \in Decided /\ (call[c].bound => Verdict(found) # "admitted")
    BY <2>1, Verdicts
  <2>3. QED
    BY <1>1, <2>2, ClosedInv, CloseFields
<1>7. ASSUME NEW d \in Calls PROVE (Current(call[d]) /\ Covers(call[d]) /\ Heeds(call[d]))'
  <2>1. CASE d = c
    BY <1>2, <1>6, <2>1 DEF Current, Covers, Heeds, Decided
  <2>2. CASE d # c
    BY <1>2, <1>3, <2>2 DEF KillInv, Current, Covers, Heeds
  <2>3. QED
    BY <2>1, <2>2
<1>8. QED
  BY <1>4, <1>5, <1>7 DEF KillInv

\* Setting a flag and, later, its row.
LEMMA ArmInv ==
  ASSUME Orderly, KillInv, NEW p \in Presses, (\E s \in Stops : ArmFlag(p, s)) \/ ArmRecord(p)
  PROVE  KillInv'
<1>1. Typed'
  BY PressTyped DEF KillInv
<1>2. ASSUME NEW s \in Stops, ArmFlag(p, s) PROVE KillInv'
  <2>1. /\ flags' = flags \cup {s} /\ lifted' = lifted \ {s} /\ Disarming(s) = {}
        /\ UNCHANGED <<armed, loaded, disarms, call, owed>>
    BY <1>2 DEF ArmFlag, Orderly
  <2>2. \A q \in Presses :
           \/ press'[q] = press[q]
           \/ press'[q] = [at |-> "save", stop |-> s, saved |-> FALSE]
    BY <1>2 DEF ArmFlag, KillInv, Typed, KillTypeOK
  <2>3. \A t \in Stops \cup {NoStop} : Disarming(t)' \subseteq Disarming(t)
    BY <2>2 DEF Disarming
  <2>4. PressesInv'
    <3> SUFFICES ASSUME NEW q \in Presses
                 PROVE  /\ press'[q].at = "save" => /\ press'[q].stop \in flags'
                                                    /\ press'[q].stop \notin lifted'
                                                    /\ Disarming(press[q].stop)' = {}
                        /\ press'[q].at \in Lifting => press'[q].stop \notin owed'
                        /\ press'[q].at \in Lifting /\ press'[q].saved => press'[q].stop \notin armed'
      BY DEF PressesInv
    <3>1. CASE press'[q] = press[q]
      <4>1. press[q].stop \in Stops \cup {NoStop}
        BY DEF KillInv, Typed, KillTypeOK, PressAt
      <4>2. Disarming(press[q].stop)' = {} \/ press[q].at # "save"
        BY <2>3, <3>1, <4>1 DEF KillInv, PressesInv, Disarming
      <4>3. QED
        BY <2>1, <3>1, <4>2 DEF KillInv, PressesInv
    <3>2. CASE press'[q] = [at |-> "save", stop |-> s, saved |-> FALSE]
      BY <2>1, <2>3, <3>2 DEF Lifting, Disarming
    <3>3. QED
      BY <2>2, <3>1, <3>2
  <2>5. StopsInv'
    BY <2>1 DEF KillInv, StopsInv
  <2>6. ASSUME NEW c \in Calls PROVE (Current(call[c]) /\ Covers(call[c]) /\ Heeds(call[c]))'
    <3>1. \A q \in Presses : press'[q].at = "clear" => press'[q] = press[q]
      BY <2>2
    <3>2. QED
      BY <2>1, <3>1 DEF KillInv, Current, Covers, Heeds
  <2>7. QED
    BY <1>1, <2>4, <2>5, <2>6 DEF KillInv
<1>3. CASE ArmRecord(p)
  <2> DEFINE s == press[p].stop
  <2>1. /\ press[p].at = "save" /\ s \in flags /\ s \notin lifted /\ Disarming(s) = {}
        /\ armed \subseteq armed' /\ armed' \subseteq armed \cup {s}
        /\ owed \subseteq owed' /\ owed' \subseteq owed \cup {s} /\ (s \in owed' => s \in armed')
        /\ UNCHANGED <<flags, loaded, disarms, call, lifted>>
    BY <1>3 DEF ArmRecord, KillInv, PressesInv, StopsInv
  <2>2. \A q \in Presses : press'[q] = press[q] \/ press'[q] = NoPress
    BY <1>3 DEF ArmRecord, Finish, KillInv, Typed, KillTypeOK
  <2>3. NoPress.at = "idle"
    BY DEF NoPress
  <2>4. \A q \in Presses : press[q].at \in Lifting => press[q].stop # s
    BY <2>1 DEF Disarming, Lifting
  <2>5. \A q \in Presses : Disarming(press[q].stop) = {} => Disarming(press[q].stop)' = {} \/ press'[q] # press[q]
    BY <2>2, <2>3 DEF Disarming
  <2>6. PressesInv'
    <3> SUFFICES ASSUME NEW q \in Presses, press'[q] = press[q]
                 PROVE  /\ press'[q].at = "save" => /\ press'[q].stop \in flags'
                                                    /\ press'[q].stop \notin lifted'
                                                    /\ Disarming(press[q].stop)' = {}
                        /\ press'[q].at \in Lifting => press'[q].stop \notin owed'
                        /\ press'[q].at \in Lifting /\ press'[q].saved => press'[q].stop \notin armed'
      BY <2>2, <2>3 DEF PressesInv, Lifting
    <3>1. QED
      BY <2>1, <2>4, <2>5 DEF KillInv, PressesInv
  <2>7. StopsInv'
    BY <2>1 DEF KillInv, StopsInv
  <2>8. ASSUME NEW c \in Calls PROVE (Current(call[c]) /\ Covers(call[c]) /\ Heeds(call[c]))'
    <3>1. \A q \in Presses : press'[q].at = "clear" => press'[q] = press[q]
      BY <2>2, <2>3
    <3>2. QED
      BY <2>1, <3>1 DEF KillInv, Current, Covers, Heeds
  <2>9. QED
    BY <1>1, <2>6, <2>7, <2>8 DEF KillInv
<1>4. QED
  BY <1>2, <1>3

\* Removing a row, bumping the generation, clearing the flag.
LEMMA DisarmRecordInv ==
  ASSUME Orderly, KillInv, NEW p \in Presses, NEW s \in Stops, DisarmRecord(p, s)
  PROVE  KillInv'
<1>1. Typed'
  BY PressTyped DEF KillInv
<1>2. PICK deleted \in BOOLEAN, saved \in BOOLEAN :
         /\ saved => deleted
         /\ armed' = IF deleted THEN armed \ {s} ELSE armed
         /\ press' = [press EXCEPT ![p] = [at |-> "bump", stop |-> s, saved |-> saved]]
  BY DEF DisarmRecord
<1>3. /\ Arming(s) = {} /\ owed' = owed \ {s} /\ call' = Released(s)
      /\ UNCHANGED <<flags, loaded, disarms, lifted>>
  BY DEF DisarmRecord, Orderly
<1>4. /\ armed' \subseteq armed /\ armed \ {s} \subseteq armed' /\ (saved => s \notin armed')
  BY <1>2
<1>5. \A q \in Presses : press'[q] = IF q = p THEN [at |-> "bump", stop |-> s, saved |-> saved]
                                               ELSE press[q]
  BY <1>2 DEF KillInv, Typed, KillTypeOK
<1>6. PressesInv'
  <2>1. ASSUME NEW q \in Presses, q # p, press[q].at = "save"
        PROVE  Disarming(press[q].stop)' = {}
    <3>1. press[q].stop # s
      BY <1>3, <2>1 DEF Arming
    <3>2. Disarming(press[q].stop) = {}
      BY <2>1 DEF KillInv, PressesInv
    <3>3. QED
      BY <1>5, <2>1, <3>1, <3>2 DEF Disarming
  <2>2. QED
    BY <1>3, <1>4, <1>5, <2>1 DEF KillInv, PressesInv, Lifting
<1>7. StopsInv'
  BY <1>3, <1>4 DEF KillInv, StopsInv
<1>8. ASSUME NEW c \in Calls PROVE (Current(call[c]) /\ Covers(call[c]) /\ Heeds(call[c]))'
  <2>1. /\ call'[c].at = call[c].at /\ call'[c].gen = call[c].gen
        /\ call'[c].rows = call[c].rows /\ call'[c].stop = call[c].stop
        /\ call'[c].bound => call[c].bound /\ call[c].stop # s
    BY <1>3 DEF Released, KillInv, Typed, KillTypeOK, CallAt
  <2>2. \A q \in Presses : press'[q].at = "clear" => press'[q] = press[q]
    BY <1>5
  <2>3. QED
    BY <1>3, <2>1, <2>2 DEF KillInv, Current, Covers, Heeds
<1>9. QED
  BY <1>1, <1>6, <1>7, <1>8 DEF KillInv

\* The first half of a disarm, which moves the epoch so that no reload under way can write back, keeps the invariant.
LEMMA DisarmBumpInv == ASSUME KillInv, NEW p \in Presses, DisarmBump(p) PROVE KillInv'
<1>1. Typed'
  BY PressTyped DEF KillInv
<1>2. press[p].at = "bump" /\ UNCHANGED <<armed, flags, loaded, call, owed, lifted>>
  BY DEF DisarmBump
<1>3. disarms \in Int /\ disarms' \in {disarms, disarms + 1}
  BY KillAssumption DEF DisarmBump, KillInv, Typed, KillTypeOK
<1>4. /\ \A q \in Presses \ {p} : press'[q] = press[q]
      /\ \/ /\ press'[p].at = "clear" /\ press'[p].stop = press[p].stop
            /\ press'[p].saved = press[p].saved /\ disarms' = disarms + 1
         \/ press'[p].at = "idle"
  BY DEF DisarmBump, Finish, NoPress, KillInv, Typed, KillTypeOK, PressAt
<1>5. PressesInv'
  <2>1. ASSUME NEW q \in Presses, press'[q].at = "save"
        PROVE  q # p /\ Disarming(press[q].stop)' = {}
    <3>1. q # p /\ press[q].at = "save"
      BY <1>4, <2>1
    <3>2. Disarming(press[q].stop) = {}
      BY <3>1 DEF KillInv, PressesInv
    <3>3. QED
      BY <1>2, <1>4, <3>1, <3>2 DEF Disarming
  <2>2. QED
    BY <1>2, <1>4, <2>1 DEF KillInv, PressesInv, Lifting
<1>6. StopsInv'
  BY <1>2 DEF KillInv, StopsInv
<1>7. ASSUME NEW c \in Calls PROVE (Current(call[c]) /\ Covers(call[c]) /\ Heeds(call[c]))'
  <2>1. call[c].gen \in Int
    BY KillAssumption DEF KillInv, Typed, KillTypeOK, CallAt, Unreadable
  <2>2. Current(call[c])'
    <3>1. CASE disarms' = disarms + 1
      BY <1>2, <1>3, <2>1, <3>1 DEF KillInv, Current
    <3>2. CASE disarms' = disarms /\ press'[p].at = "idle"
      BY <1>2, <1>4, <3>2 DEF KillInv, Current
    <3>3. QED
      BY <1>3, <1>4, <3>1, <3>2
  <2>3. QED
    BY <1>2, <2>2 DEF KillInv, Covers, Heeds
<1>8. QED
  BY <1>1, <1>5, <1>6, <1>7 DEF KillInv

\* The second half of a disarm, which clears the flag, keeps the invariant.
LEMMA DisarmFlagInv == ASSUME KillInv, NEW p \in Presses, DisarmFlag(p) PROVE KillInv'
<1> DEFINE s == press[p].stop
<1>1. Typed'
  BY PressTyped DEF KillInv
<1>2. /\ press[p].at = "clear" /\ s \notin owed
      /\ UNCHANGED <<armed, loaded, disarms, call, owed>>
  BY DEF DisarmFlag, KillInv, PressesInv, Lifting
<1>3. /\ \A q \in Presses \ {p} : press'[q] = press[q]
      /\ press'[p].at = "idle"
  BY DEF DisarmFlag, Finish, NoPress, KillInv, Typed, KillTypeOK
<1>4. /\ flags' \subseteq flags /\ flags \ {s} \subseteq flags'
      /\ \/ lifted' = lifted
         \/ lifted' = lifted \cup {s} /\ press[p].saved /\ s \notin flags' /\ s \notin armed
  BY <1>2 DEF DisarmFlag, KillInv, PressesInv, Lifting
<1>5. PressesInv'
  <2>1. ASSUME NEW q \in Presses, press'[q].at = "save"
        PROVE  q # p /\ press[q].stop # s /\ Disarming(press[q].stop)' = {}
    <3>1. q # p /\ press[q].at = "save"
      BY <1>3, <2>1
    <3>2. Disarming(press[q].stop) = {}
      BY <3>1 DEF KillInv, PressesInv
    <3>3. press[q].stop # s
      BY <1>2, <3>2 DEF Disarming
    <3>4. QED
      BY <1>3, <3>1, <3>2, <3>3 DEF Disarming
  <2>2. QED
    BY <1>2, <1>3, <1>4, <2>1 DEF KillInv, PressesInv, Lifting
<1>6. StopsInv'
  BY <1>2, <1>4 DEF KillInv, StopsInv
<1>7. ASSUME NEW c \in Calls PROVE (Current(call[c]) /\ Covers(call[c]) /\ Heeds(call[c]))'
  <2>1. \A q \in Presses : press'[q].at = "clear" => press'[q] = press[q]
    BY <1>3
  <2>2. Current(call[c])'
    BY <1>2, <1>4, <2>1 DEF KillInv, Current
  <2>3. QED
    BY <1>2, <1>4, <2>2 DEF KillInv, Covers, Heeds
<1>8. QED
  BY <1>1, <1>5, <1>6, <1>7 DEF KillInv

\* A flush finds no reload and no arm half done.
LEMMA FlushInv == ASSUME Orderly, KillInv, KillFlush PROVE KillInv'
<1>1. Typed'
  BY NextTyped DEF KillInv, KillNext
<1>2. /\ \A s \in Stops : Arming(s) = {}
      /\ \A c \in Calls : call[c].at \notin {"marker"} \cup Reloading
      /\ flags' = {} /\ loaded' = FALSE
      /\ UNCHANGED <<armed, press, call, owed, lifted>>
  BY DEF KillFlush, Orderly
<1>3. \A q \in Presses : press[q].at # "save"
  BY <1>2 DEF Arming, KillInv, Typed, PressesName, Pressing
<1>4. PressesInv' /\ StopsInv'
  BY <1>2, <1>3 DEF KillInv, PressesInv, StopsInv
<1>5. ASSUME NEW c \in Calls PROVE (Current(call[c]) /\ Covers(call[c]) /\ Heeds(call[c]))'
  BY <1>2 DEF KillInv, Current, Covers, Heeds, Reloading
<1>6. QED
  BY <1>1, <1>4, <1>5 DEF KillInv

-----------------------------------------------------------------------------
\* No stop has been pressed: the invariant holds at the start.
LEMMA KillInitInv == KillInit => KillInv
<1> SUFFICES ASSUME KillInit PROVE KillInv
  OBVIOUS
<1>1. Typed
  BY KillInitTyped
<1>2. PressesInv /\ StopsInv
  BY DEF KillInit, NoPress, PressesInv, StopsInv, Lifting
<1>3. ASSUME NEW c \in Calls PROVE Current(call[c]) /\ Covers(call[c]) /\ Heeds(call[c])
  BY NoCallTyped DEF KillInit, Current, Covers, Heeds
<1>4. QED
  BY <1>1, <1>2, <1>3 DEF KillInv

\* Every step keeps the invariant, when no one presses both ways at once and no flush falls inside a write.
LEMMA KillNextInv == ASSUME Orderly, KillInv, [KillNext]_killVars PROVE KillInv'
<1>1. CASE UNCHANGED killVars
  <2>1. Typed'
    BY NextTyped DEF KillInv
  <2>2. QED
    BY <1>1, <2>1 DEF killVars, KillInv, PressesInv, StopsInv, Current, Covers, Heeds, Disarming
<1>2. QED
  BY <1>1, ReadInv, ReloadInv, ArmInv, DisarmRecordInv, DisarmBumpInv, DisarmFlagInv, FlushInv
     DEF KillNext

\* The invariant holds in every reachable state.
LEMMA KillInvariance == Orderly => (KillSpec => []KillInv)
<1> SUFFICES ASSUME Orderly PROVE KillSpec => []KillInv
  OBVIOUS
<1>1. KillInv /\ [KillNext]_killVars => KillInv'
  BY KillNextInv
<1>2. QED
  BY <1>1, KillInitInv, PTL DEF KillSpec

\* A stop that was acknowledged as armed and saved stops every call that reads the
\* kill state, through losses of Redis and the reloads of others (readKillState,
\* reloadFromRecord), for any number of stops, operators and calls.
THEOREM SavedStopsHold == Orderly => (KillSpec => []SavedStopIsEnforced)
<1>1. KillInv => SavedStopIsEnforced
  BY DEF KillInv, Heeds, SavedStopIsEnforced, Reloading
<1>2. QED
  BY <1>1, KillInvariance, PTL

\* A stop that was acknowledged as lifted is put back by no reload (WRITE_BACK_LUA).
THEOREM LiftedStopsStay == Orderly => (KillSpec => []LiftedStaysLifted)
<1>1. KillInv => LiftedStaysLifted
  BY DEF KillInv, StopsInv, LiftedStaysLifted
<1>2. QED
  BY <1>1, KillInvariance, PTL
=============================================================================
