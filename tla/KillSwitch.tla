------------------------------ MODULE KillSwitch ------------------------------
(***************************************************************************)
(* The stops of one tenant (its master kill, a service's, a session's):    *)
(* rows in Postgres, and the copy in Redis that every call reads.  Presses *)
(* arm and disarm in several writes; a call that finds Redis without the   *)
(* tenant's `loaded` marker reloads the copy from the rows before it       *)
(* decides.  Every request here is one of those, interleaved write by      *)
(* write, any of which may fail or lose its reply.                         *)
(***************************************************************************)
EXTENDS Integers

CONSTANTS
    Stops,          \* the stops a tenant may arm
    NoStop,         \* no request is under way
    SessionStops,   \* those a call reads apart from the marker (isSuspended)
    Presses,        \* operators' requests in flight
    Calls,          \* gateway calls in flight
    MaxDisarms,     \* bound on the kill generation
    FailClosed,     \* KILL_SWITCH_FAIL_CLOSED
    OpposedPresses, \* arm and disarm of one stop may overlap
    LoudFlushes     \* Redis may lose its data inside a reload or an arm

ASSUME KillAssumption ==
    /\ SessionStops \subseteq Stops
    /\ NoStop \notin Stops
    /\ MaxDisarms \in Nat
    /\ {FailClosed, OpposedPresses, LoudFlushes} \subseteq BOOLEAN

VARIABLES
    armed,    \* kill_switch_records: one row per armed stop
    flags,    \* the keys killswitch:tenant:* and the session stops in Redis
    loaded,   \* killswitch:loaded
    disarms,  \* killswitch:gen, 0 when the key is missing
    press,    \* [Presses -> a request to arm or disarm]
    call,     \* [Calls -> a call reading the kill state]
    owed,     \* history: stops acknowledged as armed and saved, since untouched
    lifted    \* history: stops acknowledged as lifted, since untouched

killVars == <<armed, flags, loaded, disarms, press, call, owed, lifted>>

Unreadable == -1
Decided == {"admitted", "blocked", "open"}
Reloading == {"generation", "record", "sessions", "writeback"}

PressAt == [at : {"idle", "save", "bump", "clear"}, stop : Stops \cup {NoStop}, saved : BOOLEAN]
CallAt == [at : {"idle", "marker"} \cup Reloading \cup Decided,
           stop : Stops \cup {NoStop}, flag : BOOLEAN,
           gen : Unreadable..MaxDisarms, rows : SUBSET Stops,
           bound : BOOLEAN]  \* history: its stop has been owed all along

NoPress == [at |-> "idle", stop |-> NoStop, saved |-> FALSE]
NoCall == [at |-> "idle", stop |-> NoStop, flag |-> FALSE, gen |-> Unreadable, rows |-> {},
           bound |-> FALSE]

KillTypeOK ==
    /\ armed \subseteq Stops
    /\ flags \subseteq Stops
    /\ loaded \in BOOLEAN
    /\ disarms \in 0..MaxDisarms
    /\ press \in [Presses -> PressAt]
    /\ call \in [Calls -> CallAt]
    /\ owed \subseteq Stops
    /\ lifted \subseteq Stops

-----------------------------------------------------------------------------
(* setTenantKillDurably, setServiceKillDurably, setSessionStopped          *)

Arming(s) == {p \in Presses : press[p].at = "save" /\ press[p].stop = s}
Disarming(s) == {p \in Presses : press[p].at \in {"bump", "clear"} /\ press[p].stop = s}

Finish(p) == press' = [press EXCEPT ![p] = NoPress]

\* Redis first: the stop is in force at once.  A lost reply throws, and the row
\* is never attempted.
ArmFlag(p, s) ==
    /\ press[p].at = "idle"
    /\ OpposedPresses \/ Disarming(s) = {}
    /\ flags' = flags \cup {s}
    /\ lifted' = lifted \ {s}
    /\ \/ press' = [press EXCEPT ![p] = [at |-> "save", stop |-> s, saved |-> FALSE]]
       \/ UNCHANGED press
    /\ UNCHANGED <<armed, loaded, disarms, call, owed>>

\* saveKillRecord; an insert that was applied may still report a failure.
ArmRecord(p) ==
    LET s == press[p].stop
    IN  /\ press[p].at = "save"
        /\ Finish(p)
        /\ \/ armed' = armed \cup {s} /\ owed' = owed \cup {s}
           \/ armed' \in {armed, armed \cup {s}} /\ UNCHANGED owed
        /\ UNCHANGED <<flags, loaded, disarms, call, lifted>>

\* Calls still reading a stop are no longer owed it.
Released(s) == [c \in Calls |-> IF call[c].stop = s THEN [call[c] EXCEPT !.bound = FALSE]
                                                   ELSE call[c]]

\* deleteKillRecord: a failure is reported, and the rest is done all the same.
DisarmRecord(p, s) ==
    /\ press[p].at = "idle"
    /\ OpposedPresses \/ Arming(s) = {}
    /\ \E deleted, saved \in BOOLEAN :
          /\ saved => deleted
          /\ armed' = IF deleted THEN armed \ {s} ELSE armed
          /\ press' = [press EXCEPT ![p] = [at |-> "bump", stop |-> s, saved |-> saved]]
    /\ owed' = owed \ {s}
    /\ call' = Released(s)
    /\ UNCHANGED <<flags, loaded, disarms, lifted>>

\* Mutant: the generation is left alone.
DisarmBump_None(p) ==
    /\ press[p].at = "bump"
    /\ press' = [press EXCEPT ![p].at = "clear"]
    /\ UNCHANGED <<armed, flags, loaded, disarms, call, owed, lifted>>

\* bumpKillGeneration; a lost reply throws, applied or not.
DisarmBump(p) ==
    /\ press[p].at = "bump"
    /\ disarms < MaxDisarms
    /\ \/ disarms' = disarms + 1 /\ press' = [press EXCEPT ![p].at = "clear"]
       \/ disarms' \in {disarms, disarms + 1} /\ Finish(p)
    /\ UNCHANGED <<armed, flags, loaded, call, owed, lifted>>

DisarmFlag(p) ==
    LET s == press[p].stop
    IN  /\ press[p].at = "clear"
        /\ Finish(p)
        /\ \/ /\ flags' = flags \ {s}
              /\ lifted' = IF press[p].saved THEN lifted \cup {s} ELSE lifted
           \/ flags' \in {flags, flags \ {s}} /\ UNCHANGED lifted
        /\ UNCHANGED <<armed, loaded, disarms, call, owed>>

-----------------------------------------------------------------------------
(* readKillState *)

\* What is answered when the flags, or the rows behind them, cannot be read.
Posture == IF FailClosed THEN "blocked" ELSE "open"
Verdict(stopped) == IF stopped THEN "blocked" ELSE "admitted"

\* What is kept of a call once it is decided.
Close(read, verdict) ==
    [NoCall EXCEPT !.at = verdict, !.bound = read.bound /\ verdict = "admitted"]

Look(s) == [NoCall EXCEPT !.stop = s, !.flag = s \in flags, !.bound = s \in owed]

Step(c, read) ==
    /\ call' = [call EXCEPT ![c] = read]
    /\ UNCHANGED <<armed, flags, loaded, disarms, press, owed, lifted>>

\* The marker, once read, either answers or starts a reload.
Marked(read) ==
    IF loaded THEN Close(read, Verdict(read.flag)) ELSE [read EXCEPT !.at = "generation"]

\* One MGET of the flag and the marker; it may fail.
ReadFlagAndMarker(c, s) ==
    /\ call[c].at \in {"idle"} \cup Decided
    /\ s \notin SessionStops
    /\ Step(c, Marked(Look(s))) \/ Step(c, Close(Look(s), Posture))

\* A session's stop is read beside the MGET, not in it: first here (read last,
\* it is only fresher).
ReadSessionFlag(c, s) ==
    /\ call[c].at \in {"idle"} \cup Decided
    /\ s \in SessionStops
    /\ Step(c, [Look(s) EXCEPT !.at = "marker"])

\* A stop that another call put back between the two reads is missed once.
ReadMarker(c) ==
    LET missed == ~call[c].flag /\ call[c].stop \in flags
    IN  /\ call[c].at = "marker"
        /\ Step(c, Marked([call[c] EXCEPT !.bound = @ /\ ~missed]))

ReadGeneration(c) ==
    /\ call[c].at = "generation"
    /\ \E g \in {disarms, Unreadable} : Step(c, [call[c] EXCEPT !.at = "record", !.gen = g])

\* When the rows cannot be read, what Redis did hold still counts.
Unread(c) == Step(c, Close(call[c], IF call[c].flag THEN "blocked" ELSE Posture))

\* loadKillRecords: the broad stops, and in a query of its own the sessions.
ReadRows(c) ==
    /\ call[c].at = "record"
    /\ \/ Step(c, [call[c] EXCEPT !.at = "sessions", !.rows = armed \ SessionStops])
       \/ Unread(c)

ReadSessionRows(c) ==
    /\ call[c].at = "sessions"
    /\ \/ Step(c, [call[c] EXCEPT !.at = "writeback", !.rows = @ \cup (armed \cap SessionStops)])
       \/ Unread(c)

\* Mutant: the marker is set without the stops.
WriteBack_MarkerOnly(c) ==
    IF call[c].gen = disarms
    THEN loaded' = TRUE /\ UNCHANGED flags
    ELSE UNCHANGED <<flags, loaded>>

\* WRITE_BACK_LUA: only adds, and only if no disarm came in between.
WriteBack(c) ==
    IF call[c].gen = disarms
    THEN /\ flags' = flags \cup call[c].rows
         /\ loaded' = TRUE
    ELSE UNCHANGED <<flags, loaded>>

\* The rows decide this call whether or not they could be written back.
Reload(c) ==
    /\ call[c].at = "writeback"
    /\ WriteBack(c) \/ UNCHANGED <<flags, loaded>>
    /\ call' = [call EXCEPT ![c] =
                  Close(call[c], Verdict(call[c].flag \/ call[c].stop \in call[c].rows))]
    /\ UNCHANGED <<armed, disarms, press, owed, lifted>>

-----------------------------------------------------------------------------
\* Redis loses everything.
KillFlush ==
    /\ LoudFlushes \/ /\ \A s \in Stops : Arming(s) = {}
                      /\ \A c \in Calls : call[c].at \notin {"marker"} \cup Reloading
    /\ flags' = {}
    /\ loaded' = FALSE
    /\ disarms' = 0
    /\ UNCHANGED <<armed, press, call, owed, lifted>>

\* A tenant that has armed nothing, loaded or not.
KillInit ==
    /\ armed = {} /\ flags = {} /\ owed = {} /\ lifted = {}
    /\ loaded \in BOOLEAN
    /\ disarms = 0
    /\ press = [p \in Presses |-> NoPress]
    /\ call = [c \in Calls |-> NoCall]

KillNext ==
    \/ \E p \in Presses : \/ \E s \in Stops : ArmFlag(p, s) \/ DisarmRecord(p, s)
                          \/ ArmRecord(p) \/ DisarmBump(p) \/ DisarmFlag(p)
    \/ \E c \in Calls : \/ \E s \in Stops : ReadFlagAndMarker(c, s) \/ ReadSessionFlag(c, s)
                        \/ ReadMarker(c) \/ ReadGeneration(c) \/ ReadRows(c)
                        \/ ReadSessionRows(c) \/ Reload(c)
    \/ KillFlush

KillSpec == KillInit /\ [][KillNext]_killVars

-----------------------------------------------------------------------------
(* Properties *)

\* A stop that was acknowledged as armed and saved stops every call that reads
\* the kill state while it lasts, although Redis may lose its data and others
\* reload it meanwhile: the call reads the flag or the rows behind it
\* (readKillState, reloadFromRecord).  Excepted: a fail-open answer when nothing
\* can be read, and a session's call whose two reads straddle another's reload.
SavedStopIsEnforced == \A c \in Calls : call[c].at = "admitted" => ~call[c].bound

\* A stop that was acknowledged as lifted stays lifted: no reload that read its
\* row before the disarm writes it back after it (WRITE_BACK_LUA, A9).
LiftedStaysLifted == flags \cap lifted = {}
=============================================================================
