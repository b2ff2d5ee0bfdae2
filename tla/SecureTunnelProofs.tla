-------------------------- MODULE SecureTunnelProofs --------------------------
(***************************************************************************)
(* What the connector supervisor keeps, for any number of processes.       *)
(*                                                                         *)
(* That only a spawn loses a process rests on what the queue of operations *)
(* guarantees: nobody but the operation that runs awaits a target, and the *)
(* slot of the queue is in use exactly while it attempts.                  *)
(***************************************************************************)
EXTENDS SecureTunnel, TLAPS

TargetIsAwaited == target # NoConnector => op \in {"stopping", "restopping", "restarting"}

AttemptingHasSlot == op = "attempting" <=> prep["op"] # "idle"

Bookkeeping == TargetIsAwaited /\ AttemptingHasSlot

IInv == TypeOK /\ TimerIsJustified /\ Bookkeeping

-----------------------------------------------------------------------------
(* The diagnostics.                                                        *)

LEMMA DisownedType ==
    ASSUME NEW d \in Diagnostics
    PROVE  Disowned(d) \in Diagnostics /\ Disowned(d).class = d.class
BY DEF Disowned, Diagnostics

LEMMA NoMisses == 0 \in 0..MissLimit
BY MissLimitAssumption

LEMMA NoDiagnosticType == NoDiagnostic \in Diagnostics /\ NoDiagnostic.class = "none"
BY DEF NoDiagnostic, Diagnostics, Classes

LEMMA RecordedType ==
    ASSUME TypeOK, NEW class \in Classes
    PROVE  Recorded(class) \in Diagnostics
BY DEF TypeOK, Recorded, Diagnostics

-----------------------------------------------------------------------------
(* Types.                                                                  *)

LEMMA RecycleType ==
    ASSUME TypeOK, NEW d \in Diagnostics, NEW p \in Phases, NEW m \in 0..MissLimit,
           RequestAttemptRecycle(d, p, m)
    PROVE  /\ timer' \in BOOLEAN /\ phase' \in Phases /\ misses' \in 0..MissLimit
           /\ diag' \in Diagnostics
           /\ child' \in Connectors \cup {NoConnector}
           /\ recycle' \in Connectors \cup {NoConnector}
           /\ fresh' \in [Connectors -> BOOLEAN]
           /\ doomed' \subseteq Connectors
           /\ mine' \in [Slots -> BOOLEAN]
           /\ overdue' \in BOOLEAN
<1>1. CASE CanRecycle(d) /\ Alive(child)
  <2>1. diag' \in Diagnostics
    BY <1>1, DisownedType DEF RequestAttemptRecycle
  <2>2. fresh' \in [Connectors -> BOOLEAN] /\ mine' \in [Slots -> BOOLEAN] /\ overdue' = FALSE
    BY <1>1 DEF RequestAttemptRecycle, RaiseGeneration
  <2>3. recycle' \in Connectors /\ doomed' \subseteq Connectors
    BY <1>1 DEF TypeOK, RequestAttemptRecycle, Alive
  <2> QED
    BY <1>1, <2>1, <2>2, <2>3, NoMisses DEF TypeOK, RequestAttemptRecycle, Phases
<1>2. CASE ~(CanRecycle(d) /\ Alive(child))
  BY <1>2 DEF TypeOK, RequestAttemptRecycle, Keeps
<1> QED BY <1>1, <1>2

LEMMA TypeStep == TypeOK /\ [Next]_vars => TypeOK'
<1> SUFFICES ASSUME TypeOK, [Next]_vars PROVE TypeOK'
  OBVIOUS
<1> USE DEF attemptVars, queueVars, Phases
<1>1. ASSUME NEW s \in Slots, BeginAttempt(s) PROVE TypeOK'
  <2>1. diag' \in Diagnostics
    BY <1>1, DisownedType DEF TypeOK, BeginAttempt
  <2>2. mine' \in [Slots -> BOOLEAN] /\ fresh' \in [Connectors -> BOOLEAN]
    BY <1>1 DEF BeginAttempt
  <2>3. prep' \in [Slots -> {"idle", "preparing", "clearing"}]
    BY <1>1 DEF TypeOK, BeginAttempt
  <2>4. hadReady' \in BOOLEAN /\ overdue' \in BOOLEAN /\ misses' \in 0..MissLimit
    BY <1>1, NoMisses DEF BeginAttempt
  <2>5. UNCHANGED <<exec, auto, desired, timer, phase, child, life, recycle, doomed, op, target>>
    BY <1>1 DEF BeginAttempt
  <2> QED BY <2>1, <2>2, <2>3, <2>4, <2>5 DEF TypeOK
<1>2. ASSUME NEW s \in Slots, NEW c \in Connectors, Spawn(s, c) PROVE TypeOK'
  BY <1>2 DEF TypeOK, Spawn, Idles
<1>3. ASSUME NEW s \in Slots, SpawnFails(s) PROVE TypeOK'
  BY <1>3 DEF TypeOK, SpawnFails, Idles, ScheduleReconnect, CanReconnect
<1>4. ASSUME NEW s \in TimerAttempts, TimerFires(s) PROVE TypeOK'
  <2>1. prep' \in [Slots -> {"idle", "preparing", "clearing"}]
    BY <1>4 DEF TypeOK, TimerFires
  <2>2. phase' \in Phases /\ timer' \in BOOLEAN
    BY <1>4 DEF TypeOK, TimerFires
  <2> QED BY <1>4, <2>1, <2>2 DEF TypeOK, TimerFires
<1>5. ASSUME NEW next \in {"stopping", "restopping"}, StopThen(next) PROVE TypeOK'
  <2>1. fresh' \in [Connectors -> BOOLEAN] /\ mine' \in [Slots -> BOOLEAN] /\ overdue' = FALSE
    BY <1>5 DEF StopThen, RaiseGeneration
  <2>2. diag' \in Diagnostics
    BY <1>5, NoDiagnosticType DEF StopThen
  <2>3. /\ phase' \in Phases
        /\ child' \in Connectors \cup {NoConnector}
        /\ target' \in Connectors \cup {NoConnector}
    BY <1>5 DEF TypeOK, StopThen, Alive
  <2> QED BY <1>5, <2>1, <2>2, <2>3, NoMisses DEF TypeOK, StopThen
<1>6. ASSUME StopReturns PROVE TypeOK'
  BY <1>6 DEF TypeOK, StopReturns
<1>7. ASSUME Start PROVE TypeOK'
  <2>1. desired' \in BOOLEAN
    BY <1>7 DEF TypeOK, Start
  <2>2. prep' \in [Slots -> {"idle", "preparing", "clearing"}]
    BY <1>7 DEF TypeOK, Start
  <2>3. phase' \in Phases /\ op' \in {"idle", "attempting"}
    BY <1>7 DEF TypeOK, Start
  <2> QED BY <1>7, <2>1, <2>2, <2>3, NoMisses DEF TypeOK, Start
<1>8. ASSUME Refresh PROVE TypeOK'
  BY <1>8 DEF TypeOK, Refresh, RefreshedPhase, ScheduleReconnect, CanReconnect
<1>9. ASSUME RestartForNetworkChange PROVE TypeOK'
  <2>1. fresh' \in [Connectors -> BOOLEAN] /\ mine' \in [Slots -> BOOLEAN] /\ overdue' = FALSE
    BY <1>9 DEF RestartForNetworkChange, RaiseGeneration
  <2>2. diag' \in Diagnostics
    BY <1>9, DisownedType DEF TypeOK, RestartForNetworkChange
  <2>3. target' \in Connectors \cup {NoConnector}
    BY <1>9 DEF RestartForNetworkChange, Alive
  <2> QED BY <1>9, <2>1, <2>2, <2>3, NoMisses DEF TypeOK, RestartForNetworkChange
<1>10. ASSUME RestartResumes PROVE TypeOK'
  BY <1>10 DEF TypeOK, RestartResumes, RefreshedPhase
<1>11. ASSUME NEW b \in BOOLEAN, SetAutoReconnect(b) PROVE TypeOK'
  BY <1>11 DEF TypeOK, SetAutoReconnect
<1>12. ASSUME Configure PROVE TypeOK'
  BY <1>12, NoDiagnosticType DEF TypeOK, Configure, RaiseGeneration
<1>13. ASSUME TrustCurrentExecutable PROVE TypeOK'
  BY <1>13 DEF TypeOK, TrustCurrentExecutable
<1>14. ASSUME NEW c \in Connectors, ProbeReady(c) PROVE TypeOK'
  BY <1>14, NoDiagnosticType, NoMisses DEF TypeOK, ProbeReady, Keeps
<1>15. ASSUME NEW c \in Connectors, ProbeWaiting(c) PROVE TypeOK'
  BY <1>15 DEF TypeOK, ProbeWaiting, Keeps
<1>16. ASSUME NEW c \in Connectors, ProbeStale(c) PROVE TypeOK'
  <2>1. CASE Recyclable(diag)
    BY <1>16, <2>1, RecycleType DEF TypeOK, ProbeStale
  <2>2. CASE ~Recyclable(diag)
    BY <1>16, <2>2 DEF TypeOK, ProbeStale, Keeps
  <2> QED BY <2>1, <2>2
<1>17. ASSUME NEW c \in Connectors, ProbeUnready(c) PROVE TypeOK'
  <2>1. Missed \in 0..MissLimit
    BY MissLimitAssumption DEF TypeOK, Missed
  <2>2. PICK d \in {diag, Recorded("localMcp")} :
           IF Exhausted /\ Recyclable(d)
           THEN RequestAttemptRecycle(d, "waiting", Missed)
           ELSE Keeps(d, "waiting", Missed) /\ timer' = (timer /\ d.class # "action")
    BY <1>17 DEF ProbeUnready
  <2>3. d \in Diagnostics
    BY <2>2, RecordedType DEF TypeOK, Classes
  <2>4. CASE Exhausted /\ Recyclable(d)
    <3>1. RequestAttemptRecycle(d, "waiting", Missed)
      BY <2>2, <2>4
    <3>2. /\ timer' \in BOOLEAN /\ phase' \in Phases /\ misses' \in 0..MissLimit
          /\ diag' \in Diagnostics
          /\ child' \in Connectors \cup {NoConnector}
          /\ recycle' \in Connectors \cup {NoConnector}
          /\ fresh' \in [Connectors -> BOOLEAN]
          /\ doomed' \subseteq Connectors
          /\ mine' \in [Slots -> BOOLEAN]
          /\ overdue' \in BOOLEAN
      BY <2>1, <2>3, <3>1, RecycleType
    <3> QED BY <1>17, <3>2 DEF TypeOK, ProbeUnready
  <2>5. CASE ~(Exhausted /\ Recyclable(d))
    <3>1. Keeps(d, "waiting", Missed) /\ timer' = (timer /\ d.class # "action")
      BY <2>2, <2>5
    <3> QED BY <1>17, <2>1, <2>3, <3>1 DEF TypeOK, ProbeUnready, Keeps
  <2> QED BY <2>4, <2>5
<1>18. ASSUME DeadlinePasses PROVE TypeOK'
  BY <1>18 DEF TypeOK, DeadlinePasses
<1>19. ASSUME NEW c \in Connectors, NEW class \in Classes \ {"none"}, LogsFailure(c, class)
       PROVE  TypeOK'
  BY <1>19, RecordedType DEF TypeOK, LogsFailure, Keeps
<1>20. ASSUME NEW c \in Connectors, LogsTransport(c) PROVE TypeOK'
  BY <1>20, RecycleType DEF TypeOK, LogsTransport
<1>21. ASSUME NEW c \in Connectors, ConnectorError(c) PROVE TypeOK'
  BY <1>21 DEF TypeOK, ConnectorError
<1>22. ASSUME NEW c \in Connectors, Exits(c) PROVE TypeOK'
  BY <1>22 DEF TypeOK, Exits
<1>23. ASSUME NEW c \in Connectors, HandleChildClose(c) PROVE TypeOK'
  <2>1. /\ life' \in [Connectors -> {"none", "alive", "exited"}]
        /\ fresh' \in [Connectors -> BOOLEAN]
    BY <1>23 DEF TypeOK, HandleChildClose
  <2>2. /\ desired' \in BOOLEAN /\ timer' \in BOOLEAN /\ overdue' \in BOOLEAN
        /\ phase' \in Phases /\ child' \in Connectors \cup {NoConnector}
    BY <1>23 DEF TypeOK, HandleChildClose, ScheduleReconnect, CanReconnect
  <2> QED BY <1>23, <2>1, <2>2 DEF TypeOK, HandleChildClose
<1>24. ASSUME NEW c \in Connectors, RecycleReturns(c) PROVE TypeOK'
  BY <1>24 DEF TypeOK, RecycleReturns, ScheduleReconnect, CanReconnect
<1>25. ASSUME ExecutableChanges PROVE TypeOK'
  BY <1>25 DEF TypeOK, ExecutableChanges
<1>26. CASE UNCHANGED vars
  BY <1>26 DEF TypeOK, vars
<1> QED
  BY <1>1, <1>2, <1>3, <1>4, <1>5, <1>6, <1>7, <1>8, <1>9, <1>10, <1>11, <1>12, <1>13,
     <1>14, <1>15, <1>16, <1>17, <1>18, <1>19, <1>20, <1>21, <1>22, <1>23, <1>24, <1>25, <1>26
  DEF Next, Operation, Attempt, Stop, StartStops, Callback, Probe
-----------------------------------------------------------------------------
(* The timer.                                                              *)

\* Recycling arms the timer, or leaves it armed, only when it may reconnect.
LEMMA RecycleIsJustified ==
    ASSUME TypeOK, TimerIsJustified, NEW d \in Diagnostics, NEW p, NEW m,
           RequestAttemptRecycle(d, p, m), d.class = "action" => diag.class = "action",
           UNCHANGED <<auto, desired>>
    PROVE  TimerIsJustified'
<1> USE DEF TimerIsJustified, CanReconnect, RequiresLocalAction, CanRecycle
<1>1. CASE CanRecycle(d) /\ Alive(child)
  <2>1. diag'.class = d.class
    BY <1>1, DisownedType DEF RequestAttemptRecycle
  <2> QED BY <1>1, <2>1
<1>2. CASE ~(CanRecycle(d) /\ Alive(child))
  <2>1. diag' = d /\ (timer' => timer \/ CanRecycle(d))
    BY <1>2, Zenon DEF RequestAttemptRecycle, Keeps
  <2> QED BY <2>1
<1> QED BY <1>1, <1>2

LEMMA TimerStep ==
    ASSUME TypeOK, TimerIsJustified, [Next]_vars
    PROVE  TimerIsJustified'
<1> USE DEF attemptVars, queueVars, TimerIsJustified, CanReconnect, RequiresLocalAction
<1>1. ASSUME NEW s \in Slots, BeginAttempt(s) PROVE TimerIsJustified'
  BY <1>1, DisownedType DEF TypeOK, BeginAttempt
<1>2. ASSUME NEW s \in Slots, SpawnFails(s) PROVE TimerIsJustified'
  BY <1>2 DEF SpawnFails, ScheduleReconnect
<1>3. ASSUME NEW s \in TimerAttempts, TimerFires(s) PROVE TimerIsJustified'
  BY <1>3 DEF TimerFires
<1>4. ASSUME NEW next, StopThen(next) PROVE TimerIsJustified'
  BY <1>4 DEF StopThen
<1>5. ASSUME Start PROVE TimerIsJustified'
  BY <1>5 DEF Start
<1>6. ASSUME Refresh PROVE TimerIsJustified'
  BY <1>6 DEF Refresh, ScheduleReconnect
<1>7. ASSUME RestartForNetworkChange PROVE TimerIsJustified'
  BY <1>7 DEF RestartForNetworkChange
<1>8. ASSUME NEW b \in BOOLEAN, SetAutoReconnect(b) PROVE TimerIsJustified'
  BY <1>8 DEF TypeOK, SetAutoReconnect
<1>9. ASSUME Configure PROVE TimerIsJustified'
  BY <1>9 DEF Configure
<1>10. ASSUME NEW c \in Connectors, ProbeReady(c) PROVE TimerIsJustified'
  BY <1>10, NoDiagnosticType DEF ProbeReady, Keeps
<1>11. ASSUME NEW c \in Connectors, ProbeStale(c) PROVE TimerIsJustified'
  <2>1. CASE Recyclable(diag)
    BY <1>11, <2>1, RecycleIsJustified DEF TypeOK, ProbeStale
  <2>2. CASE ~Recyclable(diag)
    BY <1>11, <2>2 DEF ProbeStale, Keeps
  <2> QED BY <2>1, <2>2
<1>12. ASSUME NEW c \in Connectors, ProbeUnready(c) PROVE TimerIsJustified'
  <2>1. PICK d \in {diag, Recorded("localMcp")} :
           IF Exhausted /\ Recyclable(d)
           THEN RequestAttemptRecycle(d, "waiting", Missed)
           ELSE Keeps(d, "waiting", Missed) /\ timer' = (timer /\ d.class # "action")
    BY <1>12 DEF ProbeUnready
  <2>2. d \in Diagnostics
    BY <2>1, RecordedType DEF TypeOK, Classes
  <2>3. UNCHANGED <<auto, desired>>
    BY <1>12 DEF ProbeUnready
  <2>4. CASE Exhausted /\ Recyclable(d)
    BY <2>1, <2>2, <2>3, <2>4, RecycleIsJustified DEF Recyclable
  <2>5. CASE ~(Exhausted /\ Recyclable(d))
    <3>1. diag' = d /\ (timer' => timer /\ d.class # "action")
      BY <2>1, <2>5, Zenon DEF Keeps
    <3> QED BY <2>3, <3>1
  <2> QED BY <2>4, <2>5
<1>13. ASSUME NEW c \in Connectors, NEW class \in Classes \ {"none"}, LogsFailure(c, class)
       PROVE  TimerIsJustified'
  <2>1. diag' = Recorded(class) /\ (timer' => timer /\ Recorded(class).class # "action")
    BY <1>13, Zenon DEF LogsFailure, Keeps
  <2> QED BY <1>13, <2>1 DEF LogsFailure
<1>14. ASSUME NEW c \in Connectors, LogsTransport(c) PROVE TimerIsJustified'
  BY <1>14, RecycleIsJustified DEF TypeOK, LogsTransport
<1>15. ASSUME NEW c \in Connectors, HandleChildClose(c) PROVE TimerIsJustified'
  <2>1. CASE IsCurrentAttempt(c)
    <3>1. /\ UNCHANGED <<auto, diag>>
          /\ desired' <=> desired /\ auto
          /\ timer' <=> timer \/ CanReconnect
      BY <1>15, <2>1, Zenon DEF HandleChildClose, ScheduleReconnect
    <3> QED BY <3>1
  <2>2. CASE ~IsCurrentAttempt(c)
    BY <1>15, <2>2 DEF HandleChildClose
  <2> QED BY <2>1, <2>2
<1>16. ASSUME NEW c \in Connectors, RecycleReturns(c) PROVE TimerIsJustified'
  BY <1>16 DEF RecycleReturns, ScheduleReconnect
<1>17. CASE \/ \E s \in Slots, c \in Connectors : Spawn(s, c)
            \/ StopReturns \/ RestartResumes \/ TrustCurrentExecutable
            \/ \E c \in Connectors : ProbeWaiting(c) \/ ConnectorError(c) \/ Exits(c)
            \/ DeadlinePasses \/ ExecutableChanges \/ UNCHANGED vars
  <2>1. UNCHANGED <<auto, desired, timer, diag>>
    BY <1>17 DEF Spawn, StopReturns, RestartResumes, TrustCurrentExecutable, ProbeWaiting,
                 Keeps, ConnectorError, Exits, DeadlinePasses, ExecutableChanges, vars
  <2> QED BY <2>1
<1> QED
  BY <1>1, <1>2, <1>3, <1>4, <1>5, <1>6, <1>7, <1>8, <1>9, <1>10, <1>11, <1>12, <1>13,
     <1>14, <1>15, <1>16, <1>17
  DEF Next, Operation, Attempt, Stop, StartStops, Callback, Probe
-----------------------------------------------------------------------------
(* The operation that runs, its slot and its target.                       *)

LEMMA BookkeepingStep ==
    ASSUME TypeOK, Bookkeeping, [Next]_vars
    PROVE  Bookkeeping'
<1> USE DEF attemptVars, queueVars, Bookkeeping, TargetIsAwaited, AttemptingHasSlot, Slots
<1>1. ASSUME NEW s \in Slots, Attempt(s) PROVE Bookkeeping'
  BY <1>1 DEF TypeOK, Attempt, BeginAttempt, Spawn, SpawnFails, Idles
<1>2. ASSUME NEW s \in TimerAttempts, TimerFires(s) PROVE Bookkeeping'
  <2>1. UNCHANGED <<op, target>> /\ prep'["op"] = prep["op"]
    BY <1>2, TimerAttemptsAssumption DEF TypeOK, TimerFires
  <2> QED BY <2>1
<1>3. ASSUME NEW next \in {"stopping", "restopping"}, Idle, StopThen(next) PROVE Bookkeeping'
  BY <1>3 DEF TypeOK, Idle, StopThen
<1>4. CASE StopReturns
  BY <1>4 DEF TypeOK, StopReturns
<1>5. CASE Start
  BY <1>5 DEF TypeOK, Idle, Start
<1>6. CASE RestartForNetworkChange
  BY <1>6 DEF TypeOK, Idle, RestartForNetworkChange
<1>7. CASE RestartResumes
  BY <1>7 DEF TypeOK, RestartResumes
<1>8. CASE \/ Refresh \/ Configure \/ TrustCurrentExecutable
           \/ \E b \in BOOLEAN : SetAutoReconnect(b)
           \/ \E c \in Connectors : Callback(c)
           \/ DeadlinePasses \/ ExecutableChanges \/ UNCHANGED vars
  <2>1. UNCHANGED <<op, target, prep>>
    BY <1>8 DEF Refresh, Configure, TrustCurrentExecutable, SetAutoReconnect, Callback, Probe,
                ProbeReady, ProbeWaiting, ProbeStale, ProbeUnready, LogsTransport, ConnectorError,
                LogsFailure, Exits, HandleChildClose, RecycleReturns, DeadlinePasses,
                ExecutableChanges, vars
  <2> QED BY <2>1
<1> QED
  BY <1>1, <1>2, <1>3, <1>4, <1>5, <1>6, <1>7, <1>8 DEF Next, Operation, Stop, StartStops

-----------------------------------------------------------------------------
(* Processes.                                                              *)

\* What OnlySpawnsLose says of one process.
StaysInSight(c) ==
    Alive(c) /\ InSight(c) =>
       \/ Alive(c)' => InSight(c)'
       \/ c = child /\ child' \in Connectors /\ life[child'] = "none" /\ life'[child'] = "alive"

LEMMA SightStep ==
    ASSUME TypeOK, Bookkeeping, [Next]_vars, NEW c \in Connectors
    PROVE  StaysInSight(c)
<1> USE NoConnectorAssumption
    DEF attemptVars, queueVars, Bookkeeping, TargetIsAwaited, StaysInSight, InSight, Alive
<1>1. ASSUME NEW s \in Slots, NEW e \in Connectors, Spawn(s, e) PROVE StaysInSight(c)
  BY <1>1 DEF TypeOK, Spawn, Free
<1>2. ASSUME NEW next, Idle, StopThen(next) PROVE StaysInSight(c)
  BY <1>2 DEF TypeOK, Idle, StopThen
<1>3. CASE StopReturns
  BY <1>3 DEF StopReturns, Terminated
<1>4. CASE RestartForNetworkChange
  BY <1>4 DEF Idle, RestartForNetworkChange
<1>5. CASE RestartResumes
  BY <1>5 DEF RestartResumes, Terminated
<1>6. ASSUME NEW d, NEW p, NEW m, RequestAttemptRecycle(d, p, m), UNCHANGED <<life, target>>
      PROVE  StaysInSight(c)
  <2>1. CASE CanRecycle(d) /\ Alive(child)
    BY <1>6, <2>1 DEF RequestAttemptRecycle
  <2>2. CASE ~(CanRecycle(d) /\ Alive(child))
    BY <1>6, <2>2 DEF RequestAttemptRecycle, Keeps
  <2> QED BY <2>1, <2>2
<1>7. ASSUME NEW e \in Connectors, ProbeStale(e) PROVE StaysInSight(c)
  <2>1. CASE Recyclable(diag)
    BY <1>6, <1>7, <2>1 DEF ProbeStale
  <2>2. CASE ~Recyclable(diag)
    BY <1>7, <2>2 DEF ProbeStale, Keeps
  <2> QED BY <2>1, <2>2
<1>8. ASSUME NEW e \in Connectors, ProbeUnready(e) PROVE StaysInSight(c)
  <2>1. PICK d : \/ RequestAttemptRecycle(d, "waiting", Missed)
                 \/ Keeps(d, "waiting", Missed)
    BY <1>8 DEF ProbeUnready
  <2>2. UNCHANGED <<life, target>>
    BY <1>8 DEF ProbeUnready
  <2>3. CASE RequestAttemptRecycle(d, "waiting", Missed)
    BY <1>6, <2>2, <2>3
  <2>4. CASE Keeps(d, "waiting", Missed)
    BY <2>2, <2>4 DEF Keeps
  <2> QED BY <2>1, <2>3, <2>4
<1>9. ASSUME NEW e \in Connectors, LogsTransport(e) PROVE StaysInSight(c)
  BY <1>6, <1>9 DEF LogsTransport
<1>10. ASSUME NEW e \in Connectors, Exits(e) PROVE StaysInSight(c)
  BY <1>10 DEF TypeOK, Exits
<1>11. ASSUME NEW e \in Connectors, HandleChildClose(e) PROVE StaysInSight(c)
  BY <1>11 DEF TypeOK, HandleChildClose, IsCurrentAttempt
<1>12. ASSUME NEW e \in Connectors, RecycleReturns(e) PROVE StaysInSight(c)
  BY <1>12 DEF RecycleReturns
<1>13. CASE \/ \E s \in Slots : BeginAttempt(s) \/ SpawnFails(s)
            \/ \E s \in TimerAttempts : TimerFires(s)
            \/ Start \/ Refresh \/ Configure \/ TrustCurrentExecutable
            \/ \E b \in BOOLEAN : SetAutoReconnect(b)
            \/ \E e \in Connectors :
                  \/ ProbeReady(e) \/ ProbeWaiting(e) \/ ConnectorError(e)
                  \/ \E class \in Classes \ {"none"} : LogsFailure(e, class)
            \/ DeadlinePasses \/ ExecutableChanges \/ UNCHANGED vars
  <2>1. UNCHANGED <<child, life, doomed, target>>
    BY <1>13 DEF BeginAttempt, SpawnFails, TimerFires, Start, Refresh, Configure, SetAutoReconnect,
                 TrustCurrentExecutable, ProbeReady, ProbeWaiting, Keeps, ConnectorError,
                 LogsFailure, DeadlinePasses, ExecutableChanges, vars
  <2> QED BY <2>1
<1> QED
  BY <1>1, <1>2, <1>3, <1>4, <1>5, <1>7, <1>8, <1>9, <1>10, <1>11, <1>12, <1>13
  DEF Next, Operation, Attempt, Stop, StartStops, Callback, Probe

-----------------------------------------------------------------------------
(* Theorems.                                                               *)

\* The invariant of the supervisor.
THEOREM Invariance == Spec => []IInv
<1>1. Init => IInv
  BY NoDiagnosticType, NoMisses, TimerAttemptsAssumption
  DEF Init, IInv, TypeOK, Phases, Slots, TimerIsJustified, Bookkeeping, TargetIsAwaited,
      AttemptingHasSlot
<1>2. IInv /\ [Next]_vars => IInv'
  BY TypeStep, TimerStep, BookkeepingStep DEF IInv
<1> QED BY <1>1, <1>2, PTL DEF Spec

\* Every reachable state is well typed.
THEOREM TypeCorrect == Spec => []TypeOK
BY Invariance, PTL DEF IInv

\* Whatever callbacks and operations interleave, an armed reconnect timer means that the
\* tunnel is wanted, may reconnect by itself and awaits no local action.
THEOREM TimersAreJustified == Spec => []TimerIsJustified
BY Invariance, PTL DEF IInv

\* However many attempts await their files at a time, no operation, recycle or callback
\* loses sight of a process that runs: only an attempt that spawns over it does.
THEOREM OnlyASpawnLoses == Spec => OnlySpawnsLose
<1>1. IInv /\ [Next]_vars =>
        [\A c \in Connectors :
           Alive(c) /\ InSight(c) =>
              \/ Alive(c)' => InSight(c)'
              \/ c = child /\ child' \in Connectors /\ life[child'] = "none"
                 /\ life'[child'] = "alive"]_vars
  BY SightStep DEF IInv, StaysInSight
<1> QED BY <1>1, Invariance, PTL DEF Spec, OnlySpawnsLose
=============================================================================
