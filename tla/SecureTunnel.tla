----------------------------- MODULE SecureTunnel -----------------------------
(***************************************************************************)
(* The connector supervisor of packages/control-plane/src/secure-tunnel.ts *)
(* (SecureMcpTunnelController).  It keeps one tunnel-client process        *)
(* running while the operator wants it, from four kinds of activity that   *)
(* interleave at every await:                                              *)
(*                                                                         *)
(*   - the operations of the desktop controller, which its queue runs one  *)
(*     at a time (op is the one being run);                                *)
(*   - the reconnect timer and the attempt it starts;                      *)
(*   - the recycling of a connector that lost readiness (doomed);          *)
(*   - the callbacks of the processes: output, error, exit, and the        *)
(*     answers of the readiness probes.                                    *)
(*                                                                         *)
(* The code tells old callbacks from new ones by an attempt generation,    *)
(* and only ever compares a remembered generation with the current one.    *)
(* So the generation is replaced by flags that say whether a connector, an *)
(* attempt in preparation or a diagnostic is of the current generation;    *)
(* raising the generation clears them.  Backoff delays are not modelled    *)
(* (the timer may fire at any time), hence neither is the backoff ladder.  *)
(*                                                                         *)
(* An attempt awaits the making and the removal of files between its       *)
(* decision and its spawn, and an operation with nothing to terminate      *)
(* awaits the removal of files: everything else runs meanwhile.  mkdir is  *)
(* taken to succeed.                                                       *)
(***************************************************************************)
EXTENDS Naturals, FiniteSets

CONSTANTS
    Connectors,    \* the processes a connector can be
    NoConnector,   \* the null #child
    MissLimit,     \* READINESS_FAILURES_BEFORE_RECYCLE
    TimerAttempts  \* the attempts of the timer that may be in preparation at a time

ASSUME NoConnectorAssumption == NoConnector \notin Connectors
ASSUME MissLimitAssumption == MissLimit \in Nat \ {0}
ASSUME TimerAttemptsAssumption == TimerAttempts # {} /\ "op" \notin TimerAttempts

VARIABLES
    exec,       \* whether the executable on disk has the trusted SHA-256
    auto,       \* #autoReconnect
    desired,    \* #desiredRunning, and #lastStartOptions # null: they change together
    timer,      \* whether #reconnectTimer is armed
    phase,      \* #phase
    child,      \* #child
    life,       \* each process: "none", "alive", "exited" (its close event is pending)
    fresh,      \* whether the callbacks of a process carry the current generation
    diag,       \* #failureDiagnostic, as far as it stops the supervisor
    hadReady,   \* #hadReadyConnection
    misses,     \* #consecutiveReadinessFailures
    overdue,    \* whether the first-poll deadline of the current attempt has passed
    recycle,    \* #recycleGeneration: the connector being recycled, or NoConnector
    doomed,     \* the connectors whose recycling awaits their termination
    op,         \* what the operation at the head of the controller's queue awaits
    target,     \* the connector whose termination that operation awaits
    prep,       \* how far the #startAttempt of the operation and of the timer is
    mine        \* whether the attempt they began is of the current generation

vars == <<exec, auto, desired, timer, phase, child, life, fresh, diag, hadReady,
          misses, overdue, recycle, doomed, op, target, prep, mine>>
attemptVars == <<hadReady, misses, overdue>>
queueVars == <<op, target, prep, mine>>

Slots == {"op"} \cup TimerAttempts

\* "off" is unavailable or stopped, "waiting" is starting or running.
Phases == {"off", "waiting", "ready", "error", "stopping"}

\* Evidence of the classes auth and identity needs a local action; local-mcp
\* evidence keeps a connector from being recycled; every other class does
\* neither and ranks below both, so it is no diagnostic here.
Classes == {"none", "action", "localMcp"}
Diagnostics == [class : Classes, own : BOOLEAN]
NoDiagnostic == [class |-> "none", own |-> FALSE]

TypeOK ==
    /\ exec \in BOOLEAN /\ auto \in BOOLEAN /\ desired \in BOOLEAN /\ timer \in BOOLEAN
    /\ hadReady \in BOOLEAN /\ overdue \in BOOLEAN
    /\ phase \in Phases
    /\ child \in Connectors \cup {NoConnector}
    /\ recycle \in Connectors \cup {NoConnector}
    /\ target \in Connectors \cup {NoConnector}
    /\ life \in [Connectors -> {"none", "alive", "exited"}]
    /\ fresh \in [Connectors -> BOOLEAN]
    /\ diag \in Diagnostics
    /\ misses \in 0..MissLimit
    /\ doomed \subseteq Connectors
    /\ op \in {"idle", "stopping", "restopping", "starting", "restarting", "attempting"}
    /\ prep \in [Slots -> {"idle", "preparing", "clearing"}]
    /\ mine \in [Slots -> BOOLEAN]

Init ==
    /\ exec \in BOOLEAN
    /\ auto = FALSE /\ desired = FALSE /\ timer = FALSE
    /\ phase = "off"
    /\ child = NoConnector /\ recycle = NoConnector /\ target = NoConnector
    /\ life = [c \in Connectors |-> "none"]
    /\ fresh = [c \in Connectors |-> FALSE]
    /\ diag = NoDiagnostic
    /\ hadReady = FALSE /\ misses = 0 /\ overdue = FALSE
    /\ doomed = {}
    /\ op = "idle"
    /\ prep = [s \in Slots |-> "idle"]
    /\ mine = [s \in Slots |-> FALSE]

-----------------------------------------------------------------------------
Alive(c) == c \in Connectors /\ life[c] = "alive"

IsCurrentAttempt(c) == child = c /\ fresh[c]

RequiresLocalAction == diag.class = "action"

CanReconnect == auto /\ desired /\ ~RequiresLocalAction

\* #scheduleReconnect
ScheduleAlways == timer' = TRUE                                      \* mutant
ScheduleReconnect == timer' = (timer \/ CanReconnect)

\* #invalidateAttempt and the like: the generation is raised.
RaiseGeneration ==
    /\ overdue' = FALSE
    /\ fresh' = [c \in Connectors |-> FALSE]
    /\ mine' = [s \in Slots |-> FALSE]

Disowned(d) == [class |-> d.class, own |-> FALSE]

\* #recordFailureClassification: equal ranks replace only an older generation's.
Recorded(class) ==
    IF diag.class = "none" \/ ~diag.own THEN [class |-> class, own |-> TRUE] ELSE diag

-----------------------------------------------------------------------------
(* Attempts.                                                               *)

\* #refreshExecutable, once no connector is alive
RefreshedPhase == IF ~exec THEN "error" ELSE IF timer THEN phase ELSE "off"

BeginAttempt(s) ==
    /\ prep[s] = "preparing"
    /\ prep' = [prep EXCEPT ![s] = "clearing"]
    /\ fresh' = [c \in Connectors |-> FALSE]
    /\ mine' = [t \in Slots |-> t = s]
    /\ diag' = Disowned(diag)
    /\ hadReady' = FALSE /\ misses' = 0 /\ overdue' = FALSE
    /\ UNCHANGED <<exec, auto, desired, timer, phase, child, life, recycle, doomed, op, target>>

Idles(s) == op' = IF s = "op" THEN "idle" ELSE op

Free(c) == life[c] = "none" /\ c \notin doomed /\ c \notin {child, target}

Spawn(s, c) ==
    /\ prep[s] = "clearing" /\ Free(c)
    /\ prep' = [prep EXCEPT ![s] = "idle"]
    /\ Idles(s)
    /\ phase' = "waiting"
    /\ child' = c
    /\ life' = [life EXCEPT ![c] = "alive"]
    /\ fresh' = [fresh EXCEPT ![c] = mine[s]]
    /\ mine' = [mine EXCEPT ![s] = FALSE]
    /\ UNCHANGED <<exec, auto, desired, timer, diag, attemptVars, recycle, doomed, target>>

SpawnFails(s) ==
    /\ prep[s] = "clearing"
    /\ prep' = [prep EXCEPT ![s] = "idle"]
    /\ Idles(s)
    /\ phase' = "error"
    /\ ScheduleReconnect
    /\ mine' = [mine EXCEPT ![s] = FALSE]
    /\ UNCHANGED <<exec, auto, desired, child, life, fresh, diag, attemptVars, recycle,
                   doomed, target>>

TimerFires(s) ==
    /\ timer /\ prep[s] = "idle"
    /\ \/ /\ ~CanReconnect \/ Alive(child)
          /\ timer' = FALSE
          /\ UNCHANGED <<phase, prep>>
       \/ /\ CanReconnect /\ ~Alive(child) /\ ~exec
          /\ phase' = "error"
          /\ UNCHANGED <<timer, prep>>                \* armed again by the catch
       \/ /\ CanReconnect /\ ~Alive(child) /\ exec
          /\ timer' = FALSE
          /\ phase' = "off"
          /\ prep' = [prep EXCEPT ![s] = "preparing"]
    /\ UNCHANGED <<exec, auto, desired, child, life, fresh, diag, attemptVars, recycle,
                   doomed, op, target, mine>>

-----------------------------------------------------------------------------
(* The operations of the queue.                                            *)

Idle == op = "idle"

\* stop() up to its first await; next is what the operation does afterwards.
StopThen(next) ==
    /\ desired' = FALSE
    /\ timer' = FALSE
    /\ hadReady' = FALSE /\ misses' = 0
    /\ recycle' = NoConnector
    /\ RaiseGeneration
    /\ diag' = NoDiagnostic
    /\ op' = next
    /\ IF Alive(child) THEN phase' = "stopping" /\ target' = child /\ UNCHANGED child
                       ELSE child' = NoConnector /\ UNCHANGED <<phase, target>>
    /\ UNCHANGED <<exec, auto, life, doomed, prep>>

Stop == Idle /\ StopThen("stopping")

\* The operation goes on once the process it terminates has exited.
NotAwaited == TRUE                                                   \* mutant
Terminated == ~Alive(target)

StopReturns ==
    /\ op \in {"stopping", "restopping"} /\ Terminated
    /\ child' = IF child = target THEN NoConnector ELSE child
    /\ target' = NoConnector
    /\ phase' = "off"
    /\ op' = IF op = "stopping" THEN "idle" ELSE "starting"
    /\ UNCHANGED <<exec, auto, desired, timer, life, fresh, diag, attemptVars, recycle,
                   doomed, prep, mine>>

\* start() first stops a connector that waits for a local action.
StartStops == Idle /\ RequiresLocalAction /\ StopThen("restopping")

\* A connector that is alive is adopted; a refused executable takes desired back.
Start ==
    /\ (Idle /\ ~RequiresLocalAction) \/ op = "starting"
    /\ timer' = FALSE
    /\ hadReady' = FALSE /\ misses' = 0
    /\ desired' = (Alive(child) \/ exec)
    /\ op' = IF ~Alive(child) /\ exec THEN "attempting" ELSE "idle"
    /\ prep' = IF ~Alive(child) /\ exec THEN [prep EXCEPT !["op"] = "preparing"] ELSE prep
    /\ phase' = IF Alive(child) THEN phase ELSE IF exec THEN "off" ELSE "error"
    /\ UNCHANGED <<exec, auto, child, life, fresh, diag, overdue, recycle, doomed, target, mine>>

RefreshOnlyReports ==                                                \* mutant
    /\ Idle /\ ~Alive(child)
    /\ phase' = RefreshedPhase
    /\ UNCHANGED <<exec, auto, desired, timer, child, life, fresh, diag, attemptVars, recycle,
                   doomed, queueVars>>
Refresh ==
    /\ Idle /\ ~Alive(child)
    /\ phase' = RefreshedPhase
    /\ ScheduleReconnect
    /\ UNCHANGED <<exec, auto, desired, child, life, fresh, diag, attemptVars, recycle,
                   doomed, queueVars>>

\* refresh({ networkChanged: true }), up to the termination of the old connector
RestartForNetworkChange ==
    /\ Idle /\ CanReconnect
    /\ timer' = FALSE
    /\ phase' = "error"
    /\ RaiseGeneration
    /\ diag' = Disowned(diag)
    /\ target' = IF Alive(child) THEN child ELSE NoConnector
    /\ misses' = IF Alive(child) THEN 0 ELSE misses
    /\ child' = NoConnector
    /\ op' = "restarting"
    /\ UNCHANGED <<exec, auto, desired, life, hadReady, recycle, doomed, prep>>

RestartResumes ==
    /\ op = "restarting" /\ Terminated
    /\ target' = NoConnector
    /\ recycle' = NoConnector
    /\ op' = IF ~Alive(child) /\ exec THEN "attempting" ELSE "idle"
    /\ prep' = IF ~Alive(child) /\ exec THEN [prep EXCEPT !["op"] = "preparing"] ELSE prep
    /\ phase' = IF Alive(child) THEN phase ELSE RefreshedPhase
    /\ UNCHANGED <<exec, auto, desired, timer, child, life, fresh, diag, attemptVars, doomed, mine>>

SetAutoReconnect(enabled) ==
    /\ Idle
    /\ auto' = enabled
    /\ timer' = (enabled /\ (timer \/ (desired /\ ~Alive(child) /\ ~RequiresLocalAction)))
    /\ desired' = (desired /\ (enabled \/ Alive(child)))
    /\ UNCHANGED <<exec, phase, child, life, fresh, diag, attemptVars, recycle, doomed, queueVars>>

Configure ==
    /\ Idle /\ ~Alive(child)
    /\ timer' = FALSE
    /\ desired' = FALSE
    /\ RaiseGeneration
    /\ diag' = NoDiagnostic
    /\ phase' = IF exec THEN "off" ELSE "error"
    /\ UNCHANGED <<exec, auto, child, life, hadReady, misses, recycle, doomed, op, target, prep>>

TrustCurrentExecutable ==
    /\ Idle
    /\ exec' = TRUE
    /\ phase' = "off"
    /\ UNCHANGED <<auto, desired, timer, child, life, fresh, diag, attemptVars, recycle,
                   doomed, queueVars>>

-----------------------------------------------------------------------------
(* Readiness, recycling and the callbacks of the processes.                *)

CanRecycle(d) == auto /\ desired /\ d.class # "action" /\ recycle = NoConnector

\* The diagnostic becomes d, the phase p and the missed checks m, and no recycle starts.
Keeps(d, p, m) ==
    /\ diag' = d /\ phase' = p /\ misses' = m
    /\ UNCHANGED <<recycle, doomed, child, fresh, mine, overdue>>

\* #requestAttemptRecycle for the current attempt, and the part of
\* #recycleCurrentAttempt before its first await
RequestAttemptRecycle(d, p, m) ==
    IF CanRecycle(d) /\ Alive(child)
    THEN /\ phase' = "error"
         /\ recycle' = child
         /\ doomed' = doomed \cup {child}
         /\ child' = NoConnector
         /\ misses' = 0
         /\ RaiseGeneration
         /\ diag' = Disowned(d)
         /\ UNCHANGED timer
    ELSE /\ Keeps(d, p, m)
         /\ timer' = (timer \/ CanRecycle(d))

\* #readinessFailureCanRecycle
Recyclable(d) == d.class = "none"

CanAnswer(c) == IsCurrentAttempt(c) /\ life[c] # "none"

\* The answers of /readyz and /metrics are read when they arrive, maybe after the process
\* has exited, and only for the current attempt.  An unanswered probe inside the freshness
\* window changes nothing.
ProbeReady(c) ==
    /\ CanAnswer(c)
    /\ Keeps(NoDiagnostic, "ready", 0)
    /\ hadReady' = TRUE
    /\ UNCHANGED <<exec, auto, desired, timer, life, op, target, prep>>

\* No poll has completed yet, and the first one is not overdue.
ProbeWaiting(c) ==
    /\ CanAnswer(c) /\ ~hadReady /\ ~overdue
    /\ Keeps(diag, "waiting", misses)
    /\ UNCHANGED <<exec, auto, desired, timer, life, hadReady, op, target, prep>>

\* Locally ready, but the last control-plane poll is too old or overdue.
ProbeStale(c) ==
    /\ CanAnswer(c) /\ (hadReady \/ overdue)
    /\ IF Recyclable(diag)
       THEN RequestAttemptRecycle(diag, "waiting", misses)
       ELSE Keeps(diag, "waiting", misses) /\ UNCHANGED timer
    /\ UNCHANGED <<exec, auto, desired, life, hadReady, op, target, prep>>

\* Not ready, failed, silent beyond the freshness window, or no valid health file;
\* the body of a 503 may be local-mcp evidence.  Then #checkReadinessDeadline.
Missed == IF hadReady /\ misses < MissLimit THEN misses + 1 ELSE misses
NeverExhausted == hadReady /\ misses + 1 >= MissLimit                \* mutant
Exhausted == IF hadReady THEN misses + 1 >= MissLimit ELSE overdue

ProbeUnready(c) ==
    /\ CanAnswer(c)
    /\ \E d \in {diag, Recorded("localMcp")} :
          IF Exhausted /\ Recyclable(d)
          THEN RequestAttemptRecycle(d, "waiting", Missed)
          ELSE Keeps(d, "waiting", Missed) /\ timer' = (timer /\ d.class # "action")
    /\ UNCHANGED <<exec, auto, desired, life, hadReady, op, target, prep>>

DeadlinePasses ==
    /\ child \in Connectors /\ fresh[child] /\ ~overdue
    /\ overdue' = TRUE
    /\ UNCHANGED <<exec, auto, desired, timer, phase, child, life, fresh, diag, hadReady, misses,
                   recycle, doomed, queueVars>>

\* A classified line of output.  Transport evidence is advisory while the attempt is ready.
LogsFailure(c, class) ==
    /\ IsCurrentAttempt(c) /\ life[c] # "none"
    /\ Keeps(Recorded(class), phase, misses)
    /\ timer' = (timer /\ Recorded(class).class # "action")
    /\ UNCHANGED <<exec, auto, desired, life, hadReady, op, target, prep>>

LogsTransport(c) ==
    /\ IsCurrentAttempt(c) /\ life[c] # "none"
    /\ phase # "ready" /\ hadReady
    /\ RequestAttemptRecycle(diag, phase, misses)
    /\ UNCHANGED <<exec, auto, desired, life, hadReady, op, target, prep>>

ConnectorError(c) ==
    /\ IsCurrentAttempt(c) /\ life[c] # "none"
    /\ phase' = "error"
    /\ UNCHANGED <<exec, auto, desired, timer, child, life, fresh, diag, attemptVars, recycle,
                   doomed, queueVars>>

Exits(c) ==
    /\ life[c] = "alive"
    /\ life' = [life EXCEPT ![c] = "exited"]
    /\ UNCHANGED <<exec, auto, desired, timer, phase, child, fresh, diag, attemptVars, recycle,
                   doomed, queueVars>>

\* The process exits because it is being terminated: taskkill is taken to succeed.
Killed(c) == c \in doomed \cup {target} /\ Exits(c)

HandleChildClose(c) ==
    /\ life[c] = "exited"
    /\ life' = [life EXCEPT ![c] = "none"]
    /\ fresh' = [fresh EXCEPT ![c] = FALSE]
    /\ IF ~IsCurrentAttempt(c)
       THEN UNCHANGED <<desired, timer, phase, child, overdue>>
       ELSE /\ child' = NoConnector
            /\ phase' = IF desired /\ phase # "stopping" THEN "error" ELSE "off"
            /\ desired' = (desired /\ auto)
            /\ overdue' = FALSE
            /\ ScheduleReconnect
    /\ UNCHANGED <<exec, auto, diag, hadReady, misses, recycle, doomed, queueVars>>

\* #recycleCurrentAttempt after the termination of c
RecycleReturns(c) ==
    /\ c \in doomed /\ ~Alive(c)
    /\ doomed' = doomed \ {c}
    /\ recycle' = IF recycle = c THEN NoConnector ELSE recycle
    /\ ScheduleReconnect
    /\ UNCHANGED <<exec, auto, desired, phase, child, life, fresh, diag, attemptVars, queueVars>>

\* The executable is replaced, locked, or restored.
ExecutableChanges ==
   
    /\ exec' = ~exec
    /\ UNCHANGED <<auto, desired, timer, phase, child, life, fresh, diag, attemptVars, recycle,
                   doomed, queueVars>>

-----------------------------------------------------------------------------
Attempt(s) == BeginAttempt(s) \/ SpawnFails(s) \/ \E c \in Connectors : Spawn(s, c)

Operation ==
    \/ Stop \/ StopReturns \/ StartStops \/ Start
    \/ Refresh \/ RestartForNetworkChange \/ RestartResumes
    \/ \E b \in BOOLEAN : SetAutoReconnect(b)
    \/ Configure \/ TrustCurrentExecutable

Probe(c) == ProbeReady(c) \/ ProbeWaiting(c) \/ ProbeStale(c) \/ ProbeUnready(c)

Callback(c) ==
    \/ Probe(c) \/ LogsTransport(c) \/ ConnectorError(c)
    \/ \E class \in Classes \ {"none"} : LogsFailure(c, class)
    \/ Exits(c) \/ HandleChildClose(c) \/ RecycleReturns(c)

Next ==
    \/ Operation
    \/ \E s \in Slots : Attempt(s)
    \/ \E s \in TimerAttempts : TimerFires(s)
    \/ \E c \in Connectors : Callback(c)
    \/ DeadlinePasses
    \/ ExecutableChanges

\* Every await returns, every timer fires and every exit is reported.  The shell
\* asks for a refresh every thirty seconds and the queue is first-in first-out, so
\* a refresh is served again and again however many other operations are queued.
Fairness ==
    /\ \A s \in Slots : WF_vars(Attempt(s))
    /\ WF_vars(\E s \in TimerAttempts : TimerFires(s))
    /\ WF_vars(StopReturns) /\ WF_vars(RestartResumes)
    /\ WF_vars(op = "starting" /\ Start)
    /\ SF_vars(Refresh)
    /\ \A c \in Connectors :
          WF_vars(Killed(c)) /\ WF_vars(HandleChildClose(c)) /\ WF_vars(RecycleReturns(c))

\* The running connector is probed every few seconds, and cannot stay silent for
\* longer than the freshness window without counting as failed.
ProbeFairness ==
    WF_vars(DeadlinePasses) /\ \A c \in Connectors : WF_vars(Probe(c) /\ c \in Connectors)

Spec == Init /\ [][Next]_vars
FairSpec == Spec /\ Fairness

-----------------------------------------------------------------------------
(* Properties.                                                             *)

\* The reconnect timer is armed only while the operator wants the tunnel, automatic
\* reconnection is on and no local action is awaited, whatever callback armed it or
\* has run since.
TimerIsJustified == timer => CanReconnect

\* A process that runs is the one the supervisor holds, or one whose termination it is
\* awaiting, until an attempt decided earlier spawns over it: no stop, restart, recycle,
\* refusal or callback ever loses sight of a process that runs.
InSight(c) == c = child \/ c \in doomed \/ c = target
OnlySpawnsLose ==
    [][\A c \in Connectors :
          Alive(c) /\ InSight(c) =>
             \/ Alive(c)' => InSight(c)'
             \/ c = child /\ child' \in Connectors /\ life[child'] = "none"
                /\ life'[child'] = "alive"]_vars

\* Once the tunnel is not wanted and the operation that said so has returned, nothing
\* runs except a connector whose recycling is still terminating it.  The code does not
\* keep this: an attempt of the timer that awaits its files when the tunnel is stopped,
\* or configured anew, spawns all the same.
StopSticks ==
    op = "idle" /\ ~desired => \A c \in Connectors : Alive(c) => c \in doomed

\* The supervisor never gives up: as long as the tunnel is wanted, may reconnect and
\* has a trusted executable, a connector runs or is being started again and again.
Trying ==
    \/ ~CanReconnect \/ ~exec
    \/ Alive(child) \/ op # "idle" \/ \E s \in Slots : prep[s] # "idle"
KeepsTrying == []<>Trying

\* An attempt that never becomes ready is given up once its first-poll deadline has
\* passed, as long as nothing was recorded, for it or an earlier attempt, that speaks
\* against recycling: no attempt is for ever an unpromising one.
Unpromising ==
    /\ Alive(child) /\ fresh[child] /\ CanReconnect
    /\ overdue /\ ~hadReady /\ Recyclable(diag)
StartupIsGivenUp == ProbeFairness => []<>~Unpromising
=============================================================================
