------------------------- MODULE ControlPlaneRouting --------------------------
(***************************************************************************)
(* The route coordinator of packages/control-plane/src/controller.ts: it   *)
(* feeds what happens to the tunnel into the policy of                     *)
(* ControlPlaneFailover and carries out the effects.                       *)
(*                                                                         *)
(* Every operation goes through one queue and runs alone, but awaits the   *)
(* tunnel twice: when it retires the connector and when it starts one.     *)
(* Meanwhile the callers of stop and of the automation settings act at     *)
(* once on #routeDesiredRunning and on the launch timer, the timer fires   *)
(* and the connector reports.  SecureTunnel is the tunnel in detail; here  *)
(* it is what the coordinator reads of it: its phase, whether it has       *)
(* decisive evidence of a failure, and whether the coordinator has seen    *)
(* this attempt become ready and fail.  Its own reconnection is off.       *)
(***************************************************************************)
EXTENDS ControlPlaneFailover

CONSTANTS
    Failures,   \* the classes of evidence the connectors give
    MaxQueue    \* bound on the operations requested and not yet run

ASSUME RoutingAssumption == Failures \subseteq Classes /\ MaxQueue \in Nat

VARIABLES
    route,      \* #controlPlaneRouteState
    desired,    \* #routeDesiredRunning
    auto,       \* #settings.secureTunnelAutoReconnect
    timer,      \* #routeLaunchTimer: "none", or armed for a "current" or "stale" generation
    queue,      \* the operations waiting for their turn
    await,      \* what the operation being run awaits, and what it does then
    phase,      \* the phase of the tunnel; exited: its process ended by itself
    evidence,   \* the class of the decisive diagnostic of the tunnel
    handled,    \* #handledTunnelAttemptGeneration = attemptGeneration()
    seen,       \* #readyTunnelAttemptGeneration = attemptGeneration()
    threw,      \* history: the last launch failed before an attempt began
    asked       \* history: the last request of the operator

tunnel == <<phase, evidence, handled, seen, threw>>
vars == <<route, desired, auto, timer, queue, await, tunnel, asked>>

\* flag: of a start, whether a change of the settings ends with it; of a refresh, whether
\* the network changed; of a launch, whether it is of the current generation; of disable,
\* whether it found the launch timer armed.
Operations ==
    [kind : {"start", "stop", "refresh", "enable", "disable", "evaluate", "launch"},
     flag : BOOLEAN]
Op(kind, flag) == [kind |-> kind, flag |-> flag]

Awaits == {"nothing", "retire, rest", "retire, schedule", "retire, launch", "start"}

TypeOK ==
    /\ route \in States
    /\ desired \in BOOLEAN /\ auto \in BOOLEAN
    /\ timer \in {"none", "current", "stale"}
    /\ queue \in Seq(Operations)
    /\ await \in Awaits
    /\ phase \in {"down", "starting", "ready", "exited"}
    /\ evidence \in Failures \cup {"none", "connector"}
    /\ handled \in BOOLEAN /\ seen \in BOOLEAN /\ threw \in BOOLEAN
    /\ asked \in {"start", "stop"}

Init ==
    /\ route = Fresh /\ desired = FALSE /\ auto \in BOOLEAN /\ timer = "none"
    /\ queue = <<>> /\ await = "nothing"
    /\ phase = "down" /\ evidence = "none" /\ handled = TRUE /\ seen = FALSE
    /\ threw = FALSE /\ asked = "stop"

-----------------------------------------------------------------------------
(* What the callers do at once, and the launch timer.                      *)

Alive == phase \in {"starting", "ready"}
Queued(kind) == \E i \in DOMAIN queue : queue[i].kind = kind

Request(op) == Len(queue) < MaxQueue /\ queue' = Append(queue, op)

RequestStart ==
    /\ Request(Op("start", FALSE)) /\ asked' = "start"
    /\ UNCHANGED <<route, desired, auto, timer, await, tunnel>>

RequestStop ==
    /\ Request(Op("stop", FALSE)) /\ asked' = "stop"
    /\ desired' = FALSE /\ timer' = "none"
    /\ UNCHANGED <<route, auto, await, tunnel>>

RequestRefresh(networkChanged) ==
    /\ Request(Op("refresh", networkChanged))
    /\ UNCHANGED <<route, desired, auto, timer, await, tunnel, asked>>

EnableReconnect ==
    /\ Request(Op("enable", FALSE))
    /\ UNCHANGED <<route, desired, auto, timer, await, tunnel, asked>>

\* A pending launch is cancelled at once, if the timer is armed now.
DisableReconnect ==
    /\ Request(Op("disable", timer # "none"))
    /\ desired' = (desired /\ timer = "none") /\ timer' = "none"
    /\ UNCHANGED <<route, auto, await, tunnel, asked>>

TimerFires ==
    /\ timer # "none" /\ timer' = "none"
    /\ queue' = Append(queue, Op("launch", timer = "current"))
    /\ UNCHANGED <<route, desired, auto, await, tunnel, asked>>

-----------------------------------------------------------------------------
(* The tunnel.                                                             *)

\* Each report asks for an evaluation, unless one is due or an operation has the tunnel.
Notify ==
    queue' = IF desired /\ await = "nothing" /\ ~Queued("evaluate")
             THEN Append(queue, Op("evaluate", FALSE)) ELSE queue

Reports ==
    /\ Alive /\ await \in {"nothing", "start"}
    /\ Notify
    /\ UNCHANGED <<route, desired, auto, timer, await, handled, seen, threw, asked>>

\* A successful readiness check clears whatever was recorded.
TunnelReady ==
    /\ Reports
    /\ phase' = "ready" /\ evidence' = "none"

\* Once there is evidence the phase of a live connector no longer matters.
TunnelFails(class) ==
    /\ Reports
    /\ evidence = "none" /\ phase' = "starting" /\ evidence' = class

ConnectorExits ==
    /\ Reports
    /\ phase' = "exited" /\ evidence' = IF evidence = "none" THEN "connector" ELSE evidence

-----------------------------------------------------------------------------
(* The steps of the operations.  The one being run has left the queue.     *)

Down ==
    /\ phase' = "down" /\ evidence' = "none" /\ handled' = TRUE /\ seen' = FALSE
    /\ threw' = FALSE

\* Mutant: the connector is only retired to make room for a launch.
RetireToLaunch(then) ==
    /\ await' = IF then = "retire, rest" THEN "nothing" ELSE then
    /\ UNCHANGED tunnel

\* #retireActiveTunnel, until the tunnel has stopped
Retire(then) == await' = then /\ UNCHANGED tunnel

\* #launchControlPlaneRoute, for a launch of the current generation; while a connector
\* runs the configuration it begins with would fail
Launch ==
    IF desired' /\ ~Alive THEN await' = "start" /\ Down
    ELSE await' = "nothing" /\ UNCHANGED tunnel

\* Mutant: a queued launch does not look at the generation.
NotRaised(ops) == ops

\* Every transition that is neither "ignored" nor "hold" raises the generation.
Raised(ops) ==
    [i \in DOMAIN ops |-> IF ops[i].kind = "launch" THEN Op("launch", FALSE) ELSE ops[i]]
RaisedTimer == IF timer = "none" THEN "none" ELSE "stale"

RetireReturns ==
    /\ \/ await = "retire, rest" /\ await' = "nothing" /\ Down /\ UNCHANGED timer
       \/ /\ await = "retire, schedule" /\ await' = "nothing" /\ Down
          /\ timer' = IF desired THEN "current" ELSE "none"
       \/ /\ await = "retire, launch" /\ UNCHANGED timer
          /\ Down /\ await' = IF desired THEN "start" ELSE "nothing"
    /\ UNCHANGED <<route, desired, auto, queue, asked>>

\* start() of the tunnel: an attempt begins and raises its generation
AttemptBegins ==
    /\ await = "start" /\ phase = "down"
    /\ phase' = "starting" /\ handled' = FALSE
    /\ UNCHANGED <<route, desired, auto, timer, queue, await, evidence, seen, threw, asked>>

\* Mutant: only a report of the tunnel asks for an evaluation.
StartReturnsQuietly ==
    /\ await = "start" /\ await' = "nothing"
    /\ threw' = (phase = "down")
    /\ UNCHANGED <<route, desired, auto, timer, queue, phase, evidence, handled, seen, asked>>

\* An evaluation follows every launch, also one that threw before its attempt began.
StartReturns ==
    /\ await = "start" /\ await' = "nothing"
    /\ threw' = (phase = "down")
    /\ queue' = IF desired /\ ~Queued("evaluate")
                THEN Append(queue, Op("evaluate", FALSE)) ELSE queue
    /\ UNCHANGED <<route, desired, auto, timer, phase, evidence, handled, seen, asked>>

\* The operation at the head of the queue begins.
Runs(kind, flag) ==
    /\ await = "nothing" /\ queue # <<>>
    /\ Head(queue) = Op(kind, flag)

\* #startConfiguredTunnel; the one that ends a change of the settings does not follow a
\* rejected credential
RunStart(automatic) ==
    /\ Runs("start", automatic)
    /\ IF (desired /\ Alive) \/ (automatic /\ evidence = "auth")
       THEN queue' = Tail(queue) /\ UNCHANGED <<route, desired, timer, await, tunnel>>
       ELSE /\ desired' = TRUE /\ timer' = "none"
            /\ route' = Started.state /\ queue' = Raised(Tail(queue))
            /\ IF Alive THEN Retire("retire, launch") ELSE Launch
    /\ UNCHANGED <<auto, asked>>

\* Mutant: the stop resets the policy and leaves the connector to itself.
StopPolicy(rest) ==
    /\ desired' = FALSE /\ timer' = "none"
    /\ route' = Fresh /\ queue' = Raised(rest)
    /\ UNCHANGED <<await, tunnel>>

\* #stopControlPlaneRouting; rest: what the queue holds then
StopRouting(rest) ==
    /\ desired' = FALSE /\ timer' = "none"
    /\ route' = Fresh /\ queue' = Raised(rest)
    /\ Retire("retire, rest")

RunStop ==
    /\ Runs("stop", FALSE)
    /\ StopRouting(Tail(queue))
    /\ UNCHANGED <<auto, asked>>

(* setSecureTunnelAutomation, which ends with a start of its own if the    *)
(* tunnel is to start by itself (starts: input.autoStart), also after a    *)
(* stop.  That start is left at the head of the queue.                     *)
Remaining(starts) == IF starts THEN <<Op("start", TRUE)>> \o Tail(queue) ELSE Tail(queue)
Restarts(starts) == asked' = IF starts /\ ~Queued("stop") THEN "start" ELSE asked

RunEnable(starts) ==
    /\ Runs("enable", FALSE)
    /\ auto' = TRUE /\ queue' = Remaining(starts) /\ Restarts(starts)
    /\ UNCHANGED <<route, desired, timer, await, tunnel>>

RunDisable(cancels, starts) ==
    /\ Runs("disable", cancels)
    /\ auto' = FALSE /\ Restarts(starts)
    /\ IF cancels THEN StopRouting(Remaining(starts))
       ELSE queue' = Remaining(starts) /\ UNCHANGED <<route, desired, timer, await, tunnel>>

\* refreshSecureTunnel; the evaluation it ends with is left at the head of the queue
RunRefresh(networkChanged) ==
    /\ Runs("refresh", networkChanged)
    /\ LET t == Recover(route, networkChanged)
           due == networkChanged \/ route.lifecycle \in {"circuit-open", "needs-attention"}
           ends == <<Op("evaluate", FALSE)>> \o Tail(queue)
       IN  IF desired /\ auto /\ due /\ t.effect = "launch"
           THEN /\ route' = t.state /\ timer' = "none" /\ queue' = Raised(ends)
                /\ Retire("retire, launch")
           ELSE queue' = ends /\ UNCHANGED <<route, timer, await, tunnel>>
    /\ UNCHANGED <<desired, auto, asked>>

\* The launch that the timer queued
RunLaunch(current) ==
    /\ Runs("launch", current)
    /\ queue' = Tail(queue)
    /\ UNCHANGED <<route, desired, auto, timer, asked>>
    /\ IF current THEN Launch ELSE UNCHANGED <<await, tunnel>>

-----------------------------------------------------------------------------
(* #evaluateRouteState, when the attempt became ready and when it failed.  *)

Running == route.lifecycle = "running"
SeesReady == desired /\ phase = "ready" /\ evidence = "none" /\ ~seen
SeesFailure ==
    /\ desired /\ ~handled
    /\ evidence # "none" \/ ~Alive

EvaluateNothing ==
    /\ Runs("evaluate", FALSE)
    /\ ~SeesReady /\ ~(SeesFailure /\ Running)
    /\ handled' = (handled \/ SeesFailure)
    /\ queue' = Tail(queue)
    /\ UNCHANGED <<route, desired, auto, timer, await, phase, evidence, seen, threw, asked>>

EvaluateReady ==
    /\ Runs("evaluate", FALSE)
    /\ SeesReady /\ seen' = TRUE
    /\ route' = IF Running THEN AttemptReady(route) ELSE route
    /\ queue' = Tail(queue)
    /\ UNCHANGED <<desired, auto, timer, await, phase, evidence, handled, threw, asked>>

\* With automatic reconnection off, a launch the policy asks for is given up.
GivenUp(s) ==
    [s EXCEPT !.lifecycle = "needs-attention", !.active = route.active,
              !.routes[route.active].status = "failed"]

EvaluateFailure ==
    /\ Runs("evaluate", FALSE)
    /\ SeesFailure /\ Running
    /\ LET t == AttemptFailed(route, IF evidence = "none" THEN "connector" ELSE evidence)
       IN  \/ /\ t.effect = "launch" /\ auto
              /\ route' = t.state /\ timer' = RaisedTimer /\ UNCHANGED desired
              /\ Retire("retire, schedule")
           \/ /\ t.effect = "launch" /\ ~auto
              /\ route' = GivenUp(t.state) /\ desired' = FALSE /\ timer' = RaisedTimer
              /\ Retire("retire, rest")
           \/ /\ t.effect = "attention"
              /\ route' = t.state /\ timer' = "none"
              /\ desired' = (auto /\ evidence # "auth")
              /\ Retire("retire, rest")
           \/ /\ t.effect = "circuit-open"
              /\ route' = t.state /\ timer' = "none" /\ UNCHANGED desired
              /\ Retire("retire, rest")
    /\ queue' = Raised(Tail(queue))
    /\ UNCHANGED <<auto, asked>>

Tick ==
    /\ route' = Aged(route)
    /\ UNCHANGED <<desired, auto, timer, queue, await, tunnel, asked>>

-----------------------------------------------------------------------------
Requested ==
    \/ RequestStart \/ RequestStop \/ EnableReconnect \/ DisableReconnect
    \/ \E networkChanged \in BOOLEAN : RequestRefresh(networkChanged)

TunnelStep ==
    TunnelReady \/ ConnectorExits \/ \E class \in Failures : TunnelFails(class)

RunStep ==
    \/ RunStop
    \/ \E automatic \in BOOLEAN : RunStart(automatic)
    \/ \E starts \in BOOLEAN : RunEnable(starts)
    \/ \E cancels, starts \in BOOLEAN : RunDisable(cancels, starts)
    \/ \E networkChanged \in BOOLEAN : RunRefresh(networkChanged)
    \/ \E current \in BOOLEAN : RunLaunch(current)
    \/ EvaluateNothing \/ EvaluateReady \/ EvaluateFailure

Next ==
    \/ Requested \/ TimerFires \/ TunnelStep \/ RunStep
    \/ RetireReturns \/ AttemptBegins \/ StartReturns \/ Tick

Spec == Init /\ [][Next]_vars

(* The queue is served, timers fire, stopping and starting a connector end *)
(* and time passes.  The shell asks for a refresh every thirty seconds, so *)
(* again and again when there is room in the queue.                        *)
Fairness ==
    /\ WF_vars(RunStep) /\ WF_vars(TimerFires) /\ WF_vars(RetireReturns)
    /\ WF_vars(AttemptBegins) /\ WF_vars(StartReturns) /\ WF_vars(Tick)
    /\ SF_vars(RequestRefresh(FALSE))

FairSpec == Spec /\ Fairness

-----------------------------------------------------------------------------
(* What is checked.                                                        *)

LaunchDue == timer = "current" \/ \E i \in DOMAIN queue : queue[i] = Op("launch", TRUE)

(* Once the last stop requested has run, nothing comes up and nothing is   *)
(* planned: no evaluation, timer or refresh that was under way revives the *)
(* route.  Only a start does, or a change of the automation settings while *)
(* the tunnel is to start by itself.                                       *)
StopHolds ==
    asked = "stop" /\ await = "nothing" /\ ~Queued("stop") =>
        route = Fresh /\ ~desired /\ ~LaunchDue /\ ~Alive

(* A connector runs only while the policy is running: an open circuit and  *)
(* a route that needs attention have retired theirs.                       *)
ConnectorNeedsRunning == Alive /\ await = "nothing" => Running

(* A launch that is due finds no connector: whatever comes between the     *)
(* failure and the launch, the old connector was retired first.            *)
LaunchFindsNone == LaunchDue => ~Alive

(* A running policy is never left without anything that can move it: a     *)
(* connector, a launch that is due, or a failure that is still to be       *)
(* evaluated.  What leaves it so is a launch that threw, and no other      *)
(* order of failures, refreshes, timers and stops.                         *)
RunningHasWork ==
    Running /\ desired /\ await = "nothing" =>
        Alive \/ LaunchDue \/ (~handled /\ Queued("evaluate")) \/ threw

(* A route left by a failover is not taken again before its cooldown has   *)
(* passed, unless the operator or a change of the network asks for it.     *)
CooldownIsKept ==
    [][\A r \in Route \ {route.active} :
          /\ route.active # NoRoute /\ route'.active = r
          /\ route.routes[r].left \notin {Never, Cooldown}
          =>
             Head(queue).kind = "start" \/ Head(queue) = Op("refresh", TRUE)]_vars

(* The promise of RouteSwitching.                                          *)
Switching ==
    INSTANCE RouteSwitching WITH
        Routes <- Route, active <- route.active, switches <- Recent(route.switches),
        ordered <- queue # <<>> /\ (\/ Head(queue).kind \in {"start", "stop"}
                                    \/ Head(queue) = Op("disable", TRUE))

SwitchBudgetIsKept == Switching!Spec

(* A wanted route with automatic reconnection comes back, whatever fails,  *)
(* unless the operator or a rejected credential ends it, or a launch that  *)
(* throws.                                                                 *)
ComesBack == (desired /\ auto) ~> (Alive \/ ~desired \/ ~auto \/ threw)
=============================================================================
