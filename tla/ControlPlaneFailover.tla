------------------------- MODULE ControlPlaneFailover -------------------------
(***************************************************************************)
(* The route policy of packages/control-plane/src/control-plane-failover.ts*)
(* (reduceControlPlaneFailover): a pure function of a state and an event,  *)
(* here operators over a record.                                           *)
(*                                                                         *)
(* The timestamps of the code only ever meet the time of the event being   *)
(* reduced, so each is replaced by its age in ticks; an age stops growing  *)
(* at the longest delay it is compared with.  Never is the null timestamp. *)
(* The attempt generation is not a number: every effect but "ignored" and  *)
(* "hold" raises it, and ControlPlaneRouting keeps a flag with each launch *)
(* that says whether it is of the current generation.  The controller has  *)
(* only route-switch eligible transport evidence (tunnel-failure-          *)
(* classifier.ts), for which the dwell before a switch is not asked, so    *)
(* activeSince has no effect and is left out.                              *)
(***************************************************************************)
EXTENDS Integers, Sequences, FiniteSets

CONSTANTS
    RouteOrder,          \* policy.routeOrder: the enabled routes, by preference
    NoRoute,             \* the null route
    TransportThreshold,  \* policy.transportFailureThreshold
    ConnectorRetries,    \* policy.connectorRetryLimit
    Dwell,               \* policy.minimumDwellMs
    SwitchDelay,         \* policy.routeSwitchDelayMs
    Cooldown,            \* policy.routeCooldownMs
    Window,              \* policy.switchWindowMs
    MaxSwitches          \* policy.maxSwitchesInWindow

Route == {RouteOrder[i] : i \in 1..Len(RouteOrder)}
First == RouteOrder[1]

ASSUME RouteAssumption ==
    /\ Len(RouteOrder) \in Nat \ {0} /\ RouteOrder \in [1..Len(RouteOrder) -> Route]
    /\ \A i, j \in 1..Len(RouteOrder) : RouteOrder[i] = RouteOrder[j] => i = j
    /\ NoRoute \notin Route
ASSUME PolicyAssumption ==
    /\ {TransportThreshold, ConnectorRetries, Dwell, SwitchDelay, Cooldown, Window, MaxSwitches}
         \subseteq Nat \ {0}
    /\ SwitchDelay <= Cooldown

\* auth stands for auth and identity, which are treated alike everywhere.
Classes == {"transport", "connector", "unknown", "local-mcp", "auth"}

Never == -1
Ages(limit) == Never..limit
Older(age, limit) == IF age = Never \/ age = limit THEN age ELSE age + 1

RouteStates ==
    [status : {"untested", "probing", "ready", "cooling-down", "failed"},
     transport : 0..TransportThreshold,       \* consecutiveTransportFailures
     connector : 0..ConnectorRetries + 1,     \* consecutiveConnectorFailures
     failure : Classes \cup {"none"},         \* lastFailureClass
     failed : Ages(Cooldown),                 \* lastFailureAt
     ready : Ages(Dwell),                     \* lastReadyAt
     left : Ages(Cooldown)]                   \* cooldownUntil - routeCooldownMs

\* switches holds the ages of switchHistory, oldest first; Window + 1 is too old to count.
States ==
    [lifecycle : {"stopped", "running", "needs-attention", "circuit-open"},
     active : Route \cup {NoRoute},
     routes : [Route -> RouteStates],
     switches : UNION {[1..n -> 0..Window + 1] : n \in 0..MaxSwitches},
     opened : Ages(Cooldown)]                 \* circuitOpenedAt

EmptyRoute ==
    [status |-> "untested", transport |-> 0, connector |-> 0, failure |-> "none",
     failed |-> Never, ready |-> Never, left |-> Never]

\* createControlPlaneFailoverState; a stop event leads back to it
Fresh ==
    [lifecycle |-> "stopped", active |-> NoRoute, routes |-> [r \in Route |-> EmptyRoute],
     switches |-> <<>>, opened |-> Never]

AgedRoute(r) ==
    [r EXCEPT !.failed = Older(@, Cooldown), !.ready = Older(@, Dwell), !.left = Older(@, Cooldown)]

Aged(s) ==
    [s EXCEPT !.opened = Older(@, Cooldown),
              !.switches = [i \in DOMAIN @ |-> Older(@[i], Window + 1)],
              !.routes = [r \in Route |-> AgedRoute(@[r])]]

Active(s) == s.routes[s.active]

-----------------------------------------------------------------------------
(* The parts of the transitions.                                           *)

Counts(age) == age <= Window

\* pruneSwitchHistory: what was filtered out is at the front, since the ages fall along the
\* history.
Recent(switches) ==
    LET old == CHOOSE n \in 0..Len(switches) :
                   \A i \in 1..Len(switches) : Counts(switches[i]) <=> i > n
    IN  SubSeq(switches, old + 1, Len(switches))

\* Mutant: a route that cools down is taken again.
EligibleThoughCooling(s, r) ==
    s.routes[r].transport < TransportThreshold /\ s.routes[r].connector <= ConnectorRetries

Eligible(s, r) ==
    /\ s.routes[r].transport < TransportThreshold
    /\ s.routes[r].connector <= ConnectorRetries
    /\ s.routes[r].left \in {Never, Cooldown}

\* nextRoute: the eligible routes other than the active one, by their distance from it
Following(s, offset) ==
    LET at == CHOOSE i \in 1..Len(RouteOrder) : RouteOrder[i] = s.active
    IN  RouteOrder[((at - 1 + offset) % Len(RouteOrder)) + 1]

Offsets(s) == {o \in 1..Len(RouteOrder) - 1 : Eligible(s, Following(s, o))}

NextRoute(s) ==
    Following(s, CHOOSE o \in Offsets(s) : \A p \in Offsets(s) : o <= p)

Transition(s, effect) == [state |-> s, effect |-> effect]

\* launchTransition
Launched(s, r) ==
    [s EXCEPT !.lifecycle = "running", !.active = r, !.routes[r].status = "probing",
              !.opened = Never]

\* switchTransition
Switched(s, r) ==
    [s EXCEPT !.lifecycle = "running", !.active = r,
              !.routes[s.active].status = "cooling-down", !.routes[s.active].left = 0,
              !.routes[r].status = "probing",
              !.switches = Append(@, 0)]

\* circuitTransition
Tripped(s) == [s EXCEPT !.lifecycle = "circuit-open", !.opened = 0]

-----------------------------------------------------------------------------
(* The events.                                                             *)

\* start, which the controller only sends when stopped (every route is then eligible),
\* and manual-reset
Started == Transition(Launched(Fresh, First), "launch")

\* attempt-ready: the count of transport failures stays
AttemptReady(s) ==
    [s EXCEPT !.routes[s.active] =
        [@ EXCEPT !.status = "ready", !.connector = 0, !.failure = "none", !.ready = 0,
                  !.left = Never]]

\* The bookkeeping of attempt-failed: a failure after the dwell starts a new incident.
Settled(s) == Active(s).status = "ready" /\ Active(s).ready = Dwell

Counted(s) ==
    IF Settled(s) THEN [r \in Route |-> [s.routes[r] EXCEPT !.transport = 0, !.connector = 0]]
    ELSE s.routes

FailedRoute(r, class) ==
    [r EXCEPT !.status = "failed", !.failure = class, !.failed = 0,
              !.transport = IF class = "transport" THEN @ + 1 ELSE @,
              !.connector = IF class = "connector" THEN @ + 1 ELSE @]

Failed(s, class) ==
    [s EXCEPT !.switches = Recent(@),
              !.routes = [Counted(s) EXCEPT ![s.active] = FailedRoute(@, class)]]

RetriesRoute(f, class) ==
    \/ class = "connector" /\ Active(f).connector <= ConnectorRetries
    \/ class = "transport" /\ Active(f).transport < TransportThreshold

SwitchesRoute(f, class) ==
    /\ class = "transport" \/ (class = "unknown" /\ Active(f).ready = Never)
    /\ Len(f.switches) < MaxSwitches
    /\ Offsets(f) # {}

AttemptFailed(s, class) ==
    LET f == Failed(s, class)
    IN  CASE RetriesRoute(f, class) -> Transition(Launched(f, f.active), "launch")
          [] ~RetriesRoute(f, class) /\ SwitchesRoute(f, class) ->
               Transition(Switched(f, NextRoute(f)), "launch")
          [] ~RetriesRoute(f, class) /\ ~SwitchesRoute(f, class) /\ class = "transport" ->
               Transition(Tripped(f), "circuit-open")
          [] OTHER -> Transition([f EXCEPT !.lifecycle = "needs-attention"], "attention")

\* recover
RebuildsReady(s, networkChanged) ==
    networkChanged /\ s.lifecycle = "running" /\ Active(s).status = "ready"

\* Mutant: only an open circuit is recovered.
RecoversCircuits(s, networkChanged) ==
    s.lifecycle = "circuit-open" /\ s.opened >= IF networkChanged THEN SwitchDelay ELSE Cooldown

Recovers(s, networkChanged) ==
    LET delay == IF networkChanged THEN SwitchDelay ELSE Cooldown
    IN  /\ \/ /\ s.lifecycle = "needs-attention"
              /\ Active(s).failure # "auth" /\ Active(s).failed >= delay
           \/ s.lifecycle = "circuit-open" /\ Active(s).failure = "transport" /\ s.opened >= delay
        /\ Len(Recent(s.switches)) < MaxSwitches

\* Mutant: a recovery starts with an empty history.
CarriedNothing(s) == <<>>

\* Returning to another route than the one that failed counts as a switch.
CarriedSwitches(s) ==
    IF s.active = First THEN Recent(s.switches) ELSE Append(Recent(s.switches), 0)

Recover(s, networkChanged) ==
    CASE RebuildsReady(s, networkChanged) -> Transition(Launched(s, s.active), "launch")
      [] Recovers(s, networkChanged) ->
           Transition(Launched([Fresh EXCEPT !.switches = CarriedSwitches(s)], First), "launch")
      [] OTHER -> Transition(s, "ignored")
=============================================================================
