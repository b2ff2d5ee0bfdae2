----------------------- MODULE ControlPlaneRoutingProofs -----------------------
(***************************************************************************)
(* What the route coordinator keeps, for any routes, delays and requests:  *)
(* a stop holds, a connector runs only under a running policy, a launch    *)
(* finds no connector, cooldowns are kept, and the routes change by        *)
(* themselves only as RouteSwitching allows.                               *)
(*                                                                         *)
(* None is inductive.  That a launch finds no connector needs that at most *)
(* one launch is due, and none while an operation awaits the tunnel; that  *)
(* a stop holds needs that no start follows the last stop in the queue; of *)
(* the policy only its lifecycle matters there.  The cooldowns and the     *)
(* budget of switches are about the policy alone: PolicyInv says what      *)
(* every transition of it keeps, whatever made the coordinator ask for it. *)
(***************************************************************************)
EXTENDS ControlPlaneRouting, SequenceTheorems, WellFoundedInduction, TLAPS

CurrentLaunch == Op("launch", TRUE)
Evaluation == Op("evaluate", FALSE)

NoLaunch(q) == \A i \in 1..Len(q) : q[i] # CurrentLaunch
NoStart(q) == \A i \in 1..Len(q) : q[i].kind # "start"
OneLaunch(q) ==
    \A i, j \in 1..Len(q) : q[i] = CurrentLaunch /\ q[j] = CurrentLaunch => i = j
StopComes(q) ==
    \E i \in 1..Len(q) :
        /\ q[i].kind = "stop"
        /\ \A j \in 1..Len(q) : j > i => q[j].kind # "start"

Asks(q, kind) == \E i \in 1..Len(q) : q[i].kind = kind

Fields == {"lifecycle", "active", "routes", "switches", "opened"}

Shape ==
    queue \in Seq(Operations) /\ timer \in {"none", "current", "stale"} /\ DOMAIN route = Fields

\* At most one launch is due, none while an operation awaits the tunnel, and none when
\* there is a connector.
LaunchIsAlone ==
    /\ OneLaunch(queue)
    /\ timer = "current" => NoLaunch(queue)
    /\ timer = "current" \/ ~NoLaunch(queue) => await = "nothing" /\ ~Alive

\* The policy runs whenever something is due or up, or is about to be.
PolicyRuns ==
    \/ Running
    \/ /\ timer # "current" /\ NoLaunch(queue)
       /\ await = "retire, rest" \/ (await = "nothing" /\ ~Alive)

\* What a stop that has run leaves.
Stopped ==
    /\ NoStart(queue) /\ NoLaunch(queue)
    /\ ~desired /\ timer = "none" /\ route = Fresh
    /\ await = "retire, rest" \/ (await = "nothing" /\ ~Alive)

StopIsHeeded == asked = "stop" => StopComes(queue) \/ Stopped

IInv == Shape /\ LaunchIsAlone /\ PolicyRuns /\ StopIsHeeded

-----------------------------------------------------------------------------
(* The queue.                                                              *)

LEMMA OperationType ==
    /\ \A kind \in {"start", "stop", "refresh", "enable", "disable", "evaluate", "launch"} :
          \A flag \in BOOLEAN :
             /\ Op(kind, flag) \in Operations /\ Op(kind, flag).kind = kind
             /\ Op(kind, flag).flag = flag
             /\ Op(kind, flag) = CurrentLaunch <=> kind = "launch" /\ flag = TRUE
BY DEF Op, Operations, CurrentLaunch

\* Adding an operation that is not a current launch.
LEMMA Adding ==
    ASSUME NEW q \in Seq(Operations), NEW op \in Operations, op # CurrentLaunch
    PROVE  /\ Append(q, op) \in Seq(Operations)
           /\ NoLaunch(q) <=> NoLaunch(Append(q, op))
           /\ OneLaunch(q) => OneLaunch(Append(q, op))
           /\ op.kind # "start" /\ NoStart(q) => NoStart(Append(q, op))
           /\ op.kind # "start" /\ StopComes(q) => StopComes(Append(q, op))
           /\ op.kind = "stop" => StopComes(Append(q, op))
           /\ Asks(Append(q, op), "evaluate") <=> Asks(q, "evaluate") \/ op.kind = "evaluate"
<1> DEFINE n == Len(q)
<1> DEFINE new == Append(q, op)
<1>1. /\ new \in Seq(Operations) /\ Len(new) = n + 1 /\ n \in Nat
      /\ \A i \in 1..n : new[i] = q[i]
      /\ new[n + 1] = op
  BY AppendProperties, LenProperties
<1> HIDE DEF n, new
<1>2. \A i \in 1..n + 1 : i \in 1..n \/ i = n + 1
  BY <1>1
<1>3. n = Len(q)
  BY DEF n
<1>4. NoLaunch(q) <=> NoLaunch(new)
  BY <1>1, <1>2, <1>3 DEF NoLaunch
<1>5. OneLaunch(q) => OneLaunch(new)
  BY <1>1, <1>2, <1>3 DEF OneLaunch
<1>6. op.kind # "start" /\ NoStart(q) => NoStart(new)
  BY <1>1, <1>2, <1>3 DEF NoStart
<1>7. op.kind # "start" /\ StopComes(q) => StopComes(new)
  BY <1>1, <1>2, <1>3 DEF StopComes
<1>8. op.kind = "stop" => StopComes(new)
  BY <1>1, <1>2, <1>3 DEF StopComes
<1>9. Asks(new, "evaluate") <=> Asks(q, "evaluate") \/ op.kind = "evaluate"
  BY <1>1, <1>2, <1>3 DEF Asks
<1> QED BY <1>1, <1>4, <1>5, <1>6, <1>7, <1>8, <1>9 DEF new

LEMMA AddingLaunch ==
    ASSUME NEW q \in Seq(Operations), NEW flag \in BOOLEAN
    PROVE  /\ Append(q, Op("launch", flag)) \in Seq(Operations)
           /\ NoLaunch(q) => OneLaunch(Append(q, Op("launch", flag)))
           /\ StopComes(q) => StopComes(Append(q, Op("launch", flag)))
           /\ Asks(q, "evaluate") => Asks(Append(q, Op("launch", flag)), "evaluate")
           /\ flag = TRUE => ~NoLaunch(Append(q, Op("launch", flag)))
<1> DEFINE n == Len(q)
<1> DEFINE op == Op("launch", flag)
<1> DEFINE new == Append(q, op)
<1>0. op \in Operations /\ op.kind = "launch"
  BY OperationType
<1>1. /\ new \in Seq(Operations) /\ Len(new) = n + 1 /\ n \in Nat
      /\ \A i \in 1..n : new[i] = q[i]
      /\ new[n + 1] = op
  BY <1>0, AppendProperties, LenProperties
<1>3. n = Len(q) /\ op = Op("launch", flag)
  OBVIOUS
<1> HIDE DEF n, new, op
<1>2. \A i \in 1..n + 1 : i \in 1..n \/ i = n + 1
  BY <1>1
<1>4. NoLaunch(q) => OneLaunch(new)
  BY <1>1, <1>2, <1>3 DEF NoLaunch, OneLaunch
<1>5. StopComes(q) => StopComes(new)
  BY <1>0, <1>1, <1>2, <1>3 DEF StopComes
<1>6. Asks(q, "evaluate") => Asks(new, "evaluate")
  BY <1>1, <1>3 DEF Asks
<1>7. flag = TRUE => ~NoLaunch(new)
  <2>1. n + 1 \in 1..n + 1
    BY <1>1
  <2> QED BY <1>1, <1>3, <2>1 DEF NoLaunch, CurrentLaunch
<1> QED BY <1>1, <1>4, <1>5, <1>6, <1>7 DEF new, op

\* Taking the operation at the head.
LEMMA Taking ==
    ASSUME NEW q \in Seq(Operations), q # <<>>
    PROVE  /\ Tail(q) \in Seq(Operations)
           /\ NoLaunch(q) => NoLaunch(Tail(q))
           /\ OneLaunch(q) => OneLaunch(Tail(q))
           /\ Head(q) = CurrentLaunch => ~NoLaunch(q)
           /\ OneLaunch(q) /\ Head(q) = CurrentLaunch => NoLaunch(Tail(q))
           /\ NoStart(q) => NoStart(Tail(q)) /\ Head(q).kind # "start"
           /\ StopComes(q) =>
                 StopComes(Tail(q)) \/ (Head(q).kind = "stop" /\ NoStart(Tail(q)))
           /\ NoLaunch(Tail(q)) /\ Head(q) # CurrentLaunch => NoLaunch(q)
           /\ Asks(q, "evaluate") => Asks(Tail(q), "evaluate") \/ Head(q).kind = "evaluate"
<1> DEFINE n == Len(q)
<1> DEFINE new == Tail(q)
<1>1. /\ new \in Seq(Operations) /\ Len(new) = n - 1 /\ n \in Nat /\ n > 0
      /\ \A i \in 1..n - 1 : new[i] = q[i + 1]
      /\ Head(q) = q[1]
  BY HeadTailProperties, LenProperties, EmptySeq
<1>3. n = Len(q)
  OBVIOUS
<1> HIDE DEF n, new
<1>2. 1 \in 1..n /\ \A i \in 1..n - 1 : i + 1 \in 1..n /\ i + 1 # 1
  BY <1>1
<1>4. NoLaunch(q) => NoLaunch(new)
  BY <1>1, <1>2, <1>3 DEF NoLaunch
<1>5. OneLaunch(q) => OneLaunch(new)
  BY <1>1, <1>2, <1>3 DEF OneLaunch
<1>6. Head(q) = CurrentLaunch => ~NoLaunch(q)
  BY <1>1, <1>2, <1>3 DEF NoLaunch
<1>7. OneLaunch(q) /\ Head(q) = CurrentLaunch => NoLaunch(new)
  BY <1>1, <1>2, <1>3 DEF OneLaunch, NoLaunch
<1>8. NoStart(q) => NoStart(new) /\ Head(q).kind # "start"
  BY <1>1, <1>2, <1>3 DEF NoStart
<1>9. ASSUME StopComes(q)
      PROVE  StopComes(new) \/ (Head(q).kind = "stop" /\ NoStart(new))
  <2>1. PICK i \in 1..n : q[i].kind = "stop" /\ \A j \in 1..n : j > i => q[j].kind # "start"
    BY <1>9, <1>3 DEF StopComes
  <2>2. CASE i = 1
    <3>1. \A j \in 1..n - 1 : j + 1 \in 1..n /\ j + 1 > i
      BY <1>2, <2>2
    <3>2. NoStart(new)
      BY <1>1, <2>1, <3>1 DEF NoStart
    <3> QED BY <1>1, <2>1, <2>2, <3>2
  <2>3. CASE i # 1
    <3>1. i - 1 \in 1..n - 1 /\ i - 1 + 1 = i
      BY <1>1, <2>3
    <3>2. new[i - 1].kind = "stop"
      BY <1>1, <2>1, <3>1
    <3>3. \A j \in 1..n - 1 : j > i - 1 => j + 1 > i
      OBVIOUS
    <3>4. \A j \in 1..n - 1 : j > i - 1 => new[j].kind # "start"
      BY <1>1, <1>2, <2>1, <3>3
    <3> QED BY <1>1, <3>1, <3>2, <3>4 DEF StopComes
  <2> QED BY <2>2, <2>3
<1>10. \A i \in 1..n : i = 1 \/ (i - 1 \in 1..n - 1 /\ new[i - 1] = q[i])
  BY <1>1
<1>11. NoLaunch(new) /\ Head(q) # CurrentLaunch => NoLaunch(q)
  BY <1>1, <1>3, <1>10 DEF NoLaunch
<1>12. Asks(q, "evaluate") => Asks(new, "evaluate") \/ Head(q).kind = "evaluate"
  BY <1>1, <1>3, <1>10 DEF Asks
<1> QED BY <1>1, <1>4, <1>5, <1>6, <1>7, <1>8, <1>9, <1>11, <1>12 DEF new

\* Putting an operation at the head that is not a current launch.
LEMMA Preceding ==
    ASSUME NEW q \in Seq(Operations), NEW op \in Operations, op # CurrentLaunch
    PROVE  /\ <<op>> \o q \in Seq(Operations)
           /\ NoLaunch(q) <=> NoLaunch(<<op>> \o q)
           /\ OneLaunch(q) => OneLaunch(<<op>> \o q)
           /\ op.kind # "start" /\ NoStart(q) => NoStart(<<op>> \o q)
           /\ StopComes(q) => StopComes(<<op>> \o q)
           /\ op.kind = "evaluate" \/ Asks(q, "evaluate") => Asks(<<op>> \o q, "evaluate")
<1> DEFINE n == Len(q)
<1> DEFINE new == <<op>> \o q
<1>1. /\ new \in Seq(Operations) /\ Len(new) = n + 1 /\ n \in Nat
      /\ new[1] = op
      /\ \A i \in 1..n : new[i + 1] = q[i]
  BY LenProperties
<1>3. n = Len(q)
  OBVIOUS
<1> HIDE DEF n, new
<1>2. \A i \in 1..n + 1 : i = 1 \/ (i - 1 \in 1..n /\ i - 1 + 1 = i)
  BY <1>1
<1>a. \A i \in 1..n : i + 1 \in 1..n + 1
  BY <1>1
<1>b. \A i \in 1..n + 1 : i = 1 \/ (i - 1 \in 1..n /\ new[i] = q[i - 1])
  BY <1>1, <1>2
<1>4. NoLaunch(q) <=> NoLaunch(new)
  BY <1>1, <1>a, <1>b, <1>3 DEF NoLaunch
<1>5. OneLaunch(q) => OneLaunch(new)
  <2> SUFFICES ASSUME OneLaunch(q), NEW i \in 1..n + 1, NEW j \in 1..n + 1,
                      new[i] = CurrentLaunch, new[j] = CurrentLaunch
               PROVE  i = j
    BY <1>1 DEF OneLaunch
  <2>1. i - 1 \in 1..n /\ j - 1 \in 1..n /\ q[i - 1] = CurrentLaunch /\ q[j - 1] = CurrentLaunch
    BY <1>1, <1>b
  <2>2. i - 1 = j - 1
    BY <2>1, <1>3 DEF OneLaunch
  <2> QED BY <2>2
<1>6. op.kind # "start" /\ NoStart(q) => NoStart(new)
  BY <1>1, <1>b, <1>3 DEF NoStart
<1>7. ASSUME StopComes(q) PROVE StopComes(new)
  <2>1. PICK i \in 1..n : q[i].kind = "stop" /\ \A j \in 1..n : j > i => q[j].kind # "start"
    BY <1>7, <1>3 DEF StopComes
  <2>2. i + 1 \in 1..n + 1 /\ new[i + 1].kind = "stop"
    BY <1>1, <1>a, <2>1
  <2>3. ASSUME NEW j \in 1..n + 1, j > i + 1 PROVE new[j].kind # "start"
    <3>1. j - 1 \in 1..n /\ new[j] = q[j - 1] /\ j - 1 > i
      BY <1>b, <2>3
    <3> QED BY <2>1, <3>1
  <2> QED BY <1>1, <2>2, <2>3 DEF StopComes
<1>8. op.kind = "evaluate" \/ Asks(q, "evaluate") => Asks(new, "evaluate")
  <2>1. 1 \in 1..n + 1
    BY <1>1
  <2> QED BY <1>1, <1>3, <1>a, <2>1 DEF Asks
<1> QED BY <1>1, <1>4, <1>5, <1>6, <1>7, <1>8 DEF new

\* Raising the generation.
LEMMA Raising ==
    ASSUME NEW q \in Seq(Operations)
    PROVE  /\ Raised(q) \in Seq(Operations)
           /\ NoLaunch(Raised(q)) /\ OneLaunch(Raised(q))
           /\ NoStart(q) => NoStart(Raised(q))
           /\ StopComes(q) => StopComes(Raised(q))
           /\ Asks(q, "evaluate") => Asks(Raised(q), "evaluate")
<1>0. Op("launch", FALSE) \in Operations /\ Op("launch", FALSE) # CurrentLaunch
      /\ Op("launch", FALSE).kind = "launch"
  BY OperationType
<1>1. /\ DOMAIN q = 1..Len(q) /\ Len(q) \in Nat
      /\ \A i \in 1..Len(q) : q[i] \in Operations
  BY LenProperties, ElementOfSeq
<1>2. \A i \in 1..Len(q) :
         /\ Raised(q)[i] \in Operations /\ Raised(q)[i] # CurrentLaunch
         /\ Raised(q)[i].kind = q[i].kind
  <2> SUFFICES ASSUME NEW i \in 1..Len(q)
               PROVE  /\ Raised(q)[i] \in Operations /\ Raised(q)[i] # CurrentLaunch
                      /\ Raised(q)[i].kind = q[i].kind
    OBVIOUS
  <2>1. Raised(q)[i] = IF q[i].kind = "launch" THEN Op("launch", FALSE) ELSE q[i]
    BY <1>1 DEF Raised
  <2>2. CurrentLaunch.kind = "launch"
    BY OperationType DEF CurrentLaunch
  <2> QED BY <1>0, <1>1, <2>1, <2>2
<1>3. Raised(q) \in Seq(Operations) /\ Len(Raised(q)) = Len(q)
  <2>1. DOMAIN Raised(q) = 1..Len(q) /\ Raised(q) = [i \in 1..Len(q) |-> Raised(q)[i]]
    BY <1>1 DEF Raised
  <2>2. Raised(q) \in [1..Len(q) -> Operations]
    BY <1>2, <2>1
  <2>3. Raised(q) \in Seq(Operations)
    BY <1>1, <2>2, SeqDef
  <2> QED BY <1>1, <2>1, <2>3, LenProperties
<1>4. NoLaunch(Raised(q)) /\ OneLaunch(Raised(q))
  BY <1>2, <1>3 DEF NoLaunch, OneLaunch
<1>5. NoStart(q) => NoStart(Raised(q))
  BY <1>2, <1>3 DEF NoStart
<1>6. StopComes(q) => StopComes(Raised(q))
  BY <1>2, <1>3 DEF StopComes
<1>7. Asks(q, "evaluate") => Asks(Raised(q), "evaluate")
  BY <1>2, <1>3 DEF Asks
<1> QED BY <1>3, <1>4, <1>5, <1>6, <1>7

-----------------------------------------------------------------------------
(* The policy.                                                             *)

LEMMA LaunchedRuns ==
    ASSUME NEW s, DOMAIN s = Fields, NEW r
    PROVE  DOMAIN Launched(s, r) = Fields /\ Launched(s, r).lifecycle = "running"
BY DEF Launched, Fields

LEMMA SwitchedRuns ==
    ASSUME NEW s, DOMAIN s = Fields, NEW r
    PROVE  DOMAIN Switched(s, r) = Fields /\ Switched(s, r).lifecycle = "running"
BY DEF Switched, Fields

LEMMA FreshShape == DOMAIN Fresh = Fields /\ Fresh.lifecycle = "stopped"
BY DEF Fresh, Fields

LEMMA StartedRuns == DOMAIN Started.state = Fields /\ Started.state.lifecycle = "running"
BY LaunchedRuns, FreshShape DEF Started, Transition

LEMMA ReadyKeeps ==
    ASSUME NEW s, DOMAIN s = Fields
    PROVE  DOMAIN AttemptReady(s) = Fields /\ AttemptReady(s).lifecycle = s.lifecycle
BY DEF AttemptReady, Fields

LEMMA AgedKeeps ==
    ASSUME NEW s, DOMAIN s = Fields
    PROVE  DOMAIN Aged(s) = Fields /\ Aged(s).lifecycle = s.lifecycle
BY DEF Aged, Fields

\* Time leaves a stopped policy alone.
LEMMA AgedFresh == Aged(Fresh) = Fresh
<1>1. Older(Never, Cooldown) = Never /\ Older(Never, Dwell) = Never
  BY DEF Older
<1> DEFINE e == EmptyRoute
<1>2. e = [status |-> "untested", transport |-> 0, connector |-> 0, failure |-> "none",
           failed |-> Never, ready |-> Never, left |-> Never]
  BY DEF EmptyRoute
<1>3. AgedRoute(e) = e
  <2>1. e.failed = Never /\ e.ready = Never /\ e.left = Never
    BY <1>2
  <2>2. AgedRoute(e) = [e EXCEPT !.failed = Never, !.ready = Never, !.left = Never]
    BY <1>1, <2>1 DEF AgedRoute
  <2>3. \A x \in DOMAIN e :
           [e EXCEPT !.failed = Never, !.ready = Never, !.left = Never][x] = e[x]
    BY <1>2, <2>1
  <2>4. /\ DOMAIN [e EXCEPT !.failed = Never, !.ready = Never, !.left = Never] = DOMAIN e
        /\ [e EXCEPT !.failed = Never, !.ready = Never, !.left = Never]
             = [x \in DOMAIN e |->
                  [e EXCEPT !.failed = Never, !.ready = Never, !.left = Never][x]]
        /\ e = [x \in DOMAIN e |-> e[x]]
    BY <1>2
  <2> QED BY <2>2, <2>3, <2>4
<1> HIDE DEF e
<1>4. [i \in DOMAIN <<>> |-> Older(<<>>[i], Window + 1)] = <<>>
  OBVIOUS
<1>5. Fresh = [lifecycle |-> "stopped", active |-> NoRoute, routes |-> [r \in Route |-> e],
               switches |-> <<>>, opened |-> Never]
  BY DEF Fresh, e
<1>6. [r \in Route |-> AgedRoute(Fresh.routes[r])] = [r \in Route |-> e]
  <2>1. \A r \in Route : Fresh.routes[r] = e
    BY <1>5
  <2> QED BY <2>1, <1>3
<1>7. Aged(Fresh) = [Fresh EXCEPT !.opened = Never, !.switches = <<>>,
                                  !.routes = [r \in Route |-> e]]
  BY <1>1, <1>4, <1>5, <1>6 DEF Aged
<1> QED BY <1>5, <1>7

LEMMA FailedShape ==
    ASSUME NEW s, DOMAIN s = Fields, NEW class
    PROVE  /\ DOMAIN AttemptFailed(s, class).state = Fields
           /\ AttemptFailed(s, class).effect = "launch" <=>
                 AttemptFailed(s, class).state.lifecycle = "running"
<1> DEFINE f == Failed(s, class)
<1>1. DOMAIN f = Fields
  BY DEF Failed, Fields
<1> HIDE DEF f
<1>2. /\ DOMAIN Tripped(f) = Fields /\ Tripped(f).lifecycle = "circuit-open"
      /\ DOMAIN [f EXCEPT !.lifecycle = "needs-attention"] = Fields
      /\ [f EXCEPT !.lifecycle = "needs-attention"].lifecycle = "needs-attention"
  BY <1>1 DEF Tripped, Fields
<1>3. \E t \in {Transition(Launched(f, f.active), "launch"),
                Transition(Switched(f, NextRoute(f)), "launch"),
                Transition(Tripped(f), "circuit-open"),
                Transition([f EXCEPT !.lifecycle = "needs-attention"], "attention")} :
         AttemptFailed(s, class) = t
  BY DEF AttemptFailed, f
<1>4. /\ DOMAIN Launched(f, f.active) = Fields /\ Launched(f, f.active).lifecycle = "running"
      /\ DOMAIN Switched(f, NextRoute(f)) = Fields
      /\ Switched(f, NextRoute(f)).lifecycle = "running"
  BY <1>1, LaunchedRuns, SwitchedRuns
<1>5. ASSUME NEW state, NEW effect, AttemptFailed(s, class) = Transition(state, effect),
             DOMAIN state = Fields, effect = "launch" <=> state.lifecycle = "running"
      PROVE  /\ DOMAIN AttemptFailed(s, class).state = Fields
             /\ AttemptFailed(s, class).effect = "launch" <=>
                   AttemptFailed(s, class).state.lifecycle = "running"
  BY <1>5 DEF Transition
<1>6. CASE AttemptFailed(s, class) = Transition(Launched(f, f.active), "launch")
  BY <1>4, <1>5, <1>6
<1>7. CASE AttemptFailed(s, class) = Transition(Switched(f, NextRoute(f)), "launch")
  BY <1>4, <1>5, <1>7
<1>8. CASE AttemptFailed(s, class) = Transition(Tripped(f), "circuit-open")
  BY <1>2, <1>5, <1>8
<1>9. CASE AttemptFailed(s, class) =
             Transition([f EXCEPT !.lifecycle = "needs-attention"], "attention")
  BY <1>2, <1>5, <1>9
<1> QED BY <1>3, <1>6, <1>7, <1>8, <1>9

LEMMA RecoverShape ==
    ASSUME NEW s, DOMAIN s = Fields, NEW networkChanged \in BOOLEAN,
           Recover(s, networkChanged).effect = "launch"
    PROVE  /\ DOMAIN Recover(s, networkChanged).state = Fields
           /\ Recover(s, networkChanged).state.lifecycle = "running"
<1>1. DOMAIN [Fresh EXCEPT !.switches = CarriedSwitches(s)] = Fields
  BY FreshShape
<1>2. \E t \in {Transition(Launched(s, s.active), "launch"),
                Transition(Launched([Fresh EXCEPT !.switches = CarriedSwitches(s)], First),
                           "launch"),
                Transition(s, "ignored")} :
         Recover(s, networkChanged) = t
  BY DEF Recover
<1> QED BY <1>1, <1>2, LaunchedRuns DEF Transition

LEMMA GivenUpShape ==
    ASSUME NEW s, DOMAIN s = Fields
    PROVE  DOMAIN GivenUp(s) = Fields /\ GivenUp(s).lifecycle = "needs-attention"
BY DEF GivenUp, Fields

-----------------------------------------------------------------------------
(* The steps.                                                              *)

LEMMA InitInv == Init => IInv
<1> SUFFICES ASSUME Init PROVE IInv
  OBVIOUS
<1>1. Len(queue) = 0 /\ queue \in Seq(Operations)
  BY DEF Init
<1>2. NoLaunch(queue) /\ NoStart(queue) /\ OneLaunch(queue)
  BY <1>1 DEF NoLaunch, NoStart, OneLaunch
<1> QED BY <1>1, <1>2, FreshShape DEF Init, IInv, Shape, LaunchIsAlone, PolicyRuns, StopIsHeeded,
          Stopped, Alive, Running

LEMMA RequestKeeps == IInv /\ Requested => IInv'
<1> SUFFICES ASSUME IInv, Requested PROVE IInv'
  OBVIOUS
<1> USE DEF IInv, Shape, LaunchIsAlone, PolicyRuns, StopIsHeeded, Stopped, Alive, Running, Request,
            tunnel
<1>1. CASE RequestStart
  <2> DEFINE op == Op("start", FALSE)
  <2>1. op \in Operations /\ op # CurrentLaunch
    BY OperationType
  <2>2. queue' = Append(queue, op)
    BY <1>1 DEF RequestStart
  <2> HIDE DEF op
  <2>3. /\ queue' \in Seq(Operations)
        /\ NoLaunch(queue) <=> NoLaunch(queue')
        /\ OneLaunch(queue) => OneLaunch(queue')
    BY <2>1, <2>2, Adding
  <2> QED BY <1>1, <2>3 DEF RequestStart
<1>2. ASSUME NEW op \in Operations, op # CurrentLaunch, op.kind # "start",
             queue' = Append(queue, op),
             op.kind = "stop" \/ asked' = asked,
             UNCHANGED <<route, await, tunnel>>,
             desired' => desired, timer' \in {timer, "none"}
      PROVE  IInv'
  <2>1. /\ queue' \in Seq(Operations)
        /\ NoLaunch(queue) <=> NoLaunch(queue')
        /\ OneLaunch(queue) => OneLaunch(queue')
        /\ NoStart(queue) => NoStart(queue')
        /\ StopComes(queue) => StopComes(queue')
        /\ op.kind = "stop" => StopComes(queue')
    BY <1>2, Adding
  <2> QED BY <1>2, <2>1
<1>3. CASE RequestStop
  <2>1. Op("stop", FALSE) \in Operations /\ Op("stop", FALSE) # CurrentLaunch
        /\ Op("stop", FALSE).kind = "stop"
    BY OperationType
  <2> QED BY <1>2, <1>3, <2>1 DEF RequestStop
<1>4. CASE EnableReconnect
  <2>1. Op("enable", FALSE) \in Operations /\ Op("enable", FALSE) # CurrentLaunch
        /\ Op("enable", FALSE).kind = "enable"
    BY OperationType
  <2> QED BY <1>2, <1>4, <2>1 DEF EnableReconnect
<1>5. CASE DisableReconnect
  <2>1. \A flag \in BOOLEAN :
           /\ Op("disable", flag) \in Operations /\ Op("disable", flag) # CurrentLaunch
           /\ Op("disable", flag).kind = "disable"
    BY OperationType
  <2>2. PICK flag \in BOOLEAN : queue' = Append(queue, Op("disable", flag))
    BY <1>5 DEF DisableReconnect
  <2>3. desired' = (desired /\ timer = "none") /\ UNCHANGED <<route, await, tunnel, asked>>
        /\ timer' = "none"
    BY <1>5 DEF DisableReconnect
  <2>4. /\ queue' \in Seq(Operations)
        /\ NoLaunch(queue) <=> NoLaunch(queue')
        /\ OneLaunch(queue) => OneLaunch(queue')
        /\ NoStart(queue) => NoStart(queue')
        /\ StopComes(queue) => StopComes(queue')
    BY <2>1, <2>2, Adding
  <2> QED BY <2>3, <2>4
<1>6. ASSUME NEW networkChanged \in BOOLEAN, RequestRefresh(networkChanged) PROVE IInv'
  <2>1. /\ Op("refresh", networkChanged) \in Operations
        /\ Op("refresh", networkChanged) # CurrentLaunch
        /\ Op("refresh", networkChanged).kind = "refresh"
    BY OperationType
  <2> QED BY <1>2, <1>6, <2>1 DEF RequestRefresh
<1> QED BY <1>1, <1>3, <1>4, <1>5, <1>6 DEF Requested

LEMMA TimerKeeps == IInv /\ TimerFires => IInv'
<1> SUFFICES ASSUME IInv, TimerFires PROVE IInv'
  OBVIOUS
<1> USE DEF IInv, Shape, LaunchIsAlone, PolicyRuns, StopIsHeeded, Stopped, Alive, Running, tunnel
<1>1. /\ timer # "none" /\ timer' = "none"
      /\ UNCHANGED <<route, desired, auto, await, tunnel, asked>>
  BY DEF TimerFires
<1>2. CASE timer = "current"
  <2>1. queue' = Append(queue, CurrentLaunch)
    BY <1>2 DEF TimerFires, CurrentLaunch
  <2>2. queue' \in Seq(Operations) /\ OneLaunch(queue') /\ (StopComes(queue) => StopComes(queue'))
    BY <1>2, <2>1, AddingLaunch DEF CurrentLaunch
  <2> QED BY <1>1, <1>2, <2>2
<1>3. CASE timer = "stale"
  <2>1. queue' = Append(queue, Op("launch", FALSE))
    BY <1>3 DEF TimerFires
  <2>2. /\ Op("launch", FALSE) \in Operations /\ Op("launch", FALSE) # CurrentLaunch
        /\ Op("launch", FALSE).kind = "launch"
    BY OperationType
  <2>3. /\ queue' \in Seq(Operations)
        /\ NoLaunch(queue) <=> NoLaunch(queue')
        /\ OneLaunch(queue) => OneLaunch(queue')
        /\ NoStart(queue) => NoStart(queue')
        /\ StopComes(queue) => StopComes(queue')
    BY <2>1, <2>2, Adding
  <2> QED BY <1>1, <1>3, <2>3
<1> QED BY <1>1, <1>2, <1>3

\* Every report of the tunnel needs a connector, which no stopped policy has.
LEMMA ReportKeeps == IInv /\ TunnelStep => IInv'
<1> SUFFICES ASSUME IInv, TunnelStep PROVE IInv'
  OBVIOUS
<1> USE DEF IInv, Shape, LaunchIsAlone, PolicyRuns, StopIsHeeded, Stopped, Alive, Running
<1>1. /\ Alive /\ await \in {"nothing", "start"} /\ Notify
      /\ UNCHANGED <<route, desired, auto, timer, await, handled, seen, threw, asked>>
      /\ phase' \in {"ready", "starting", "exited"}
  BY DEF TunnelStep, TunnelReady, TunnelFails, ConnectorExits, Reports
<1>2. /\ Evaluation \in Operations /\ Evaluation # CurrentLaunch
      /\ Evaluation.kind = "evaluate"
  BY OperationType DEF Evaluation
<1>3. queue' = queue \/ queue' = Append(queue, Evaluation)
  BY <1>1 DEF Notify, Evaluation
<1>4. /\ queue' \in Seq(Operations)
      /\ NoLaunch(queue) <=> NoLaunch(queue')
      /\ OneLaunch(queue) => OneLaunch(queue')
      /\ NoStart(queue) => NoStart(queue')
      /\ StopComes(queue) => StopComes(queue')
  BY <1>2, <1>3, Adding
<1> QED BY <1>1, <1>4
\* The returns of the tunnel to the operation that awaits it.
LEMMA ReturnKeeps == IInv /\ (RetireReturns \/ AttemptBegins \/ StartReturns) => IInv'
<1> SUFFICES ASSUME IInv, RetireReturns \/ AttemptBegins \/ StartReturns PROVE IInv'
  OBVIOUS
<1> USE DEF IInv, Shape, LaunchIsAlone, PolicyRuns, StopIsHeeded, Stopped, Alive, Running, tunnel
<1>1. CASE RetireReturns
  BY <1>1 DEF RetireReturns, Down
<1>2. CASE AttemptBegins
  BY <1>2 DEF AttemptBegins
<1>3. CASE StartReturns
  <2>1. /\ await = "start" /\ await' = "nothing"
        /\ UNCHANGED <<route, desired, auto, timer, phase, asked>>
    BY <1>3 DEF StartReturns
  <2>2. queue' = queue \/ queue' = Append(queue, Evaluation)
    BY <1>3 DEF StartReturns, Evaluation
  <2>3. /\ Evaluation \in Operations /\ Evaluation # CurrentLaunch
        /\ Evaluation.kind = "evaluate"
    BY OperationType DEF Evaluation
  <2>4. /\ queue' \in Seq(Operations)
        /\ NoLaunch(queue) <=> NoLaunch(queue')
        /\ OneLaunch(queue) => OneLaunch(queue')
        /\ NoStart(queue) => NoStart(queue')
        /\ StopComes(queue) => StopComes(queue')
    BY <2>2, <2>3, Adding
  <2> QED BY <2>1, <2>4
<1> QED BY <1>1, <1>2, <1>3

LEMMA TickKeeps == IInv /\ Tick => IInv'
<1> SUFFICES ASSUME IInv, Tick PROVE IInv'
  OBVIOUS
<1>1. UNCHANGED <<desired, timer, queue, await, phase, asked>> /\ route' = Aged(route)
  BY DEF Tick, tunnel
<1>2. DOMAIN route' = Fields /\ route'.lifecycle = route.lifecycle
  BY <1>1, AgedKeeps DEF IInv, Shape
<1>3. route = Fresh => route' = Fresh
  BY <1>1, AgedFresh
<1>4. Shape' /\ LaunchIsAlone' /\ PolicyRuns'
  BY <1>1, <1>2 DEF IInv, Shape, LaunchIsAlone, PolicyRuns, Alive, Running
<1>5. StopIsHeeded'
  BY <1>1, <1>3 DEF IInv, StopIsHeeded, Stopped, Alive
<1> QED BY <1>4, <1>5 DEF IInv

\* What taking the head of the queue keeps, and what raising the generation adds.
LEMMA HeadRuns ==
    ASSUME IInv,
           NEW kind \in {"start", "stop", "refresh", "enable", "disable", "evaluate", "launch"},
           NEW flag \in BOOLEAN, Runs(kind, flag)
    PROVE  /\ await = "nothing" /\ Tail(queue) \in Seq(Operations)
           /\ NoLaunch(queue) => NoLaunch(Tail(queue))
           /\ OneLaunch(Tail(queue))
           /\ kind = "launch" /\ flag = TRUE => ~NoLaunch(queue) /\ NoLaunch(Tail(queue))
           /\ NoStart(queue) => NoStart(Tail(queue)) /\ kind # "start"
           /\ StopComes(queue) => StopComes(Tail(queue)) \/ (kind = "stop" /\ NoStart(Tail(queue)))
           /\ Raised(Tail(queue)) \in Seq(Operations)
           /\ NoLaunch(Raised(Tail(queue))) /\ OneLaunch(Raised(Tail(queue)))
           /\ NoStart(Tail(queue)) => NoStart(Raised(Tail(queue)))
           /\ StopComes(Tail(queue)) => StopComes(Raised(Tail(queue)))
<1>1. queue \in Seq(Operations) /\ queue # <<>> /\ OneLaunch(queue) /\ await = "nothing"
      /\ Head(queue) = Op(kind, flag)
  BY DEF IInv, Shape, LaunchIsAlone, Runs
<1>2. Head(queue).kind = kind /\ (kind = "launch" /\ flag = TRUE => Head(queue) = CurrentLaunch)
  BY <1>1, OperationType
<1>3. Tail(queue) \in Seq(Operations)
  BY <1>1, Taking
<1> QED BY <1>1, <1>2, <1>3, Taking, Raising

\* A queue that holds a stop and no start ends with the stop.
LEMMA StopWithoutStart ==
    ASSUME NEW q \in Seq(Operations), NoStart(q), Asks(q, "stop")
    PROVE  StopComes(q)
BY DEF NoStart, Asks, StopComes

\* What a change of the automation settings leaves in the queue.
LEMMA RestKeeps ==
    ASSUME IInv, NEW kind \in {"enable", "disable"}, NEW flag \in BOOLEAN, Runs(kind, flag),
           NEW starts \in BOOLEAN, Restarts(starts)
    PROVE  /\ Remaining(starts) \in Seq(Operations) /\ OneLaunch(Remaining(starts))
           /\ NoLaunch(queue) => NoLaunch(Remaining(starts))
           /\ Asks(queue, "evaluate") => Asks(Remaining(starts), "evaluate")
           /\ asked' = "stop" =>
                 StopComes(Remaining(starts)) \/ (Stopped /\ NoStart(Remaining(starts)))
<1>1. /\ Tail(queue) \in Seq(Operations) /\ OneLaunch(Tail(queue))
      /\ NoLaunch(queue) => NoLaunch(Tail(queue))
      /\ NoStart(queue) => NoStart(Tail(queue))
      /\ StopComes(queue) => StopComes(Tail(queue))
  BY HeadRuns
<1>2. queue \in Seq(Operations) /\ queue # <<>> /\ Head(queue).kind = kind
  BY OperationType DEF Runs, IInv, Shape
<1>3. Asks(queue, "evaluate") => Asks(Tail(queue), "evaluate")
  BY <1>2, Taking
<1>4. asked = "stop" => StopComes(Tail(queue)) \/ (Stopped /\ NoStart(Tail(queue)))
  BY <1>1 DEF IInv, StopIsHeeded, Stopped
<1>5. CASE ~starts
  BY <1>1, <1>3, <1>4, <1>5 DEF Remaining, Restarts
<1>6. CASE starts
  <2>1. Remaining(starts) = <<Op("start", TRUE)>> \o Tail(queue)
    BY <1>6 DEF Remaining
  <2>2. Op("start", TRUE) \in Operations /\ Op("start", TRUE) # CurrentLaunch
    BY OperationType
  <2>3. ASSUME asked' = "stop" PROVE StopComes(Tail(queue))
    <3>1. Queued("stop") /\ asked = "stop"
      BY <1>6, <2>3 DEF Restarts
    <3>2. Asks(Tail(queue), "stop")
      <4>1. PICK i \in 1..Len(queue) : queue[i].kind = "stop"
        BY <1>2, <3>1, LenProperties DEF Queued
      <4>2. /\ Len(Tail(queue)) = Len(queue) - 1 /\ Len(queue) \in Nat
            /\ \A k \in 1..Len(queue) - 1 : Tail(queue)[k] = queue[k + 1]
            /\ Head(queue) = queue[1]
        BY <1>2, HeadTailProperties, LenProperties
      <4>3. i # 1
        BY <1>2, <4>1, <4>2
      <4>4. i - 1 \in 1..Len(queue) - 1 /\ Tail(queue)[i - 1] = queue[i]
        BY <4>2, <4>3
      <4> QED BY <4>1, <4>2, <4>4 DEF Asks
    <3> QED BY <1>1, <1>4, <3>1, <3>2, StopWithoutStart
  <2> QED BY <1>1, <1>3, <2>1, <2>2, <2>3, Preceding
<1> QED BY <1>5, <1>6

LEMMA StopRoutingKeeps ==
    ASSUME IInv, NEW rest \in Seq(Operations), StopRouting(rest),
           asked' = "stop" => StopComes(rest) \/ NoStart(rest)
    PROVE  IInv'
<1>1. /\ desired' = FALSE /\ timer' = "none" /\ route' = Fresh
      /\ queue' = Raised(rest) /\ await' = "retire, rest"
  BY DEF StopRouting, Retire
<1>2. /\ queue' \in Seq(Operations) /\ NoLaunch(queue') /\ OneLaunch(queue')
      /\ NoStart(rest) => NoStart(queue')
      /\ StopComes(rest) => StopComes(queue')
  BY <1>1, Raising
<1> QED
  BY <1>1, <1>2, FreshShape
  DEF IInv, Shape, LaunchIsAlone, PolicyRuns, StopIsHeeded, Stopped, Alive, Running

LEMMA RunKeeps == IInv /\ RunStep => IInv'
<1> SUFFICES ASSUME IInv, RunStep PROVE IInv'
  OBVIOUS
<1> USE DEF IInv, Shape, LaunchIsAlone, PolicyRuns, StopIsHeeded, Stopped, Alive, Running, tunnel
\* An operation that ends at once and leaves the policy as it is.
<1>1. ASSUME NEW kind \in {"start", "stop", "refresh", "enable", "disable", "evaluate", "launch"},
             NEW flag \in BOOLEAN, Runs(kind, flag), kind # "stop",
             queue' = Tail(queue), await' = await, phase' = phase, DOMAIN route' = Fields,
             route'.lifecycle = route.lifecycle, route = Fresh => route' = Fresh,
             UNCHANGED <<desired, timer, asked>>
      PROVE  IInv'
  <2>1. /\ queue' \in Seq(Operations) /\ OneLaunch(queue')
        /\ NoLaunch(queue) => NoLaunch(queue')
        /\ NoStart(queue) => NoStart(queue')
        /\ StopComes(queue) => StopComes(queue')
    BY <1>1, HeadRuns
  <2> QED BY <1>1, <2>1
<1>2. ASSUME NEW automatic \in BOOLEAN, RunStart(automatic) PROVE IInv'
  <2>1. /\ await = "nothing" /\ Tail(queue) \in Seq(Operations) /\ ~NoStart(queue)
        /\ Raised(Tail(queue)) \in Seq(Operations)
        /\ NoLaunch(Raised(Tail(queue))) /\ OneLaunch(Raised(Tail(queue)))
        /\ StopComes(queue) => StopComes(Raised(Tail(queue)))
    BY <1>2, HeadRuns DEF RunStart
  <2> DEFINE none == (desired /\ Alive) \/ (automatic /\ evidence = "auth")
  <2>2. CASE none
    <3>1. Runs("start", automatic) /\ queue' = Tail(queue)
          /\ UNCHANGED <<route, desired, timer, await, tunnel, asked>>
      BY <1>2, <2>2 DEF RunStart
    <3> QED BY <1>1, <3>1
  <2>3. CASE ~none
    <3>1. /\ timer' = "none" /\ route' = Started.state /\ queue' = Raised(Tail(queue))
          /\ asked' = asked
      BY <1>2, <2>3 DEF RunStart
    <3>2. /\ DOMAIN route' = Fields /\ route'.lifecycle = "running"
      BY <3>1, StartedRuns
    <3>3. asked = "stop" => StopComes(queue')
      BY <2>1, <3>1
    <3> QED BY <2>1, <3>1, <3>2, <3>3
  <2> QED BY <2>2, <2>3
<1>3. CASE RunStop
  <2>1. Runs("stop", FALSE) /\ StopRouting(Tail(queue)) /\ asked' = asked
    BY <1>3 DEF RunStop
  <2>2. /\ Tail(queue) \in Seq(Operations)
        /\ NoStart(queue) => NoStart(Tail(queue))
        /\ StopComes(queue) => StopComes(Tail(queue)) \/ NoStart(Tail(queue))
    BY <2>1, HeadRuns
  <2>3. asked' = "stop" => StopComes(Tail(queue)) \/ NoStart(Tail(queue))
    BY <2>1, <2>2
  <2> QED BY ONLY IInv, <2>1, <2>2, <2>3, StopRoutingKeeps
\* A change of the settings that stops nothing.
<1>4. ASSUME NEW kind \in {"enable", "disable"}, NEW flag \in BOOLEAN, Runs(kind, flag),
             NEW starts \in BOOLEAN, Restarts(starts), queue' = Remaining(starts),
             UNCHANGED <<route, desired, timer, await, tunnel>>
      PROVE  IInv'
  <2>1. /\ queue' \in Seq(Operations) /\ OneLaunch(queue')
        /\ NoLaunch(queue) => NoLaunch(queue')
        /\ asked' = "stop" => StopComes(queue') \/ (Stopped /\ NoStart(queue'))
    BY <1>4, RestKeeps
  <2> QED BY <1>4, <2>1
<1>5. ASSUME NEW cancels \in BOOLEAN, NEW starts \in BOOLEAN, RunDisable(cancels, starts)
      PROVE  IInv'
  <2>1. CASE cancels
    <3>1. Runs("disable", cancels) /\ StopRouting(Remaining(starts)) /\ Restarts(starts)
      BY <1>5, <2>1 DEF RunDisable
    <3>2. /\ Remaining(starts) \in Seq(Operations)
          /\ asked' = "stop" => StopComes(Remaining(starts)) \/ NoStart(Remaining(starts))
      BY <3>1, RestKeeps
    <3> QED BY ONLY IInv, <3>1, <3>2, StopRoutingKeeps
  <2>2. CASE ~cancels
    BY <1>4, <1>5, <2>2 DEF RunDisable
  <2> QED BY <2>1, <2>2
<1>a. ASSUME NEW starts \in BOOLEAN, RunEnable(starts) PROVE IInv'
  BY <1>4, <1>a DEF RunEnable
<1>6. ASSUME NEW networkChanged \in BOOLEAN, RunRefresh(networkChanged) PROVE IInv'
  <2> DEFINE ends == <<Evaluation>> \o Tail(queue)
  <2>1. Runs("refresh", networkChanged) /\ UNCHANGED <<desired, auto, asked>>
    BY <1>6 DEF RunRefresh
  <2>2. /\ await = "nothing" /\ Tail(queue) \in Seq(Operations)
        /\ OneLaunch(Tail(queue)) /\ (NoLaunch(queue) => NoLaunch(Tail(queue)))
        /\ NoStart(queue) => NoStart(Tail(queue))
        /\ StopComes(queue) => StopComes(Tail(queue))
    BY <2>1, HeadRuns
  <2>3. /\ ends \in Seq(Operations) /\ OneLaunch(ends)
        /\ NoLaunch(queue) => NoLaunch(ends)
        /\ NoStart(queue) => NoStart(ends)
        /\ StopComes(queue) => StopComes(ends)
    <3>1. Evaluation \in Operations /\ Evaluation # CurrentLaunch /\ Evaluation.kind = "evaluate"
      BY OperationType DEF Evaluation
    <3> QED BY <2>2, <3>1, Preceding
  <2>4. /\ Raised(ends) \in Seq(Operations) /\ OneLaunch(Raised(ends)) /\ NoLaunch(Raised(ends))
        /\ NoStart(queue) => NoStart(Raised(ends))
        /\ StopComes(queue) => StopComes(Raised(ends))
    BY <2>3, Raising
  <2>5. \/ /\ desired /\ Recover(route, networkChanged).effect = "launch"
           /\ route' = Recover(route, networkChanged).state /\ timer' = "none"
           /\ queue' = Raised(ends) /\ await' = "retire, launch" /\ UNCHANGED tunnel
        \/ queue' = ends /\ UNCHANGED <<route, timer, await, tunnel>>
    <3> DEFINE t == Recover(route, networkChanged)
    <3> DEFINE due == networkChanged \/ route.lifecycle \in {"circuit-open", "needs-attention"}
    <3>1. IF desired /\ auto /\ due /\ t.effect = "launch"
          THEN /\ route' = t.state /\ timer' = "none" /\ queue' = Raised(ends)
               /\ Retire("retire, launch")
          ELSE queue' = ends /\ UNCHANGED <<route, timer, await, tunnel>>
      BY <1>6 DEF RunRefresh, Evaluation
    <3>2. Retire("retire, launch") => await' = "retire, launch" /\ UNCHANGED tunnel
      BY DEF Retire
    <3> HIDE DEF t, due, ends
    <3> QED BY ONLY <3>1, <3>2 DEF t
  <2> HIDE DEF ends
  <2>6. CASE /\ desired /\ Recover(route, networkChanged).effect = "launch"
             /\ route' = Recover(route, networkChanged).state /\ timer' = "none"
             /\ queue' = Raised(ends) /\ await' = "retire, launch" /\ UNCHANGED tunnel
    <3>1. DOMAIN route' = Fields /\ route'.lifecycle = "running"
      BY <2>6, RecoverShape
    <3> QED BY <2>1, <2>4, <2>6, <3>1
  <2>7. CASE queue' = ends /\ UNCHANGED <<route, timer, await, tunnel>>
    BY <2>1, <2>3, <2>7
  <2> QED BY <2>5, <2>6, <2>7
<1>7. ASSUME NEW current \in BOOLEAN, RunLaunch(current) PROVE IInv'
  <2>1. /\ Runs("launch", current) /\ queue' = Tail(queue)
        /\ UNCHANGED <<route, desired, timer, asked>>
    BY <1>7 DEF RunLaunch
  <2>2. CASE current /\ desired /\ ~Alive
    <3>1. await' = "start" /\ phase' = "down"
      <4>1. Launch /\ desired' = desired
        BY <1>7, <2>2 DEF RunLaunch
      <4> QED BY <4>1, <2>2 DEF Launch, Down
    <3>2. /\ queue' \in Seq(Operations) /\ OneLaunch(queue') /\ NoLaunch(queue')
          /\ ~NoLaunch(queue) /\ (StopComes(queue) => StopComes(queue'))
      BY <2>1, <2>2, HeadRuns
    <3> QED BY <2>1, <2>2, <3>1, <3>2
  <2>3. CASE ~(current /\ desired /\ ~Alive)
    <3>1. await' = await /\ phase' = phase
      BY <1>7, <2>1, <2>3 DEF RunLaunch, Launch, Runs
    <3> QED BY <1>1, <2>1, <3>1
  <2> QED BY <2>2, <2>3
<1>8. CASE EvaluateNothing
  BY <1>1, <1>8 DEF EvaluateNothing
<1>9. CASE EvaluateReady
  <2>1. DOMAIN route' = Fields /\ route'.lifecycle = route.lifecycle
    BY <1>9, ReadyKeeps DEF EvaluateReady
  <2>2. route = Fresh => route' = Fresh
    BY <1>9, FreshShape DEF EvaluateReady
  <2> QED BY <1>1, <1>9, <2>1, <2>2 DEF EvaluateReady
<1>10. CASE EvaluateFailure
  <2> DEFINE class == IF evidence = "none" THEN "connector" ELSE evidence
  <2> HIDE DEF class
  <2> DEFINE t == AttemptFailed(route, class)
  <2>1. /\ Runs("evaluate", FALSE) /\ desired /\ queue' = Raised(Tail(queue))
        /\ asked' = asked /\ UNCHANGED tunnel /\ timer' # "current"
        /\ timer' \in {"none", "stale"}
        /\ \/ t.effect = "launch" /\ route' = t.state /\ await' = "retire, schedule"
           \/ route' \in {t.state, GivenUp(t.state)} /\ await' = "retire, rest"
    <3>1. \/ /\ t.effect = "launch" /\ auto
             /\ route' = t.state /\ timer' = RaisedTimer /\ UNCHANGED desired
             /\ Retire("retire, schedule")
          \/ /\ t.effect = "launch" /\ ~auto
             /\ route' = GivenUp(t.state) /\ desired' = FALSE /\ timer' = RaisedTimer
             /\ Retire("retire, rest")
          \/ /\ t.effect = "attention"
             /\ route' = t.state /\ timer' = "none"
             /\ desired' = (auto /\ evidence # "auth")
             /\ Retire("retire, rest")
          \/ /\ t.effect = "circuit-open"
             /\ route' = t.state /\ timer' = "none" /\ UNCHANGED desired
             /\ Retire("retire, rest")
      BY <1>10 DEF EvaluateFailure, class
    <3>2. RaisedTimer \in {"none", "stale"}
      BY DEF RaisedTimer
    <3>3. /\ Runs("evaluate", FALSE) /\ desired /\ queue' = Raised(Tail(queue)) /\ asked' = asked
      BY <1>10 DEF EvaluateFailure, SeesFailure
    <3> HIDE DEF t
    <3> QED BY <3>1, <3>2, <3>3 DEF Retire
  <2>2. DOMAIN t.state = Fields /\ (t.effect = "launch" <=> t.state.lifecycle = "running")
    <3>1. DOMAIN route = Fields
      OBVIOUS
    <3> QED BY <3>1, FailedShape
  <2>3. DOMAIN GivenUp(t.state) = Fields
    BY <2>2, GivenUpShape
  <2> HIDE DEF t
  <2>4. /\ queue' \in Seq(Operations) /\ OneLaunch(queue') /\ NoLaunch(queue')
        /\ StopComes(queue) => StopComes(queue')
    BY <2>1, HeadRuns
  <2> QED BY <2>1, <2>2, <2>3, <2>4
<1> QED BY <1>2, <1>3, <1>5, <1>6, <1>7, <1>8, <1>9, <1>10, <1>a DEF RunStep

LEMMA StepKeeps == IInv /\ [Next]_vars => IInv'
<1>1. IInv /\ UNCHANGED vars => IInv'
  <2>1. UNCHANGED vars => UNCHANGED <<route, desired, timer, queue, await, phase, asked>>
    BY DEF vars, tunnel
  <2> QED
    BY <2>1 DEF IInv, Shape, LaunchIsAlone, PolicyRuns, StopIsHeeded, Stopped, Alive, Running
<1> QED
  BY <1>1, RequestKeeps, TimerKeeps, ReportKeeps, RunKeeps, ReturnKeeps, TickKeeps DEF Next

(* The inductive invariant holds always.                                   *)
THEOREM Invariance == Spec => []IInv
BY InitInv, StepKeeps, PTL DEF Spec

\* Once the last stop requested has run, nothing is up or planned, whatever was under way.
THEOREM StoppedHolds == Spec => []StopHolds
<1>1. ASSUME IInv, asked = "stop", await = "nothing", ~Queued("stop")
      PROVE  route = Fresh /\ ~desired /\ ~LaunchDue /\ ~Alive
  <2>1. queue \in Seq(Operations) /\ DOMAIN queue = 1..Len(queue)
    BY <1>1, LenProperties DEF IInv, Shape
  <2>2. ~StopComes(queue)
    BY <1>1, <2>1 DEF Queued, StopComes
  <2>3. Stopped
    BY <1>1, <2>2 DEF IInv, StopIsHeeded
  <2> QED BY <1>1, <2>1, <2>3 DEF Stopped, LaunchDue, NoLaunch, CurrentLaunch
<1>2. IInv => StopHolds
  BY <1>1 DEF StopHolds
<1> QED BY <1>2, Invariance, PTL

\* No connector outlives the policy that started it.
THEOREM ConnectorIsManaged == Spec => []ConnectorNeedsRunning
<1>1. IInv => ConnectorNeedsRunning
  BY DEF IInv, PolicyRuns, ConnectorNeedsRunning
<1> QED BY <1>1, Invariance, PTL

\* A launch that is due finds no connector.
THEOREM LaunchIsSafe == Spec => []LaunchFindsNone
<1>1. IInv => LaunchFindsNone
  <2> SUFFICES ASSUME IInv PROVE LaunchFindsNone
    OBVIOUS
  <2>1. DOMAIN queue = 1..Len(queue)
    BY LenProperties DEF IInv, Shape
  <2> QED BY <2>1 DEF IInv, LaunchIsAlone, LaunchFindsNone, LaunchDue, NoLaunch, CurrentLaunch
<1> QED BY <1>1, Invariance, PTL

-----------------------------------------------------------------------------
(* A running policy has something that can move it, or its last launch     *)
(* threw.  The evaluation that answers an exit is asked for when the exit  *)
(* is reported, or when the operation that hid it ends; it is not lost     *)
(* since the failure stays unhandled until it is evaluated.                *)

ExitIsEvaluated ==
    /\ phase \in {"down", "starting", "ready", "exited"}
    /\ await = "retire, rest" => ~Running
    /\ Alive => ~handled
    /\ await = "start" /\ phase = "exited" => ~handled

Working ==
    Running /\ desired /\ await = "nothing" =>
        \/ Alive \/ timer = "current" \/ ~NoLaunch(queue)
        \/ ~handled /\ Asks(queue, "evaluate")
        \/ threw

WorkInv == ExitIsEvaluated /\ Working

LEMMA QueuedAsks == ASSUME IInv PROVE Queued("evaluate") <=> Asks(queue, "evaluate")
BY LenProperties DEF IInv, Shape, Queued, Asks

LEMMA WorkingIsWork == ASSUME IInv PROVE Working <=> RunningHasWork
<1>1. DOMAIN queue = 1..Len(queue)
  BY LenProperties DEF IInv, Shape
<1>2. LaunchDue <=> timer = "current" \/ ~NoLaunch(queue)
  BY <1>1 DEF LaunchDue, NoLaunch, CurrentLaunch
<1> QED BY <1>2, QueuedAsks DEF Working, RunningHasWork

\* Adding an operation to the queue.
LEMMA QueueGrows ==
    ASSUME IInv, NEW kind \in {"start", "stop", "refresh", "enable", "disable", "evaluate"},
           NEW flag \in BOOLEAN, queue' = Append(queue, Op(kind, flag))
    PROVE  /\ NoLaunch(queue) <=> NoLaunch(queue')
           /\ Asks(queue, "evaluate") => Asks(queue', "evaluate")
           /\ kind = "evaluate" => Asks(queue', "evaluate")
BY OperationType, Adding DEF IInv, Shape

LEMMA RequestWorks == IInv /\ WorkInv /\ Requested => WorkInv'
<1> SUFFICES ASSUME IInv, WorkInv, Requested PROVE WorkInv'
  OBVIOUS
<1>1. UNCHANGED <<route, await, phase, handled, threw>>
  BY DEF Requested, RequestStart, RequestStop, EnableReconnect, DisableReconnect, RequestRefresh,
         tunnel
<1>2. PICK kind \in {"start", "stop", "refresh", "enable", "disable", "evaluate"},
           flag \in BOOLEAN :
         queue' = Append(queue, Op(kind, flag))
  BY DEF Requested, RequestStart, RequestStop, EnableReconnect, DisableReconnect, RequestRefresh,
         Request
<1>3. /\ NoLaunch(queue) <=> NoLaunch(queue')
      /\ Asks(queue, "evaluate") => Asks(queue', "evaluate")
  BY <1>2, QueueGrows
<1>4. desired' => desired /\ (timer = "current" => timer' = "current")
  <2>1. CASE RequestStop
    BY <2>1 DEF RequestStop
  <2>2. CASE DisableReconnect
    <3>1. desired' = (desired /\ timer = "none")
      BY <2>2 DEF DisableReconnect
    <3> QED BY <3>1
  <2>3. CASE UNCHANGED <<desired, timer>>
    BY <2>3
  <2> QED BY <2>1, <2>2, <2>3 DEF Requested, RequestStart, EnableReconnect, RequestRefresh
<1> QED BY <1>1, <1>3, <1>4 DEF WorkInv, ExitIsEvaluated, Working, Alive, Running

LEMMA TimerWorks == IInv /\ WorkInv /\ TimerFires => WorkInv'
<1> SUFFICES ASSUME IInv, WorkInv, TimerFires PROVE WorkInv'
  OBVIOUS
<1>1. /\ timer # "none" /\ queue' = Append(queue, Op("launch", timer = "current"))
      /\ UNCHANGED <<route, desired, await, phase, handled, threw>>
  BY DEF TimerFires, tunnel
<1>2. /\ timer = "current" => ~NoLaunch(queue')
      /\ Asks(queue, "evaluate") => Asks(queue', "evaluate")
  BY <1>1, AddingLaunch DEF IInv, Shape
<1>3. timer # "current" => (NoLaunch(queue) <=> NoLaunch(queue'))
  BY <1>1, OperationType, Adding DEF IInv, Shape
<1> QED BY <1>1, <1>2, <1>3 DEF WorkInv, ExitIsEvaluated, Working, Alive, Running

LEMMA ReportWorks == IInv /\ WorkInv /\ TunnelStep => WorkInv'
<1> SUFFICES ASSUME IInv, WorkInv, TunnelStep PROVE WorkInv'
  OBVIOUS
<1>1. /\ Alive /\ await \in {"nothing", "start"} /\ Notify
      /\ UNCHANGED <<route, desired, timer, await, handled, threw>>
      /\ phase' \in {"ready", "starting", "exited"}
  BY DEF TunnelStep, TunnelReady, TunnelFails, ConnectorExits, Reports
<1>2. CASE ~(desired /\ await = "nothing" /\ ~Queued("evaluate"))
  <2>1. queue' = queue /\ (desired /\ await = "nothing" => Asks(queue, "evaluate"))
    BY <1>1, <1>2, QueuedAsks DEF Notify
  <2> QED BY <1>1, <2>1 DEF WorkInv, ExitIsEvaluated, Working, Alive, Running
<1>3. CASE desired /\ await = "nothing" /\ ~Queued("evaluate")
  <2>1. Asks(queue', "evaluate")
    BY <1>1, <1>3, QueueGrows DEF Notify
  <2> QED BY <1>1, <2>1 DEF WorkInv, ExitIsEvaluated, Working, Alive, Running
<1> QED BY <1>2, <1>3

LEMMA ReturnWorks ==
    ASSUME IInv, WorkInv, RetireReturns \/ AttemptBegins \/ StartReturns
    PROVE  WorkInv'
<1> USE DEF WorkInv, ExitIsEvaluated, Working, Alive, Running
<1>1. CASE RetireReturns
  BY <1>1 DEF RetireReturns, Down
<1>2. CASE AttemptBegins
  BY <1>2 DEF AttemptBegins
<1>3. CASE StartReturns
  <2>1. /\ await = "start" /\ UNCHANGED <<route, desired, timer, phase, handled>>
        /\ await' = "nothing" /\ threw' = (phase = "down")
        /\ queue' = IF desired /\ ~Queued("evaluate")
                    THEN Append(queue, Op("evaluate", FALSE)) ELSE queue
    BY <1>3 DEF StartReturns
  <2>2. desired => Asks(queue', "evaluate")
    BY <2>1, QueuedAsks, QueueGrows
  <2>3. CASE phase = "down"
    <3>1. threw' /\ phase' = "down" /\ await' = "nothing"
      BY <2>1, <2>3
    <3> QED BY <3>1
  <2>4. CASE phase # "down"
    <3>1. Alive \/ ~handled
      BY <2>1, <2>4
    <3> QED BY <2>1, <2>2, <3>1
  <2> QED BY <2>3, <2>4
<1> QED BY <1>1, <1>2, <1>3

LEMMA RunWorks == IInv /\ WorkInv /\ RunStep => WorkInv'
<1> SUFFICES ASSUME IInv, WorkInv, RunStep PROVE WorkInv'
  OBVIOUS
<1> USE DEF WorkInv, ExitIsEvaluated, Working, Alive, Running
<1>1. ASSUME NEW rest, StopRouting(rest) PROVE WorkInv'
  BY <1>1, FreshShape DEF StopRouting, Retire, tunnel
\* The operation only leaves the queue.
<1>2. ASSUME NEW kind \in {"start", "stop", "refresh", "enable", "disable", "evaluate", "launch"},
             NEW flag \in BOOLEAN, Runs(kind, flag)
      PROVE  /\ await = "nothing" /\ Tail(queue) \in Seq(Operations)
             /\ NoLaunch(Tail(queue)) => NoLaunch(queue) \/ (kind = "launch" /\ flag = TRUE)
             /\ Asks(queue, "evaluate") => Asks(Tail(queue), "evaluate") \/ kind = "evaluate"
             /\ kind = "launch" /\ flag = TRUE => ~NoLaunch(queue)
  <2>1. queue \in Seq(Operations) /\ queue # <<>> /\ Head(queue) = Op(kind, flag)
    BY <1>2 DEF Runs, IInv, Shape
  <2>2. /\ Head(queue).kind = kind
        /\ Head(queue) = CurrentLaunch <=> kind = "launch" /\ flag = TRUE
    <3>1. /\ Op(kind, flag).kind = kind
          /\ Op(kind, flag) = CurrentLaunch <=> kind = "launch" /\ flag = TRUE
      BY OperationType
    <3> QED BY ONLY <2>1, <3>1
  <2>3. await = "nothing" /\ Tail(queue) \in Seq(Operations)
    BY <1>2, <2>1, Taking DEF Runs
  <2>4. /\ NoLaunch(Tail(queue)) => NoLaunch(queue) \/ (kind = "launch" /\ flag = TRUE)
        /\ kind = "launch" /\ flag = TRUE => ~NoLaunch(queue)
    BY <2>1, <2>2, Taking
  <2>5. Asks(queue, "evaluate") => Asks(Tail(queue), "evaluate") \/ kind = "evaluate"
    BY <2>1, <2>2, Taking
  <2> QED BY <2>3, <2>4, <2>5
<1>3. ASSUME NoLaunch(queue') => NoLaunch(queue),
             Asks(queue, "evaluate") => Asks(queue', "evaluate"),
             UNCHANGED <<route, desired, timer, await, phase, handled, threw>>
      PROVE  WorkInv'
  BY <1>3
<1>4. ASSUME NEW automatic \in BOOLEAN, RunStart(automatic) PROVE WorkInv'
  <2> DEFINE none == (desired /\ Alive) \/ (automatic /\ evidence = "auth")
  <2>1. CASE none
    <3>1. Runs("start", automatic) /\ queue' = Tail(queue)
          /\ UNCHANGED <<route, desired, timer, await, phase, handled, threw>>
      BY <1>4, <2>1 DEF RunStart, tunnel
    <3> QED BY <1>2, <1>3, <3>1
  <2>2. CASE ~none
    <3>1. desired' = TRUE /\ IF Alive THEN Retire("retire, launch") ELSE Launch
      BY <1>4, <2>2 DEF RunStart
    <3> QED BY <3>1 DEF Retire, Launch, Down, tunnel
  <2> QED BY <2>1, <2>2
<1>5. CASE RunStop
  BY <1>1, <1>5 DEF RunStop
\* A change of the settings that stops nothing.
<1>6. ASSUME NEW kind \in {"enable", "disable"}, NEW flag \in BOOLEAN, Runs(kind, flag),
             NEW starts \in BOOLEAN, queue' = Remaining(starts),
             UNCHANGED <<route, desired, timer, await, phase, handled, threw>>
      PROVE  WorkInv'
  <2>1. /\ Tail(queue) \in Seq(Operations)
        /\ NoLaunch(Tail(queue)) => NoLaunch(queue)
        /\ Asks(queue, "evaluate") => Asks(Tail(queue), "evaluate")
    BY <1>2, <1>6
  <2>2. Op("start", TRUE) \in Operations /\ Op("start", TRUE) # CurrentLaunch
    BY OperationType
  <2>3. /\ NoLaunch(queue') => NoLaunch(queue)
        /\ Asks(queue, "evaluate") => Asks(queue', "evaluate")
    BY <1>6, <2>1, <2>2, Preceding DEF Remaining
  <2> QED BY <1>3, <1>6, <2>3
<1>a. ASSUME NEW starts \in BOOLEAN, RunEnable(starts) PROVE WorkInv'
  <2>1. Runs("enable", FALSE) /\ queue' = Remaining(starts)
        /\ UNCHANGED <<route, desired, timer, await, phase, handled, threw>>
    BY <1>a DEF RunEnable, tunnel
  <2> QED BY <1>6, <2>1
<1>7. ASSUME NEW cancels \in BOOLEAN, NEW starts \in BOOLEAN, RunDisable(cancels, starts)
      PROVE  WorkInv'
  <2>1. CASE cancels
    BY <1>1, <1>7, <2>1 DEF RunDisable
  <2>2. CASE ~cancels
    <3>1. Runs("disable", cancels) /\ queue' = Remaining(starts)
          /\ UNCHANGED <<route, desired, timer, await, phase, handled, threw>>
      BY <1>7, <2>2 DEF RunDisable, tunnel
    <3> QED BY <1>6, <3>1
  <2> QED BY <2>1, <2>2
<1>8. ASSUME NEW networkChanged \in BOOLEAN, RunRefresh(networkChanged) PROVE WorkInv'
  <2>1. Runs("refresh", networkChanged) /\ UNCHANGED desired
    BY <1>8 DEF RunRefresh
  <2>2. CASE await' = "retire, launch" /\ UNCHANGED tunnel
    BY <2>2 DEF tunnel
  <2>3. CASE queue' = <<Evaluation>> \o Tail(queue) /\ UNCHANGED <<route, timer, await, tunnel>>
    <3>1. UNCHANGED <<route, desired, timer, await, phase, handled, threw>>
      BY <2>1, <2>3 DEF tunnel
    <3>2. /\ Tail(queue) \in Seq(Operations)
          /\ NoLaunch(Tail(queue)) => NoLaunch(queue)
      BY <1>2, <2>1
    <3>3. Asks(queue', "evaluate") /\ (NoLaunch(queue') => NoLaunch(queue))
      <4>1. Evaluation \in Operations /\ Evaluation # CurrentLaunch
            /\ Evaluation.kind = "evaluate"
        BY OperationType DEF Evaluation
      <4> QED BY <2>3, <3>2, <4>1, Preceding
    <3> QED BY <1>3, <3>1, <3>3
  <2> QED BY <1>8, <2>2, <2>3 DEF RunRefresh, Retire, Evaluation
<1>9. ASSUME NEW current \in BOOLEAN, RunLaunch(current) PROVE WorkInv'
  <2>1. /\ Runs("launch", current) /\ queue' = Tail(queue)
        /\ UNCHANGED <<route, desired, timer, asked>>
    BY <1>9 DEF RunLaunch
  <2>2. CASE current
    <3>1. Launch /\ ~Alive /\ await = "nothing"
      BY <1>2, <1>9, <2>1, <2>2 DEF RunLaunch, IInv, LaunchIsAlone
    <3>2. CASE desired
      <4>1. await' = "start" /\ Down
        BY <2>1, <3>1, <3>2 DEF Launch
      <4> QED BY <4>1 DEF Down
    <3>3. CASE ~desired
      <4>1. ~desired' /\ await' = "nothing" /\ UNCHANGED tunnel
        BY <2>1, <3>1, <3>3 DEF Launch
      <4> QED BY <2>1, <3>1, <4>1 DEF tunnel
    <3> QED BY <3>2, <3>3
  <2>3. CASE ~current
    <3>1. UNCHANGED <<await, phase, handled, threw>>
      BY <1>9, <2>3 DEF RunLaunch, tunnel
    <3> QED BY <1>2, <1>3, <2>1, <2>3, <3>1
  <2> QED BY <2>2, <2>3
<1>10. CASE EvaluateNothing
  <2>1. /\ Runs("evaluate", FALSE) /\ queue' = Tail(queue) /\ ~(SeesFailure /\ Running)
        /\ UNCHANGED <<route, desired, timer, await, phase, threw>>
    BY <1>10 DEF EvaluateNothing
  <2>2. handled' = (handled \/ SeesFailure)
    BY <1>10 DEF EvaluateNothing
  <2>3. ~handled' <=> ~handled /\ ~SeesFailure
    BY <2>2
  <2>4. await = "nothing" /\ (NoLaunch(queue') => NoLaunch(queue))
    BY <1>2, <2>1
  <2>5. Running \/ ~Alive
    BY <2>4 DEF IInv, PolicyRuns
  <2>6. Running /\ desired /\ ~Alive => handled
    BY <2>1 DEF SeesFailure
  <2>7. Alive => ~handled'
    BY <2>1, <2>3, <2>5
  <2> HIDE DEF Alive
  <2>8. Alive' <=> Alive
    BY <2>1 DEF Alive
  <2>9. ExitIsEvaluated'
    BY <2>1, <2>4, <2>7, <2>8
  <2>10. Working'
    BY <2>1, <2>4, <2>6, <2>8
  <2> QED BY <2>9, <2>10
<1>11. CASE EvaluateReady
  <2>1. /\ Alive /\ UNCHANGED <<desired, await, phase, handled>> /\ Runs("evaluate", FALSE)
    BY <1>11 DEF EvaluateReady, SeesReady
  <2>2. await = "nothing"
    BY <2>1 DEF Runs
  <2> QED BY <2>1, <2>2
<1>12. CASE EvaluateFailure
  <2> DEFINE class == IF evidence = "none" THEN "connector" ELSE evidence
  <2> HIDE DEF class
  <2> DEFINE t == AttemptFailed(route, class)
  <2>1. DOMAIN route = Fields
    BY DEF IInv, Shape
  <2>2. DOMAIN t.state = Fields /\ (t.effect = "launch" <=> t.state.lifecycle = "running")
    BY <2>1, FailedShape
  <2>3. GivenUp(t.state).lifecycle = "needs-attention"
    BY <2>2, GivenUpShape
  <2>4. \/ Retire("retire, schedule")
        \/ t.effect # "launch" /\ route' = t.state /\ Retire("retire, rest")
        \/ route' = GivenUp(t.state) /\ Retire("retire, rest")
    BY <1>12 DEF EvaluateFailure, class
  <2> HIDE DEF t
  <2>5. /\ UNCHANGED <<phase, handled>> /\ await' \in {"retire, schedule", "retire, rest"}
        /\ await' = "retire, rest" => route'.lifecycle # "running"
    BY <2>2, <2>3, <2>4 DEF Retire, tunnel
  <2> QED BY <2>5
<1> QED BY <1>4, <1>5, <1>7, <1>8, <1>9, <1>10, <1>11, <1>12, <1>a DEF RunStep

LEMMA TickWorks == IInv /\ WorkInv /\ Tick => WorkInv'
<1> SUFFICES ASSUME IInv, WorkInv, Tick PROVE WorkInv'
  OBVIOUS
<1>1. UNCHANGED <<desired, timer, queue, await, phase, handled, threw>> /\ route' = Aged(route)
  BY DEF Tick, tunnel
<1>2. route'.lifecycle = route.lifecycle
  BY <1>1, AgedKeeps DEF IInv, Shape
<1> QED BY <1>1, <1>2 DEF WorkInv, ExitIsEvaluated, Working, Alive, Running

\* A running policy always has something that can move it, unless its last launch threw:
\* no order of failures, reports, refreshes, timers and stops loses what would move it.
THEOREM PolicyIsNeverStuck == Spec => []RunningHasWork
<1>1. Init => WorkInv
  BY FreshShape DEF Init, WorkInv, ExitIsEvaluated, Working, Running, Alive
<1>2. IInv /\ WorkInv /\ [Next]_vars => WorkInv'
  <2>1. WorkInv /\ UNCHANGED vars => WorkInv'
    <3>1. UNCHANGED vars => UNCHANGED <<route, desired, timer, queue, await, phase, handled, threw>>
      BY DEF vars, tunnel
    <3> QED BY <3>1 DEF WorkInv, ExitIsEvaluated, Working, Alive, Running
  <2> QED
    BY <2>1, RequestWorks, TimerWorks, ReportWorks, ReturnWorks, RunWorks, TickWorks DEF Next
<1>3. IInv /\ WorkInv => RunningHasWork
  BY WorkingIsWork DEF WorkInv
<1> QED BY <1>1, <1>2, <1>3, Invariance, PTL DEF Spec
-----------------------------------------------------------------------------
(* The history of the switches: a sequence of ages that fall, so that what *)
(* pruning it leaves is its end.                                           *)

LEMMA Delays ==
    /\ Window \in Nat /\ Window > 0 /\ Cooldown \in Nat /\ Cooldown > 0 /\ SwitchDelay \in Nat
    /\ Dwell \in Nat /\ Dwell > 0 /\ MaxSwitches \in Nat /\ MaxSwitches > 0
    /\ TransportThreshold \in Nat /\ TransportThreshold > 0
    /\ ConnectorRetries \in Nat /\ ConnectorRetries > 0
<1> DEFINE positive == Nat \ {0}
<1>1. /\ Window \in positive /\ Cooldown \in positive /\ SwitchDelay \in positive
      /\ Dwell \in positive /\ MaxSwitches \in positive /\ TransportThreshold \in positive
      /\ ConnectorRetries \in positive
  BY PolicyAssumption
<1> QED BY <1>1

AgesKept == 0..Window + 1
Falling(h) == \A i, j \in 1..Len(h) : i <= j => h[i] >= h[j]
CutsAt(h, n) == \A i \in 1..Len(h) : Counts(h[i]) <=> i > n

\* The ages that no longer count come first.
LEMMA CutExists ==
    ASSUME NEW h \in Seq(AgesKept), Falling(h)
    PROVE  \E n \in 0..Len(h) : CutsAt(h, n)
<1> DEFINE counted == {i \in 1..Len(h) : Counts(h[i])}
<1>1. Len(h) \in Nat /\ \A i \in 1..Len(h) : h[i] \in AgesKept
  BY LenProperties, ElementOfSeq
<1>2. CASE counted = {}
  <2>1. \A i \in 1..Len(h) : ~Counts(h[i]) /\ ~(i > Len(h))
    BY <1>1, <1>2
  <2>2. CutsAt(h, Len(h))
    BY <2>1 DEF CutsAt
  <2> QED BY <1>1, <2>2
<1>3. CASE counted # {}
  <2>1. counted \subseteq Nat
    BY <1>1
  <2>2. PICK first \in counted : \A i \in counted : <<i, first>> \notin OpToRel(<, Nat)
    BY <1>3, <2>1, NatLessThanWellFounded, WFMin
  <2>3. ASSUME NEW i \in counted
        PROVE  i >= first
    <3>1. i \in Nat /\ first \in Nat
      BY <2>1
    <3>2. ~(i < first)
      BY <2>2, <3>1 DEF OpToRel
    <3> QED BY <3>1, <3>2
  <2>a. first \in 1..Len(h) /\ Counts(h[first])
    BY <2>2
  <2>4. ASSUME NEW i \in 1..Len(h), i >= first
        PROVE  Counts(h[i])
    <3>1. h[first] \in Nat /\ h[i] \in Nat
      BY <1>1, <2>a, Delays DEF AgesKept
    <3>2. h[first] >= h[i]
      BY <2>4, <2>a DEF Falling
    <3>3. h[first] <= Window
      BY <2>a DEF Counts
    <3> QED BY <3>1, <3>2, <3>3, Delays DEF Counts
  <2>5. CutsAt(h, first - 1)
    <3>1. \A i \in 1..Len(h) : Counts(h[i]) => i >= first
      BY <2>3
    <3>2. \A i \in 1..Len(h) : i > first - 1 <=> i >= first
      BY <1>1, <2>a
    <3> QED BY <2>4, <3>1, <3>2 DEF CutsAt
  <2> QED BY <1>1, <2>a, <2>5
<1> QED BY <1>2, <1>3

\* There is one place to cut.
LEMMA CutIsUnique ==
    ASSUME NEW h, Len(h) \in Nat, NEW n \in 0..Len(h), NEW m \in 0..Len(h),
           CutsAt(h, n), CutsAt(h, m)
    PROVE  n = m
<1>1. \A k, l \in 0..Len(h) : k < l => l \in 1..Len(h)
  OBVIOUS
<1>2. CASE n < m
  BY <1>1, <1>2 DEF CutsAt
<1>3. CASE m < n
  BY <1>1, <1>3 DEF CutsAt
<1> QED BY <1>2, <1>3

\* What pruning returns.
LEMMA RecentIsTheEnd ==
    ASSUME NEW h \in Seq(AgesKept), Falling(h), NEW n \in 0..Len(h), CutsAt(h, n)
    PROVE  /\ Recent(h) \in Seq(AgesKept) /\ Len(Recent(h)) = Len(h) - n
           /\ \A i \in 1..Len(h) - n : Recent(h)[i] = h[n + i]
<1> DEFINE old == CHOOSE m \in 0..Len(h) : CutsAt(h, m)
<1>1. Len(h) \in Nat /\ \A i \in 1..Len(h) : h[i] \in AgesKept
  BY LenProperties, ElementOfSeq
<1>2. old \in 0..Len(h) /\ CutsAt(h, old)
  OBVIOUS
<1>3. old = n
  BY <1>1, <1>2, CutIsUnique
<1>4. Recent(h) = SubSeq(h, n + 1, Len(h))
  BY <1>3 DEF Recent, CutsAt
<1>5. n \in Nat /\ n <= Len(h) /\ \A i \in n + 1..Len(h) : h[i] \in AgesKept
  BY <1>1
<1> HIDE DEF old
<1>6. /\ SubSeq(h, n + 1, Len(h)) \in Seq(AgesKept)
      /\ Len(SubSeq(h, n + 1, Len(h))) = IF n + 1 <= Len(h) THEN Len(h) - (n + 1) + 1 ELSE 0
      /\ \A i \in 1..Len(h) - (n + 1) + 1 : SubSeq(h, n + 1, Len(h))[i] = h[n + 1 + i - 1]
  BY <1>1, <1>5, SubSeqProperties
<1>7. /\ Len(h) - (n + 1) + 1 = Len(h) - n
      /\ \A i \in 1..Len(h) - n : n + 1 + i - 1 = n + i
      /\ n + 1 <= Len(h) \/ Len(h) - n = 0
  BY <1>1, <1>5
<1> QED BY <1>4, <1>6, <1>7

\* A history all of which counts is not pruned, and may be appended to.
LEMMA RecentOfRecent ==
    ASSUME NEW h \in Seq(AgesKept), Falling(h)
    PROVE  /\ Recent(h) \in Seq(AgesKept) /\ Len(Recent(h)) <= Len(h)
           /\ Falling(Recent(h)) /\ Recent(Recent(h)) = Recent(h)
           /\ Append(Recent(h), 0) \in Seq(AgesKept) /\ Falling(Append(Recent(h), 0))
           /\ Recent(Append(Recent(h), 0)) = Append(Recent(h), 0)
<1> DEFINE g == Recent(h)
<1>1. PICK n \in 0..Len(h) : CutsAt(h, n)
  BY CutExists
<1>2. /\ Len(h) \in Nat /\ \A i \in 1..Len(h) : h[i] \in AgesKept
  BY LenProperties, ElementOfSeq
<1>3. /\ g \in Seq(AgesKept) /\ Len(g) = Len(h) - n
      /\ \A i \in 1..Len(g) : g[i] = h[n + i] /\ n + i \in 1..Len(h) /\ n + i > n
  BY <1>1, <1>2, RecentIsTheEnd
<1>4. Falling(g)
  BY <1>2, <1>3 DEF Falling
<1>5. CutsAt(g, 0)
  BY <1>1, <1>3 DEF CutsAt
<1>6. Len(g) \in Nat /\ Len(g) <= Len(h)
  BY <1>1, <1>2, <1>3
<1> HIDE DEF g
<1>7. Recent(g) = g
  BY <1>3, <1>4, <1>5, <1>6, RecentIsTheEnd, SeqEqual
<1> DEFINE longer == Append(g, 0)
<1>8. /\ longer \in Seq(AgesKept) /\ Len(longer) = Len(g) + 1 /\ longer[Len(g) + 1] = 0
      /\ \A i \in 1..Len(g) : longer[i] = g[i]
  BY <1>3, Delays, AppendProperties DEF AgesKept
<1> HIDE DEF longer
<1>9. \A i \in 1..Len(longer) : (i \in 1..Len(g) \/ i = Len(g) + 1) /\ longer[i] \in Nat
  <2>1. \A i \in 1..Len(longer) : longer[i] \in AgesKept
    BY <1>8, ElementOfSeq
  <2> QED BY <1>6, <1>8, <2>1, Delays DEF AgesKept
<1>10. Falling(longer)
  BY <1>4, <1>6, <1>8, <1>9 DEF Falling
<1>11. CutsAt(longer, 0)
  BY <1>5, <1>6, <1>8, <1>9, Delays DEF CutsAt, Counts
<1>12. Recent(longer) = longer
  BY <1>6, <1>8, <1>10, <1>11, RecentIsTheEnd, SeqEqual
<1> QED BY <1>3, <1>4, <1>6, <1>7, <1>8, <1>10, <1>12 DEF g, longer

OlderHistory(h) == [i \in DOMAIN h |-> Older(h[i], Window + 1)]

\* As time passes, what counted for the whole window leaves the recent history.
LEMMA RecentAges ==
    ASSUME NEW h \in Seq(AgesKept), Falling(h)
    PROVE  /\ OlderHistory(h) \in Seq(AgesKept) /\ Len(OlderHistory(h)) = Len(h)
           /\ Falling(OlderHistory(h))
           /\ \E n \in 0..Len(Recent(h)) :
                 /\ \A i \in 1..n : Recent(h)[i] = Window
                 /\ \A i \in n + 1..Len(Recent(h)) : Recent(h)[i] < Window
                 /\ Recent(OlderHistory(h)) =
                       [i \in 1..Len(Recent(h)) - n |-> Recent(h)[n + i] + 1]
<1> DEFINE g == OlderHistory(h)
<1>1. Len(h) \in Nat /\ DOMAIN h = 1..Len(h) /\ \A i \in 1..Len(h) : h[i] \in AgesKept
  BY LenProperties, ElementOfSeq
<1>2. \A i \in 1..Len(h) : /\ g[i] = IF h[i] = Window + 1 THEN Window + 1 ELSE h[i] + 1
                           /\ g[i] \in AgesKept
  <2>1. \A i \in 1..Len(h) : g[i] = Older(h[i], Window + 1)
    BY <1>1 DEF OlderHistory
  <2>2. \A age \in AgesKept :
           /\ Older(age, Window + 1) = IF age = Window + 1 THEN Window + 1 ELSE age + 1
           /\ Older(age, Window + 1) \in AgesKept
    BY Delays DEF Older, Never, AgesKept
  <2> QED BY <1>1, <2>1, <2>2
<1>3. g \in Seq(AgesKept) /\ Len(g) = Len(h)
  <2>1. DOMAIN g = 1..Len(h) /\ g = [i \in 1..Len(h) |-> g[i]]
    BY <1>1 DEF OlderHistory
  <2>2. g \in [1..Len(h) -> AgesKept]
    BY <1>2, <2>1
  <2>3. g \in Seq(AgesKept)
    BY <1>1, <2>2, SeqDef
  <2> QED BY <1>1, <2>1, <2>3, LenProperties
<1> HIDE DEF g
<1>a. \A i \in 1..Len(h) : h[i] \in Nat /\ g[i] \in Nat /\ h[i] <= Window + 1
  BY <1>1, <1>2, Delays DEF AgesKept
<1>4. Falling(g)
  <2> SUFFICES ASSUME NEW i \in 1..Len(h), NEW j \in 1..Len(h), i <= j
               PROVE  g[i] >= g[j]
    BY <1>3 DEF Falling
  <2>1. h[i] >= h[j]
    BY DEF Falling
  <2> QED BY <1>2, <1>a, <2>1, Delays
<1>5. PICK m \in 0..Len(h) : CutsAt(h, m)
  BY CutExists
<1>6. PICK k \in 0..Len(g) : CutsAt(g, k)
  BY <1>3, <1>4, CutExists
<1>7. \A i \in 1..Len(h) : /\ h[i] \in Nat /\ g[i] \in Nat
                           /\ h[i] <= Window <=> i > m
                           /\ g[i] <= Window <=> i > k
                           /\ h[i] <= Window => g[i] = h[i] + 1
                           /\ g[i] <= Window => h[i] < Window
  <2>1. \A i \in 1..Len(h) : /\ h[i] <= Window <=> i > m
                             /\ g[i] <= Window <=> i > k
    BY <1>3, <1>5, <1>6 DEF CutsAt, Counts
  <2>2. \A i \in 1..Len(h) : /\ h[i] <= Window => g[i] = h[i] + 1
                             /\ g[i] <= Window => h[i] < Window
    BY <1>2, <1>a, Delays
  <2> QED BY <1>a, <2>1, <2>2
<1>8. k >= m
  <2> SUFFICES ASSUME k < m PROVE FALSE
    BY <1>1, <1>3, <1>5, <1>6
  <2>1. m \in 1..Len(h) /\ m > k
    BY <1>1, <1>3, <1>5, <1>6
  <2> QED BY <1>7, <2>1, Delays
<1> DEFINE n == k - m
<1>9. /\ Recent(h) \in Seq(AgesKept) /\ Len(Recent(h)) = Len(h) - m
      /\ \A i \in 1..Len(h) - m : Recent(h)[i] = h[m + i]
  BY <1>5, RecentIsTheEnd
<1>10. /\ Recent(g) \in Seq(AgesKept) /\ Len(Recent(g)) = Len(g) - k
       /\ \A i \in 1..Len(g) - k : Recent(g)[i] = g[k + i]
  BY <1>3, <1>4, <1>6, RecentIsTheEnd
<1>11. n \in 0..Len(Recent(h)) /\ Len(Recent(h)) - n = Len(Recent(g))
  BY <1>1, <1>3, <1>5, <1>6, <1>8, <1>9, <1>10
<1>12. ASSUME NEW i \in 1..n PROVE Recent(h)[i] = Window
  <2>1. i \in 1..Len(h) - m /\ m + i \in 1..Len(h) /\ m + i > m /\ ~(m + i > k)
    BY <1>1, <1>3, <1>5, <1>6, <1>8
  <2>2. h[m + i] <= Window /\ ~(h[m + i] + 1 <= Window) /\ h[m + i] \in Nat
    BY <1>7, <2>1
  <2> QED BY <1>9, <2>1, <2>2, Delays
<1>13. ASSUME NEW i \in n + 1..Len(Recent(h)) PROVE Recent(h)[i] < Window
  <2>1. i \in 1..Len(h) - m /\ m + i \in 1..Len(h) /\ m + i > k
    BY <1>1, <1>3, <1>5, <1>6, <1>8, <1>9
  <2> QED BY <1>7, <1>9, <2>1
<1>14. ASSUME NEW i \in 1..Len(Recent(g)) PROVE Recent(g)[i] = Recent(h)[n + i] + 1
  <2>1. /\ k + i \in 1..Len(h) /\ k + i > m /\ i \in 1..Len(g) - k
        /\ n + i \in 1..Len(h) - m /\ m + (n + i) = k + i
    BY <1>1, <1>3, <1>5, <1>6, <1>8, <1>10
  <2>2. g[k + i] = h[k + i] + 1
    BY <1>7, <2>1
  <2> QED BY <1>9, <1>10, <2>1, <2>2
<1>15. Recent(g) = [i \in 1..Len(Recent(h)) - n |-> Recent(h)[n + i] + 1]
  <2>1. Recent(g) = [i \in 1..Len(Recent(g)) |-> Recent(g)[i]]
    BY <1>10, LenProperties
  <2> QED BY <1>11, <1>14, <2>1
<1> QED BY <1>3, <1>4, <1>11, <1>12, <1>13, <1>15 DEF g

-----------------------------------------------------------------------------
(* What every transition of the policy keeps: its types; the history falls; *)
(* a policy that was started has a route; the route of a running one may   *)
(* be retried; and what has cooled down since a failure or since the       *)
(* circuit opened is as old as that: whenever the policy may recover by    *)
(* itself, every route it left has cooled down.                            *)

Retriable(q) == q.transport < TransportThreshold /\ q.connector <= ConnectorRetries
LeftBefore(s, age) == \A r \in Route : s.routes[r].left # Never => s.routes[r].left >= age

Sound(s) ==
    /\ s \in States
    /\ Falling(s.switches)
    /\ s.lifecycle # "stopped" => s.active \in Route
    /\ s.lifecycle = "running" => Retriable(Active(s))
    /\ s.lifecycle = "needs-attention" => LeftBefore(s, Active(s).failed)
    /\ s.lifecycle = "circuit-open" => LeftBefore(s, s.opened)

\* A history within its bound, as the type of the policy has it.
LEMMA Histories ==
    \A h : h \in UNION {[1..n -> AgesKept] : n \in 0..MaxSwitches} <=>
              h \in Seq(AgesKept) /\ Len(h) <= MaxSwitches
<1> TAKE h
<1>1. ASSUME NEW n \in 0..MaxSwitches, h \in [1..n -> AgesKept]
      PROVE  h \in Seq(AgesKept) /\ Len(h) <= MaxSwitches
  <2>1. n \in Nat /\ n <= MaxSwitches
    BY Delays
  <2>2. h \in Seq(AgesKept)
    BY <1>1, <2>1, SeqDef
  <2>3. Len(h) = n
    BY <1>1, <2>1, <2>2, LenProperties
  <2> QED BY <2>1, <2>2, <2>3
<1>2. ASSUME h \in Seq(AgesKept), Len(h) <= MaxSwitches
      PROVE  \E n \in 0..MaxSwitches : h \in [1..n -> AgesKept]
  <2>1. Len(h) \in 0..MaxSwitches /\ h \in [1..Len(h) -> AgesKept]
    BY <1>2, LenProperties, Delays
  <2> QED BY <2>1
<1> QED BY <1>1, <1>2

LEMMA StateFields ==
    ASSUME NEW s \in States
    PROVE  /\ s.lifecycle \in {"stopped", "running", "needs-attention", "circuit-open"}
           /\ s.active \in Route \cup {NoRoute}
           /\ s.routes \in [Route -> RouteStates]
           /\ s.switches \in Seq(AgesKept) /\ Len(s.switches) <= MaxSwitches
           /\ s.opened \in Ages(Cooldown)
           /\ DOMAIN s = Fields
           /\ s = [lifecycle |-> s.lifecycle, active |-> s.active, routes |-> s.routes,
                   switches |-> s.switches, opened |-> s.opened]
BY Histories DEF States, AgesKept, Fields

LEMMA IsState ==
    ASSUME NEW lifecycle \in {"stopped", "running", "needs-attention", "circuit-open"},
           NEW active \in Route \cup {NoRoute}, NEW routes \in [Route -> RouteStates],
           NEW switches \in Seq(AgesKept), Len(switches) <= MaxSwitches,
           NEW opened \in Ages(Cooldown)
    PROVE  [lifecycle |-> lifecycle, active |-> active, routes |-> routes,
            switches |-> switches, opened |-> opened] \in States
BY Histories DEF States, AgesKept

LEMMA RouteFields ==
    ASSUME NEW q \in RouteStates
    PROVE  /\ q.transport \in 0..TransportThreshold /\ q.connector \in 0..ConnectorRetries + 1
           /\ q.failed \in Ages(Cooldown) /\ q.ready \in Ages(Dwell) /\ q.left \in Ages(Cooldown)
           /\ q.failure \in Classes \cup {"none"}
BY DEF RouteStates

LEMMA AgesGrow ==
    ASSUME NEW limit \in Nat
    PROVE  /\ \A age \in Ages(limit) : Older(age, limit) \in Ages(limit)
           /\ \A age \in Ages(limit) : Older(age, limit) = Never <=> age = Never
           /\ \A a, b \in Ages(limit) : a >= b => Older(a, limit) >= Older(b, limit)
           /\ 0 \in Ages(limit) /\ limit \in Ages(limit) /\ Never \in Ages(limit)
BY DEF Ages, Older, Never

\* There is a first route, and the table of routes is a table.
LEMMA FirstIsRoute == First \in Route /\ Len(RouteOrder) \in Nat /\ Len(RouteOrder) >= 1
<1>1. Len(RouteOrder) \in Nat /\ Len(RouteOrder) # 0
  BY RouteAssumption
<1>2. 1 \in 1..Len(RouteOrder)
  BY <1>1
<1> QED BY <1>1, <1>2 DEF First, Route

LEMMA FreshSound == Sound(Fresh)
<1>1. EmptyRoute \in RouteStates
  BY Delays, AgesGrow DEF EmptyRoute, RouteStates
<1>2. <<>> \in Seq(AgesKept) /\ Len(<<>>) = 0
  BY EmptySeq
<1>3. [r \in Route |-> EmptyRoute] \in [Route -> RouteStates]
  BY <1>1
<1>4. Never \in Ages(Cooldown) /\ 0 <= MaxSwitches
  BY Delays, AgesGrow
<1>5. Fresh \in States
  BY <1>2, <1>3, <1>4, IsState DEF Fresh
<1> QED BY <1>2, <1>5 DEF Sound, Fresh, Falling

\* A launch leads to a running policy whose route may be tried.
LEMMA LaunchedSound ==
    ASSUME NEW s \in States, Falling(s.switches), NEW r \in Route, Retriable(s.routes[r])
    PROVE  /\ Sound(Launched(s, r)) /\ Launched(s, r).active = r
           /\ Launched(s, r).switches = s.switches
           /\ \A q \in Route : /\ Launched(s, r).routes[q].left = s.routes[q].left
                             /\ Launched(s, r).routes[q].failed = s.routes[q].failed
<1> DEFINE t == Launched(s, r)
           probed == [s.routes EXCEPT ![r].status = "probing"]
<1>1. /\ s.routes \in [Route -> RouteStates] /\ s.routes[r] \in RouteStates
      /\ s.switches \in Seq(AgesKept) /\ Len(s.switches) <= MaxSwitches /\ DOMAIN s = Fields
  BY StateFields
<1>2. /\ [s.routes[r] EXCEPT !.status = "probing"] \in RouteStates
      /\ Retriable([s.routes[r] EXCEPT !.status = "probing"])
      /\ [s.routes[r] EXCEPT !.status = "probing"].left = s.routes[r].left
      /\ [s.routes[r] EXCEPT !.status = "probing"].failed = s.routes[r].failed
  BY <1>1 DEF RouteStates, Retriable
<1>3. /\ probed \in [Route -> RouteStates] /\ Retriable(probed[r])
      /\ \A q \in Route : probed[q].left = s.routes[q].left /\ probed[q].failed = s.routes[q].failed
  BY <1>1, <1>2
<1>4. t = [lifecycle |-> "running", active |-> r, routes |-> probed, switches |-> s.switches,
           opened |-> Never]
  <2>1. s = [lifecycle |-> s.lifecycle, active |-> s.active, routes |-> s.routes,
             switches |-> s.switches, opened |-> s.opened]
    BY StateFields
  <2>2. t = [s EXCEPT !.lifecycle = "running", !.active = r, !.routes = probed, !.opened = Never]
    BY <1>1, <2>1 DEF Launched
  <2> HIDE DEF t, probed
  <2> QED BY <2>1, <2>2
<1>5. Never \in Ages(Cooldown)
  BY Delays, AgesGrow
<1> HIDE DEF t, probed
<1>6. t \in States
  BY <1>1, <1>3, <1>4, <1>5, IsState
<1> QED BY <1>3, <1>4, <1>6 DEF Sound, Active, t

LEMMA StartedSound ==
    /\ Sound(Started.state) /\ Started.state.active = First
    /\ Started.state.switches = <<>>
<1>1. Fresh \in States /\ Falling(Fresh.switches) /\ Fresh.switches = <<>>
  BY FreshSound DEF Sound, Fresh
<1>2. Retriable(Fresh.routes[First])
  BY FirstIsRoute, Delays DEF Fresh, Retriable, EmptyRoute
<1> QED BY <1>1, <1>2, FirstIsRoute, LaunchedSound DEF Started, Transition

\* A ready attempt clears failures; the history and the route stay.
LEMMA ReadySound ==
    ASSUME NEW s, Sound(s), s.lifecycle = "running"
    PROVE  /\ Sound(AttemptReady(s)) /\ AttemptReady(s).active = s.active
           /\ AttemptReady(s).switches = s.switches
<1> DEFINE q == s.routes[s.active]
           cleared == [q EXCEPT !.status = "ready", !.connector = 0, !.failure = "none",
                                !.ready = 0, !.left = Never]
           routes == [s.routes EXCEPT ![s.active] = cleared]
<1>1. /\ s \in States /\ s.active \in Route /\ Falling(s.switches) /\ Retriable(q)
      /\ s.routes \in [Route -> RouteStates] /\ q \in RouteStates
      /\ s.switches \in Seq(AgesKept) /\ Len(s.switches) <= MaxSwitches /\ DOMAIN s = Fields
      /\ s.opened \in Ages(Cooldown)
  BY StateFields DEF Sound, Active
<1>2. 0 \in Ages(Dwell) /\ Never \in Ages(Cooldown) /\ 0 \in 0..ConnectorRetries + 1
  BY Delays, AgesGrow
<1>3. cleared \in RouteStates /\ cleared.transport = q.transport /\ cleared.connector = 0
  BY <1>1, <1>2 DEF RouteStates
<1>4. Retriable(cleared)
  BY <1>1, <1>3, Delays DEF Retriable
<1> HIDE DEF cleared
<1>5. routes \in [Route -> RouteStates] /\ routes[s.active] = cleared
  BY <1>1, <1>3
<1>6. AttemptReady(s) = [lifecycle |-> "running", active |-> s.active, routes |-> routes,
                         switches |-> s.switches, opened |-> s.opened]
  BY <1>1 DEF AttemptReady, States, cleared
<1> HIDE DEF routes
<1>7. AttemptReady(s) \in States
  BY <1>1, <1>5, <1>6, IsState
<1> QED BY <1>1, <1>4, <1>5, <1>6, <1>7 DEF Sound, Active

\* Time leaves the route and the lifecycle alone, and ages everything together.
LEMMA AgedSound ==
    ASSUME NEW s, Sound(s)
    PROVE  /\ Sound(Aged(s)) /\ Aged(s).active = s.active
           /\ Aged(s).switches = OlderHistory(s.switches)
<1> DEFINE routes == [r \in Route |-> AgedRoute(s.routes[r])]
           opened == Older(s.opened, Cooldown)
<1>1. /\ s \in States
      /\ s.lifecycle # "stopped" => s.active \in Route
      /\ s.active \in Route \cup {NoRoute}
      /\ s.lifecycle \in {"stopped", "running", "needs-attention", "circuit-open"}
      /\ s.routes \in [Route -> RouteStates]
      /\ s.switches \in Seq(AgesKept) /\ Len(s.switches) <= MaxSwitches /\ DOMAIN s = Fields
      /\ s.opened \in Ages(Cooldown)
  BY StateFields DEF Sound
<1>2. ASSUME NEW q \in RouteStates
      PROVE  /\ AgedRoute(q) \in RouteStates
             /\ AgedRoute(q).transport = q.transport /\ AgedRoute(q).connector = q.connector
             /\ AgedRoute(q).failed = Older(q.failed, Cooldown)
             /\ AgedRoute(q).left = Older(q.left, Cooldown)
  <2>1. /\ Older(q.failed, Cooldown) \in Ages(Cooldown)
        /\ Older(q.left, Cooldown) \in Ages(Cooldown)
        /\ Older(q.ready, Dwell) \in Ages(Dwell)
    BY RouteFields, Delays, AgesGrow
  <2> QED BY <2>1 DEF AgedRoute, RouteStates
<1>3. \A r \in Route :
         /\ routes[r] \in RouteStates
         /\ routes[r].transport = s.routes[r].transport
         /\ routes[r].connector = s.routes[r].connector
         /\ routes[r].failed = Older(s.routes[r].failed, Cooldown)
         /\ routes[r].left = Older(s.routes[r].left, Cooldown)
  BY <1>1, <1>2
<1>4. /\ OlderHistory(s.switches) \in Seq(AgesKept) /\ Falling(OlderHistory(s.switches))
      /\ Len(OlderHistory(s.switches)) <= MaxSwitches
  BY <1>1, RecentAges DEF Sound
<1>5. opened \in Ages(Cooldown)
  BY <1>1, Delays, AgesGrow
<1>6. Aged(s) = [lifecycle |-> s.lifecycle, active |-> s.active, routes |-> routes,
                 switches |-> OlderHistory(s.switches), opened |-> opened]
  <2>1. s = [lifecycle |-> s.lifecycle, active |-> s.active, routes |-> s.routes,
             switches |-> s.switches, opened |-> s.opened]
    BY <1>1, StateFields
  <2>2. Aged(s) = [s EXCEPT !.opened = opened, !.switches = OlderHistory(s.switches),
                            !.routes = routes]
    BY DEF Aged, OlderHistory
  <2> HIDE DEF routes, opened
  <2> QED BY <2>1, <2>2
<1>7. routes \in [Route -> RouteStates]
  BY <1>3
<1> HIDE DEF routes, opened
<1>8. Aged(s) \in States
  <2>1. /\ [lifecycle |-> s.lifecycle, active |-> s.active, routes |-> routes,
            switches |-> OlderHistory(s.switches), opened |-> opened] \in States
    <3> DEFINE h == OlderHistory(s.switches)
    <3>1. h \in Seq(AgesKept) /\ Len(h) <= MaxSwitches
      BY <1>4
    <3> HIDE DEF h
    <3>2. [lifecycle |-> s.lifecycle, active |-> s.active, routes |-> routes,
           switches |-> h, opened |-> opened] \in States
      BY <1>1, <1>5, <1>7, <3>1, IsState
    <3> QED BY <3>2 DEF h
  <2> QED BY <1>6, <2>1
<1>9. s.lifecycle = "running" => Retriable(Active(Aged(s)))
  BY <1>1, <1>3, <1>6 DEF Sound, Active, Retriable
<1>10. ASSUME NEW age \in Ages(Cooldown), LeftBefore(s, age)
       PROVE  LeftBefore(Aged(s), Older(age, Cooldown))
  <2> SUFFICES ASSUME NEW r \in Route, Aged(s).routes[r].left # Never
               PROVE  Aged(s).routes[r].left >= Older(age, Cooldown)
    BY DEF LeftBefore
  <2>1. /\ s.routes[r].left \in Ages(Cooldown)
        /\ Aged(s).routes[r].left = Older(s.routes[r].left, Cooldown)
    BY <1>1, <1>3, <1>6, RouteFields
  <2>2. s.routes[r].left # Never
    BY <2>1, Delays, AgesGrow
  <2> QED BY <1>10, <2>1, <2>2, Delays, AgesGrow DEF LeftBefore
<1>11. s.lifecycle = "needs-attention" => LeftBefore(Aged(s), Active(Aged(s)).failed)
  <2> SUFFICES ASSUME s.lifecycle = "needs-attention"
               PROVE  LeftBefore(Aged(s), Active(Aged(s)).failed)
    OBVIOUS
  <2>1. /\ s.active \in Route /\ Active(s).failed \in Ages(Cooldown)
        /\ LeftBefore(s, Active(s).failed)
    BY <1>1, RouteFields DEF Sound, Active
  <2>2. Active(Aged(s)).failed = Older(Active(s).failed, Cooldown)
    BY <1>3, <1>6, <2>1 DEF Active
  <2> QED BY <1>10, <2>1, <2>2
<1>12. s.lifecycle = "circuit-open" => LeftBefore(Aged(s), Aged(s).opened)
  BY <1>1, <1>6, <1>10 DEF Sound, opened
<1> QED BY <1>1, <1>4, <1>6, <1>8, <1>9, <1>11, <1>12 DEF Sound

\* What a transition does to the route and to the recent history.
Remains(s, t) == t.active = s.active /\ Recent(t.switches) = Recent(s.switches)
SwitchesTo(s, t) ==
    /\ s.active \in Route /\ Len(Recent(s.switches)) < MaxSwitches
    /\ t.active \in Route /\ Recent(t.switches) = Append(Recent(s.switches), 0)

\* The route it takes has cooled down since it was left, if it is another one.
Cooled(s, t) ==
    \A r \in Route \ {s.active} : t.active = r => s.routes[r].left \in {Never, Cooldown}

\* The next route is one of those that may be tried.
LEMMA NextRouteIsEligible ==
    ASSUME NEW s, s.active \in Route, Offsets(s) # {}
    PROVE  NextRoute(s) \in Route /\ Eligible(s, NextRoute(s))
<1> DEFINE n == Len(RouteOrder)
           at == CHOOSE i \in 1..n : RouteOrder[i] = s.active
           o == CHOOSE o \in Offsets(s) : \A p \in Offsets(s) : o <= p
<1>1. n \in Nat /\ n >= 1
  BY FirstIsRoute
<1>2. Offsets(s) \subseteq Nat
  BY <1>1 DEF Offsets
<1>3. \E k \in Offsets(s) : \A p \in Offsets(s) : k <= p
  <2>1. PICK k \in Offsets(s) : \A p \in Offsets(s) : <<p, k>> \notin OpToRel(<, Nat)
    BY <1>2, NatLessThanWellFounded, WFMin
  <2>2. ASSUME NEW p \in Offsets(s)
        PROVE  k <= p
    <3>1. p \in Nat /\ k \in Nat
      BY <1>2
    <3>2. ~(p < k)
      BY <2>1, <3>1 DEF OpToRel
    <3> QED BY <3>1, <3>2
  <2> QED BY <2>2
<1>4. o \in Offsets(s)
  BY <1>3
<1>5. at \in 1..n
  <2>1. \E i \in 1..n : RouteOrder[i] = s.active
    BY DEF Route
  <2> QED BY <2>1
<1>6. NextRoute(s) = Following(s, o)
  BY DEF NextRoute
<1> HIDE DEF o
<1>7. Following(s, o) = RouteOrder[((at - 1 + o) % n) + 1]
  BY DEF Following
<1> HIDE DEF at
<1>8. ((at - 1 + o) % n) + 1 \in 1..n
  <2>1. at - 1 + o \in Int /\ o \in Nat
    BY <1>1, <1>2, <1>4, <1>5
  <2>2. (at - 1 + o) % n \in 0..n - 1
    BY <1>1, <2>1
  <2> QED BY <1>1, <2>2
<1> QED BY <1>4, <1>6, <1>7, <1>8 DEF Offsets, Route

\* The bookkeeping of a failure: of the route in use it may reach a limit.
LEMMA FailedSound ==
    ASSUME NEW s, Sound(s), s.lifecycle = "running", NEW class \in Classes
    PROVE  LET f == Failed(s, class)
           IN  /\ f \in States /\ f.lifecycle = "running" /\ f.active = s.active
               /\ f.switches = Recent(s.switches) /\ Active(f).failed = 0
               /\ \A r \in Route : f.routes[r].left = s.routes[r].left
               /\ RetriesRoute(f, class) => Retriable(Active(f))
<1> DEFINE f == Failed(s, class)
           routes == [Counted(s) EXCEPT ![s.active] = FailedRoute(Counted(s)[s.active], class)]
<1>1. /\ s \in States /\ s.active \in Route /\ Falling(s.switches) /\ Retriable(s.routes[s.active])
      /\ s.routes \in [Route -> RouteStates]
      /\ s.switches \in Seq(AgesKept) /\ Len(s.switches) <= MaxSwitches
      /\ s.opened \in Ages(Cooldown)
      /\ s = [lifecycle |-> s.lifecycle, active |-> s.active, routes |-> s.routes,
              switches |-> s.switches, opened |-> s.opened]
  BY StateFields DEF Sound, Active
<1>2. ASSUME NEW q \in RouteStates
      PROVE  LET cleared == [q EXCEPT !.transport = 0, !.connector = 0]
             IN  cleared \in RouteStates /\ cleared.left = q.left /\ Retriable(cleared)
  <2> DEFINE cleared == [q EXCEPT !.transport = 0, !.connector = 0]
  <2>1. 0 \in 0..TransportThreshold /\ 0 \in 0..ConnectorRetries + 1
    BY Delays
  <2>2. cleared \in RouteStates
    BY <2>1 DEF RouteStates
  <2>3. cleared.left = q.left /\ cleared.transport = 0 /\ cleared.connector = 0
    BY DEF RouteStates
  <2> HIDE DEF cleared
  <2>4. Retriable(cleared)
    BY <2>3, Delays DEF Retriable
  <2> QED BY <2>2, <2>3, <2>4 DEF cleared
<1>3. ASSUME NEW q \in RouteStates, Retriable(q)
      PROVE  LET failed == FailedRoute(q, class)
             IN  /\ failed \in RouteStates /\ failed.left = q.left /\ failed.failed = 0
                 /\ class = "transport" => failed.connector <= ConnectorRetries
                 /\ class = "connector" => failed.transport < TransportThreshold
  <2> DEFINE transport == IF class = "transport" THEN q.transport + 1 ELSE q.transport
             connector == IF class = "connector" THEN q.connector + 1 ELSE q.connector
  <2>1. /\ transport \in 0..TransportThreshold /\ connector \in 0..ConnectorRetries + 1
        /\ class = "transport" => connector <= ConnectorRetries
        /\ class = "connector" => transport < TransportThreshold
    BY <1>3, RouteFields, Delays DEF Retriable
  <2>2. 0 \in Ages(Cooldown)
    BY Delays, AgesGrow
  <2>3. FailedRoute(q, class) = [q EXCEPT !.status = "failed", !.failure = class, !.failed = 0,
                                          !.transport = transport, !.connector = connector]
    BY DEF FailedRoute
  <2> HIDE DEF transport, connector
  <2> DEFINE failed == FailedRoute(q, class)
  <2>4. failed \in RouteStates
    BY <2>1, <2>2, <2>3 DEF RouteStates
  <2>5. /\ failed.left = q.left /\ failed.failed = 0
        /\ failed.transport = transport /\ failed.connector = connector
    BY <2>3 DEF RouteStates
  <2> QED BY <2>1, <2>4, <2>5
<1>4. /\ Counted(s) \in [Route -> RouteStates] /\ Retriable(Counted(s)[s.active])
      /\ \A r \in Route : Counted(s)[r].left = s.routes[r].left
  BY <1>1, <1>2 DEF Counted
<1>5. f = [s EXCEPT !.switches = Recent(s.switches), !.routes = routes]
  BY DEF Failed
<1> HIDE DEF f, routes
<1>6. f = [lifecycle |-> s.lifecycle, active |-> s.active, routes |-> routes,
           switches |-> Recent(s.switches), opened |-> s.opened]
  BY <1>1, <1>5
<1>7. /\ routes \in [Route -> RouteStates]
      /\ routes[s.active] = FailedRoute(Counted(s)[s.active], class)
      /\ \A r \in Route : routes[r].left = s.routes[r].left
  BY <1>1, <1>3, <1>4 DEF routes
<1>8. Recent(s.switches) \in Seq(AgesKept) /\ Len(Recent(s.switches)) <= MaxSwitches
  <2>1. Len(Recent(s.switches)) <= Len(s.switches) /\ Recent(s.switches) \in Seq(AgesKept)
    BY <1>1, RecentOfRecent
  <2>2. Len(Recent(s.switches)) \in Nat /\ Len(s.switches) \in Nat
    BY <1>1, <2>1, LenProperties
  <2> QED BY <1>1, <2>1, <2>2, Delays
<1>9. f \in States
  BY <1>1, <1>6, <1>7, <1>8, IsState
<1>10. RetriesRoute(f, class) => Retriable(Active(f))
  BY <1>1, <1>3, <1>4, <1>6, <1>7 DEF RetriesRoute, Retriable, Active
<1>11. f = Failed(s, class)
  BY DEF f
<1> QED BY <1>1, <1>3, <1>4, <1>6, <1>7, <1>9, <1>10, <1>11 DEF Active

\* A switch takes an eligible route and adds itself to the history.
LEMMA SwitchedSound ==
    ASSUME NEW f \in States, f.active \in Route, f.lifecycle = "running",
           Falling(f.switches), Recent(f.switches) = f.switches, Len(f.switches) < MaxSwitches,
           NEW r \in Route, Eligible(f, r)
    PROVE  LET t == Switched(f, r)
           IN  /\ Sound(t) /\ t.active = r /\ t.switches = Append(f.switches, 0)
               /\ t.routes[f.active].failed = f.routes[f.active].failed
<1> DEFINE t == Switched(f, r)
           left == [f EXCEPT !.lifecycle = "running", !.active = r]
           marked == [left EXCEPT !.routes[f.active].status = "cooling-down"]
           dated == [marked EXCEPT !.routes[f.active].left = 0]
           probed == [dated EXCEPT !.routes[r].status = "probing"]
           Leave(q) == [q EXCEPT !.status = "cooling-down", !.left = 0]
           Probe(q) == [q EXCEPT !.status = "probing"]
           without == [f.routes EXCEPT ![f.active] = Leave(f.routes[f.active])]
           routes == [without EXCEPT ![r] = Probe(without[r])]
<1>1. /\ f.routes \in [Route -> RouteStates]
      /\ f.switches \in Seq(AgesKept) /\ Len(f.switches) <= MaxSwitches
      /\ f.opened \in Ages(Cooldown)
      /\ f = [lifecycle |-> f.lifecycle, active |-> f.active, routes |-> f.routes,
              switches |-> f.switches, opened |-> f.opened]
  BY StateFields
<1>2. 0 \in Ages(Cooldown)
  BY Delays, AgesGrow
<1>3. ASSUME NEW q \in RouteStates
      PROVE  /\ Leave(q) \in RouteStates /\ Probe(q) \in RouteStates
             /\ Leave(q).failed = q.failed /\ Probe(q).failed = q.failed
             /\ Retriable(q) => Retriable(Leave(q)) /\ Retriable(Probe(q))
  BY <1>2 DEF RouteStates, Retriable
<1>4. t = [lifecycle |-> "running", active |-> r, routes |-> routes,
           switches |-> Append(f.switches, 0), opened |-> f.opened]
  <2> DEFINE Rest(routing) == [lifecycle |-> "running", active |-> r, routes |-> routing,
                               switches |-> f.switches, opened |-> f.opened]
  <2>1. t = [probed EXCEPT !.switches = Append(@, 0)]
    BY DEF Switched
  <2>a. f = [lifecycle |-> f.lifecycle, active |-> f.active, routes |-> f.routes,
             switches |-> f.switches, opened |-> f.opened]
    BY <1>1
  <2>b. \A q \in Route : f.routes[q] \in RouteStates
    BY <1>1
  <2>2. left = Rest(f.routes)
    <3> DEFINE going == [f EXCEPT !.lifecycle = "running"]
    <3>1. left = [going EXCEPT !.active = r]
      OBVIOUS
    <3>2. going = [lifecycle |-> "running", active |-> f.active, routes |-> f.routes,
                   switches |-> f.switches, opened |-> f.opened]
      BY <2>a
    <3> HIDE DEF going, left
    <3> QED BY <3>1, <3>2
  <2>3. marked = [left EXCEPT !.routes = [left.routes EXCEPT ![f.active] =
                    [left.routes[f.active] EXCEPT !.status = "cooling-down"]]]
    OBVIOUS
  <2> HIDE DEF left
  <2>4. marked = Rest([f.routes EXCEPT ![f.active] = [@ EXCEPT !.status = "cooling-down"]])
    BY <2>2, <2>3
  <2>5. dated = [marked EXCEPT !.routes = [marked.routes EXCEPT ![f.active] =
                   [marked.routes[f.active] EXCEPT !.left = 0]]]
    OBVIOUS
  <2> HIDE DEF marked
  <2>6. dated = Rest(without)
    <3> DEFINE first == [f.routes EXCEPT ![f.active] = [@ EXCEPT !.status = "cooling-down"]]
    <3>1. dated = Rest([first EXCEPT ![f.active] = [first[f.active] EXCEPT !.left = 0]])
      BY <2>4, <2>5
    <3>2. [first EXCEPT ![f.active] = [first[f.active] EXCEPT !.left = 0]] = without
      <4>1. first[f.active] = [f.routes[f.active] EXCEPT !.status = "cooling-down"]
        BY <1>1
      <4>2. [first[f.active] EXCEPT !.left = 0] = Leave(f.routes[f.active])
        BY <4>1
      <4> HIDE DEF Leave
      <4> QED BY <4>2
    <3> QED BY <3>1, <3>2
  <2>7. probed = [dated EXCEPT !.routes = [dated.routes EXCEPT ![r] =
                    [dated.routes[r] EXCEPT !.status = "probing"]]]
    OBVIOUS
  <2> HIDE DEF dated, without
  <2>8. probed = Rest(routes)
    BY <2>6, <2>7
  <2> HIDE DEF probed, routes, t
  <2> QED BY <2>1, <2>8
<1> HIDE DEF t, Leave, Probe, left, marked, dated, probed
<1>5. /\ without \in [Route -> RouteStates]
      /\ without[f.active].failed = f.routes[f.active].failed
      /\ Retriable(without[r])
  BY <1>1, <1>3 DEF Eligible, Retriable
<1>6. /\ routes \in [Route -> RouteStates] /\ Retriable(routes[r])
      /\ routes[f.active].failed = f.routes[f.active].failed
  BY <1>1, <1>3, <1>5
<1> HIDE DEF without, routes
<1>8. /\ Append(f.switches, 0) \in Seq(AgesKept) /\ Falling(Append(f.switches, 0))
      /\ Len(Append(f.switches, 0)) <= MaxSwitches
  <2>1. Append(f.switches, 0) \in Seq(AgesKept) /\ Falling(Append(f.switches, 0))
    BY <1>1, RecentOfRecent
  <2>2. Len(Append(f.switches, 0)) = Len(f.switches) + 1 /\ Len(f.switches) \in Nat
    BY <1>1, LenProperties, AppendProperties, Delays DEF AgesKept
  <2> QED BY <2>1, <2>2, Delays
<1> DEFINE h == Append(f.switches, 0)
<1> HIDE DEF h
<1>9. t \in States
  <2>1. h \in Seq(AgesKept) /\ Len(h) <= MaxSwitches
    BY <1>8 DEF h
  <2>2. [lifecycle |-> "running", active |-> r, routes |-> routes, switches |-> h,
         opened |-> f.opened] \in States
    BY <1>1, <1>6, <2>1, IsState
  <2> QED BY <1>4, <2>2 DEF h
<1>10. Sound(t)
  BY <1>4, <1>6, <1>8, <1>9 DEF Sound, Active
<1> QED BY <1>4, <1>6, <1>10 DEF t

LEMMA Never0 == 0 # Never /\ \A s \in States : LeftBefore(s, 0)
<1>1. ASSUME NEW s \in States, NEW r \in Route, s.routes[r].left # Never
      PROVE  s.routes[r].left >= 0
  <2>1. s.routes[r].left \in Ages(Cooldown)
    BY StateFields, RouteFields
  <2> QED BY <1>1, <2>1, Delays DEF Ages, Never
<1> QED BY <1>1 DEF LeftBefore, Never

\* What a failure leads to.  A launch of it leaves the failure of the old route dated.
LEMMA FailureSound ==
    ASSUME NEW s, Sound(s), s.lifecycle = "running", NEW class \in Classes
    PROVE  LET t == AttemptFailed(s, class)
           IN  /\ Sound(t.state) /\ Cooled(s, t.state)
               /\ Remains(s, t.state) \/ SwitchesTo(s, t.state)
               /\ t.effect = "launch" => t.state.routes[s.active].failed = 0
<1> DEFINE f == Failed(s, class)
           t == AttemptFailed(s, class)
<1>1. /\ f \in States /\ f.lifecycle = "running" /\ f.active = s.active
      /\ f.switches = Recent(s.switches) /\ f.routes[s.active].failed = 0
      /\ \A r \in Route : f.routes[r].left = s.routes[r].left
      /\ RetriesRoute(f, class) => Retriable(f.routes[s.active])
  BY FailedSound DEF Active
<1>2. /\ s \in States /\ s.active \in Route /\ Falling(s.switches)
      /\ s.switches \in Seq(AgesKept)
  BY StateFields DEF Sound
<1>3. Falling(f.switches) /\ Recent(f.switches) = f.switches
      /\ Recent(Append(f.switches, 0)) = Append(f.switches, 0)
  BY <1>1, <1>2, RecentOfRecent
<1>4. /\ f = [lifecycle |-> f.lifecycle, active |-> f.active, routes |-> f.routes,
              switches |-> f.switches, opened |-> f.opened]
      /\ f.routes \in [Route -> RouteStates] /\ f.switches \in Seq(AgesKept)
      /\ Len(f.switches) <= MaxSwitches /\ f.opened \in Ages(Cooldown)
      /\ f.active \in Route \cup {NoRoute}
  BY <1>1, StateFields
<1>5. \/ RetriesRoute(f, class) /\ t = Transition(Launched(f, f.active), "launch")
      \/ /\ ~RetriesRoute(f, class) /\ SwitchesRoute(f, class)
         /\ t = Transition(Switched(f, NextRoute(f)), "launch")
      \/ t = Transition(Tripped(f), "circuit-open")
      \/ t = Transition([f EXCEPT !.lifecycle = "needs-attention"], "attention")
  BY DEF AttemptFailed
<1> SUFFICES /\ Sound(t.state) /\ Cooled(s, t.state)
             /\ Remains(s, t.state) \/ SwitchesTo(s, t.state)
             /\ t.effect = "launch" => t.state.routes[s.active].failed = 0
  OBVIOUS
<1> HIDE DEF f, t
<1>6. ASSUME NEW state, NEW effect, t = Transition(state, effect)
      PROVE  t.state = state /\ t.effect = effect
  BY <1>6 DEF Transition
<1>7. CASE RetriesRoute(f, class) /\ t = Transition(Launched(f, f.active), "launch")
  <2> DEFINE u == Launched(f, f.active)
  <2>1. t.state = u
    BY <1>6, <1>7
  <2>2. /\ Sound(u) /\ u.active = s.active /\ u.switches = f.switches
        /\ u.routes[s.active].failed = 0
    BY <1>1, <1>2, <1>3, <1>7, LaunchedSound
  <2> HIDE DEF u
  <2>3. Remains(s, u) /\ Cooled(s, u)
    BY <1>1, <1>3, <2>2 DEF Remains, Cooled
  <2> QED BY <2>1, <2>2, <2>3
<1>8. CASE /\ ~RetriesRoute(f, class) /\ SwitchesRoute(f, class)
           /\ t = Transition(Switched(f, NextRoute(f)), "launch")
  <2> DEFINE r == NextRoute(f)
             u == Switched(f, r)
  <2>1. t.state = u
    BY <1>6, <1>8
  <2>2. Len(f.switches) < MaxSwitches /\ Offsets(f) # {}
    BY <1>8 DEF SwitchesRoute
  <2>3. r \in Route /\ Eligible(f, r)
    BY <1>1, <1>2, <2>2, NextRouteIsEligible
  <2> HIDE DEF r
  <2>4. /\ Sound(u) /\ u.active = r /\ u.switches = Append(f.switches, 0)
        /\ u.routes[s.active].failed = 0
    BY <1>1, <1>2, <1>3, <2>2, <2>3, SwitchedSound
  <2> HIDE DEF u
  <2>5. SwitchesTo(s, u)
    BY <1>1, <1>2, <1>3, <2>2, <2>3, <2>4 DEF SwitchesTo
  <2>6. Cooled(s, u)
    BY <1>1, <2>3, <2>4 DEF Cooled, Eligible
  <2> QED BY <2>1, <2>4, <2>5, <2>6
<1>9. CASE t = Transition(Tripped(f), "circuit-open")
  <2> DEFINE u == Tripped(f)
  <2>1. t.state = u /\ t.effect # "launch"
    BY <1>6, <1>9
  <2>2. u = [lifecycle |-> "circuit-open", active |-> s.active, routes |-> f.routes,
             switches |-> f.switches, opened |-> 0]
    <3> DEFINE open == [f EXCEPT !.lifecycle = "circuit-open"]
    <3>1. u = [open EXCEPT !.opened = 0]
      BY DEF Tripped
    <3>2. open = [lifecycle |-> "circuit-open", active |-> f.active, routes |-> f.routes,
                  switches |-> f.switches, opened |-> f.opened]
      BY <1>4
    <3> HIDE DEF open, u
    <3> QED BY <1>1, <3>1, <3>2
  <2>3. 0 \in Ages(Cooldown)
    BY Delays, AgesGrow
  <2> HIDE DEF u
  <2>4. u \in States
    BY <1>2, <1>4, <2>2, <2>3, IsState
  <2>5. Sound(u)
    BY <1>2, <1>3, <2>2, <2>4, Never0 DEF Sound
  <2>6. Remains(s, u) /\ Cooled(s, u)
    BY <1>1, <1>3, <2>2 DEF Remains, Cooled
  <2> QED BY <2>1, <2>5, <2>6
<1>10. CASE t = Transition([f EXCEPT !.lifecycle = "needs-attention"], "attention")
  <2> DEFINE u == [f EXCEPT !.lifecycle = "needs-attention"]
  <2>1. t.state = u /\ t.effect # "launch"
    BY <1>6, <1>10
  <2>2. u = [lifecycle |-> "needs-attention", active |-> s.active, routes |-> f.routes,
             switches |-> f.switches, opened |-> f.opened]
    BY <1>1, <1>4
  <2> HIDE DEF u
  <2>3. u \in States
    BY <1>2, <1>4, <2>2, IsState
  <2>4. Active(u).failed = 0
    BY <1>1, <2>2 DEF Active
  <2>5. Sound(u)
    BY <1>2, <1>3, <2>2, <2>3, <2>4, Never0 DEF Sound
  <2>6. Remains(s, u) /\ Cooled(s, u)
    BY <1>1, <1>3, <2>2 DEF Remains, Cooled
  <2> QED BY <2>1, <2>5, <2>6
<1> QED BY <1>5, <1>7, <1>8, <1>9, <1>10

\* A launch that is given up leaves the route that failed, and the switch it counted.
LEMMA GivenUpSound ==
    ASSUME Sound(route), Running, NEW t, Sound(t), t.active \in Route,
           Remains(route, t) \/ SwitchesTo(route, t), t.routes[route.active].failed = 0
    PROVE  /\ Sound(GivenUp(t)) /\ Cooled(route, GivenUp(t))
           /\ Remains(route, GivenUp(t)) \/ SwitchesTo(route, GivenUp(t))
<1> DEFINE a == route.active
           u == GivenUp(t)
           q == [t.routes[a] EXCEPT !.status = "failed"]
           routes == [t.routes EXCEPT ![a] = q]
<1>1. /\ t = [lifecycle |-> t.lifecycle, active |-> t.active, routes |-> t.routes,
              switches |-> t.switches, opened |-> t.opened]
      /\ t.routes \in [Route -> RouteStates] /\ t.switches \in Seq(AgesKept)
      /\ Len(t.switches) <= MaxSwitches /\ t.opened \in Ages(Cooldown)
      /\ Falling(t.switches) /\ a \in Route
  BY StateFields DEF Sound, Running
<1>2. q \in RouteStates /\ q.failed = 0
  <2>1. t.routes[a] \in RouteStates
    BY <1>1
  <2> QED BY <2>1 DEF RouteStates
<1> HIDE DEF q
<1>3. routes \in [Route -> RouteStates] /\ routes[a] = q
  BY <1>1, <1>2
<1>4. u = [lifecycle |-> "needs-attention", active |-> a, routes |-> routes,
           switches |-> t.switches, opened |-> t.opened]
  <2> DEFINE halted == [t EXCEPT !.lifecycle = "needs-attention"]
             back == [halted EXCEPT !.active = a]
  <2>1. u = [back EXCEPT !.routes = [back.routes EXCEPT ![a] =
               [back.routes[a] EXCEPT !.status = "failed"]]]
    BY DEF GivenUp
  <2>2. halted = [lifecycle |-> "needs-attention", active |-> t.active, routes |-> t.routes,
                  switches |-> t.switches, opened |-> t.opened]
    BY <1>1
  <2> HIDE DEF halted
  <2>3. back = [lifecycle |-> "needs-attention", active |-> a, routes |-> t.routes,
                switches |-> t.switches, opened |-> t.opened]
    BY <2>2
  <2> HIDE DEF back, u
  <2> QED BY <2>1, <2>3 DEF q
<1> HIDE DEF u, routes
<1>5. u \in States
  BY <1>1, <1>3, <1>4, IsState
<1>6. Active(u).failed = 0
  BY <1>2, <1>3, <1>4 DEF Active
<1>7. Sound(u)
  BY <1>1, <1>4, <1>5, <1>6, Never0 DEF Sound
<1>8. Cooled(route, u)
  BY <1>4 DEF Cooled
<1>9. Remains(route, u) \/ SwitchesTo(route, u)
  BY <1>1, <1>4 DEF Remains, SwitchesTo
<1> QED BY <1>7, <1>8, <1>9 DEF u

\* A recovery starts with the first route; unless the network changed, that one was left
\* before the failure or the opening of the circuit whose cooldown has passed.
LEMMA RecoverSound ==
    ASSUME NEW s, Sound(s), NEW networkChanged \in BOOLEAN,
           Recover(s, networkChanged).effect = "launch"
    PROVE  LET t == Recover(s, networkChanged).state
           IN  /\ Sound(t)
               /\ Remains(s, t) \/ SwitchesTo(s, t)
               /\ ~networkChanged => Cooled(s, t)
<1> DEFINE t == Recover(s, networkChanged)
           fresh == [Fresh EXCEPT !.switches = CarriedSwitches(s)]
<1>1. /\ s \in States /\ s.switches \in Seq(AgesKept) /\ Falling(s.switches)
      /\ s.lifecycle # "stopped" => s.active \in Route
      /\ s.routes \in [Route -> RouteStates] /\ Len(s.switches) <= MaxSwitches
  BY StateFields DEF Sound
<1>2. \/ RebuildsReady(s, networkChanged) /\ t = Transition(Launched(s, s.active), "launch")
      \/ Recovers(s, networkChanged) /\ t = Transition(Launched(fresh, First), "launch")
      \/ t = Transition(s, "ignored")
  BY DEF Recover
<1> SUFFICES /\ Sound(t.state)
             /\ Remains(s, t.state) \/ SwitchesTo(s, t.state)
             /\ ~networkChanged => Cooled(s, t.state)
  OBVIOUS
<1> HIDE DEF t
<1>3. ASSUME NEW state, NEW effect, t = Transition(state, effect)
      PROVE  t.state = state /\ t.effect = effect
  BY <1>3 DEF Transition
<1>4. t.effect = "launch"
  BY DEF t
<1>5. CASE RebuildsReady(s, networkChanged) /\ t = Transition(Launched(s, s.active), "launch")
  <2> DEFINE u == Launched(s, s.active)
  <2>1. t.state = u /\ s.lifecycle = "running" /\ networkChanged
    BY <1>3, <1>5 DEF RebuildsReady
  <2>2. Retriable(s.routes[s.active]) /\ s.active \in Route
    BY <1>1, <2>1 DEF Sound, Active
  <2>3. Sound(u) /\ u.active = s.active /\ u.switches = s.switches
    BY <1>1, <2>2, LaunchedSound
  <2> HIDE DEF u
  <2> QED BY <2>1, <2>3 DEF Remains
<1>6. CASE Recovers(s, networkChanged) /\ t = Transition(Launched(fresh, First), "launch")
  <2> DEFINE u == Launched(fresh, First)
             recent == Recent(s.switches)
             carried == CarriedSwitches(s)
  <2>1. t.state = u
    BY <1>3, <1>6
  <2>2. /\ s.lifecycle \in {"needs-attention", "circuit-open"} /\ s.active \in Route
        /\ Len(recent) < MaxSwitches
    BY <1>1, <1>6 DEF Recovers
  <2>3. /\ recent \in Seq(AgesKept) /\ Falling(recent) /\ Recent(recent) = recent
        /\ Append(recent, 0) \in Seq(AgesKept) /\ Falling(Append(recent, 0))
        /\ Recent(Append(recent, 0)) = Append(recent, 0)
    BY <1>1, RecentOfRecent
  <2>4. Len(recent) \in Nat /\ Len(Append(recent, 0)) = Len(recent) + 1
    BY <2>3, LenProperties, AppendProperties, Delays DEF AgesKept
  <2> HIDE DEF recent
  <2>5. carried = IF s.active = First THEN recent ELSE Append(recent, 0)
    BY DEF CarriedSwitches, recent
  <2> HIDE DEF carried
  <2>6. /\ carried \in Seq(AgesKept) /\ Falling(carried) /\ Recent(carried) = carried
        /\ Len(carried) <= MaxSwitches
    <3>1. CASE s.active = First
      BY <2>2, <2>3, <2>4, <2>5, <3>1, Delays
    <3>2. CASE s.active # First
      <4>1. carried = Append(recent, 0)
        BY <2>5, <3>2
      <4>2. Len(carried) <= MaxSwitches
        BY <2>2, <2>4, <4>1, Delays
      <4> QED BY <2>3, <4>1, <4>2
    <3> QED BY <3>1, <3>2
  <2>7. fresh = [lifecycle |-> Fresh.lifecycle, active |-> Fresh.active, routes |-> Fresh.routes,
                 switches |-> carried, opened |-> Fresh.opened]
    BY DEF Fresh, carried
  <2>8. Fresh \in States
    BY FreshSound DEF Sound
  <2>9. /\ Fresh.lifecycle \in {"stopped", "running", "needs-attention", "circuit-open"}
        /\ Fresh.active \in Route \cup {NoRoute} /\ Fresh.routes \in [Route -> RouteStates]
        /\ Fresh.opened \in Ages(Cooldown)
    BY <2>8, StateFields
  <2>10. Retriable(Fresh.routes[First])
    BY FirstIsRoute, Delays DEF Fresh, Retriable, EmptyRoute
  <2> HIDE DEF fresh
  <2>11. fresh \in States /\ fresh.switches = carried /\ Retriable(fresh.routes[First])
    BY <2>6, <2>7, <2>9, <2>10, IsState
  <2>12. Sound(u) /\ u.active = First /\ u.switches = carried
    BY <2>6, <2>11, FirstIsRoute, LaunchedSound
  <2> HIDE DEF u
  <2>13. Remains(s, u) \/ SwitchesTo(s, u)
    BY <2>2, <2>3, <2>5, <2>6, <2>12, FirstIsRoute DEF Remains, SwitchesTo, recent
  <2>14. ASSUME ~networkChanged PROVE Cooled(s, u)
    <3> SUFFICES ASSUME s.routes[First].left # Never
                 PROVE  s.routes[First].left = Cooldown
      BY <2>12 DEF Cooled
    <3>1. s.routes[First].left \in Ages(Cooldown) /\ Active(s).failed \in Ages(Cooldown)
          /\ s.opened \in Ages(Cooldown)
      BY <1>1, <2>2, FirstIsRoute, StateFields, RouteFields DEF Active
    <3>2. \/ LeftBefore(s, Active(s).failed) /\ Active(s).failed >= Cooldown
          \/ LeftBefore(s, s.opened) /\ s.opened >= Cooldown
      BY <1>6, <2>14 DEF Recovers, Sound
    <3> QED BY <3>1, <3>2, FirstIsRoute, Delays DEF LeftBefore, Ages, Never
  <2> QED BY <2>1, <2>12, <2>13, <2>14
<1>7. CASE t = Transition(s, "ignored")
  BY <1>3, <1>4, <1>7
<1> QED BY <1>2, <1>5, <1>6, <1>7

-----------------------------------------------------------------------------
(* The coordinator: what each of its steps makes of the policy.            *)

Ordered ==
    queue # <<>> /\ (Head(queue).kind \in {"start", "stop"} \/ Head(queue) = Op("disable", TRUE))

\* An order starts the policy afresh, time ages it, and any other step that changes it is a
\* transition of the policy.
PolicyStep ==
    \/ route' = route
    \/ Ordered /\ route' = Fresh
    \/ Ordered /\ Head(queue).kind = "start" /\ route' = Started.state
    \/ route' = Aged(route)
    \/ /\ Sound(route')
       /\ Remains(route, route') \/ SwitchesTo(route, route')
       /\ Head(queue) = Op("refresh", TRUE) \/ Cooled(route, route')

EvidenceType == evidence \in Failures \cup {"none", "connector"}

PolicyInv == Sound(route) /\ EvidenceType

LEMMA EvaluationMoves == PolicyInv /\ EvaluateFailure => PolicyStep
<1> SUFFICES ASSUME PolicyInv, EvaluateFailure PROVE PolicyStep
  OBVIOUS
<1> DEFINE class == IF evidence = "none" THEN "connector" ELSE evidence
           t == AttemptFailed(route, class)
<1>1. Sound(route) /\ route.lifecycle = "running" /\ Running
  BY DEF PolicyInv, EvaluateFailure, Running
<1>2. class \in Classes
  BY RoutingAssumption DEF PolicyInv, EvidenceType, Classes
<1>3. route' = t.state \/ (t.effect = "launch" /\ route' = GivenUp(t.state))
  BY DEF EvaluateFailure
<1> HIDE DEF class
<1>4. /\ Sound(t.state) /\ Cooled(route, t.state)
      /\ Remains(route, t.state) \/ SwitchesTo(route, t.state)
      /\ t.effect = "launch" => t.state.routes[route.active].failed = 0
  BY <1>1, <1>2, FailureSound
<1> HIDE DEF t
<1>5. CASE route' = t.state
  BY <1>4, <1>5 DEF PolicyStep
<1>6. CASE t.effect = "launch" /\ route' = GivenUp(t.state)
  <2>1. t.state.active \in Route
    BY <1>1, <1>4 DEF Remains, SwitchesTo, Sound
  <2>2. /\ Sound(GivenUp(t.state)) /\ Cooled(route, GivenUp(t.state))
        /\ Remains(route, GivenUp(t.state)) \/ SwitchesTo(route, GivenUp(t.state))
    BY <1>1, <1>4, <1>6, <2>1, GivenUpSound
  <2> QED BY <1>6, <2>2 DEF PolicyStep
<1> QED BY <1>3, <1>5, <1>6

LEMMA RefreshMoves ==
    ASSUME PolicyInv, NEW networkChanged \in BOOLEAN, RunRefresh(networkChanged)
    PROVE  PolicyStep
<1>1. Sound(route) /\ Head(queue) = Op("refresh", networkChanged)
  BY DEF PolicyInv, RunRefresh, Runs
<1>2. \/ route' = route
      \/ /\ Recover(route, networkChanged).effect = "launch"
         /\ route' = Recover(route, networkChanged).state
  BY DEF RunRefresh
<1>3. CASE route' = route
  BY <1>3 DEF PolicyStep
<1>4. CASE /\ Recover(route, networkChanged).effect = "launch"
           /\ route' = Recover(route, networkChanged).state
  <2>1. /\ Sound(route')
        /\ Remains(route, route') \/ SwitchesTo(route, route')
        /\ ~networkChanged => Cooled(route, route')
    BY <1>1, <1>4, RecoverSound
  <2>2. CASE networkChanged = TRUE
    BY <1>1, <2>1, <2>2 DEF PolicyStep
  <2>3. CASE networkChanged = FALSE
    BY <2>1, <2>3 DEF PolicyStep
  <2> QED BY <2>2, <2>3
<1> QED BY <1>2, <1>3, <1>4

LEMMA StepMoves == PolicyInv /\ [Next]_vars => PolicyStep
<1> SUFFICES ASSUME PolicyInv, [Next]_vars PROVE PolicyStep
  OBVIOUS
<1>1. ASSUME NEW automatic \in BOOLEAN, RunStart(automatic)
      PROVE  PolicyStep
  <2>1. route' = route \/ route' = Started.state
    BY <1>1 DEF RunStart
  <2>2. queue # <<>> /\ Head(queue).kind = "start"
    BY <1>1, OperationType DEF RunStart, Runs
  <2> QED BY <2>1, <2>2 DEF PolicyStep, Ordered
<1>2. CASE RunStop
  <2>1. queue # <<>> /\ Head(queue).kind = "stop"
    BY <1>2, OperationType DEF RunStop, Runs
  <2> QED BY <1>2, <2>1 DEF RunStop, StopRouting, Ordered, PolicyStep
<1>3. ASSUME NEW cancels \in BOOLEAN, NEW starts \in BOOLEAN, RunDisable(cancels, starts)
      PROVE  PolicyStep
  <2>1. CASE cancels = TRUE
    <3>1. Ordered
      BY <1>3, <2>1 DEF RunDisable, Runs, Ordered
    <3>2. route' = Fresh
      BY <1>3, <2>1 DEF RunDisable, StopRouting
    <3> QED BY <3>1, <3>2 DEF PolicyStep
  <2>2. CASE cancels = FALSE
    BY <1>3, <2>2 DEF RunDisable, PolicyStep
  <2> QED BY <2>1, <2>2
<1>4. CASE EvaluateReady
  <2>1. CASE Running
    <3>1. route' = AttemptReady(route)
      BY <1>4, <2>1 DEF EvaluateReady
    <3>2. /\ Sound(route') /\ route'.active = route.active
          /\ route'.switches = route.switches
      BY <2>1, <3>1, ReadySound DEF PolicyInv, Running
    <3>3. Remains(route, route') /\ Cooled(route, route')
      BY <3>2 DEF Remains, Cooled
    <3> QED BY <3>2, <3>3 DEF PolicyStep
  <2>2. CASE ~Running
    BY <1>4, <2>2 DEF EvaluateReady, PolicyStep
  <2> QED BY <2>1, <2>2
<1>5. CASE Tick
  BY <1>5 DEF Tick, PolicyStep
<1>6. CASE \/ Requested \/ TimerFires \/ TunnelStep \/ EvaluateNothing
           \/ \E starts \in BOOLEAN : RunEnable(starts)
           \/ RetireReturns \/ AttemptBegins \/ StartReturns
           \/ \E current \in BOOLEAN : RunLaunch(current)
           \/ UNCHANGED vars
  <2>1. route' = route
    BY <1>6 DEF Requested, RequestStart, RequestStop, RequestRefresh, EnableReconnect,
          DisableReconnect, TimerFires, TunnelStep, TunnelReady, ConnectorExits, TunnelFails,
          Reports, RunEnable, EvaluateNothing, RetireReturns, AttemptBegins, StartReturns,
          RunLaunch, vars
  <2> QED BY <2>1 DEF PolicyStep
<1> QED BY <1>1, <1>2, <1>3, <1>4, <1>5, <1>6, EvaluationMoves, RefreshMoves DEF Next, RunStep

\* The steps that touch what the diagnostics hold.
LEMMA EvidenceKeeps == EvidenceType /\ [Next]_vars => EvidenceType'
<1> SUFFICES ASSUME EvidenceType, [Next]_vars PROVE EvidenceType'
  OBVIOUS
<1> USE DEF EvidenceType
<1>1. CASE TunnelStep
  BY <1>1 DEF TunnelStep, TunnelReady, ConnectorExits, TunnelFails
<1>2. CASE RunStep
  <2>1. evidence' \in {evidence, "none"}
    BY <1>2 DEF RunStep, RunStart, RunStop, RunEnable, RunDisable, RunRefresh, RunLaunch,
          EvaluateNothing, EvaluateReady, EvaluateFailure, Retire, StopRouting, Launch, Down,
          tunnel
  <2> QED BY <2>1
<1>3. CASE \/ Requested \/ TimerFires \/ RetireReturns \/ AttemptBegins \/ StartReturns \/ Tick
           \/ UNCHANGED vars
  <2>1. evidence' \in {evidence, "none"}
    BY <1>3 DEF Requested, RequestStart, RequestStop, RequestRefresh, EnableReconnect,
          DisableReconnect, TimerFires, RetireReturns, Down, AttemptBegins, StartReturns, Tick,
          vars, tunnel
  <2> QED BY <2>1
<1> QED BY <1>1, <1>2, <1>3 DEF Next

LEMMA PolicyKeeps == PolicyInv /\ PolicyStep => Sound(route')
<1> SUFFICES ASSUME PolicyInv, PolicyStep PROVE Sound(route')
  OBVIOUS
<1>1. Sound(route)
  BY DEF PolicyInv
<1> QED BY <1>1, FreshSound, StartedSound, AgedSound DEF PolicyStep

\* The policy is sound, whatever the operations, the timers and the connectors do.
THEOREM PolicyIsSound == Spec => []PolicyInv
<1>1. Init => PolicyInv
  BY FreshSound DEF Init, PolicyInv, EvidenceType
<1>2. PolicyInv /\ [Next]_vars => PolicyInv'
  BY StepMoves, EvidenceKeeps, PolicyKeeps DEF PolicyInv
<1> QED BY <1>1, <1>2, PTL DEF Spec

\* A route that a failover left is not taken again before its cooldown has passed, unless
\* the operator or a change of the network asks for it.
THEOREM CooldownsAreKept == Spec => CooldownIsKept
<1> DEFINE Kept == \A r \in Route \ {route.active} :
                      /\ route.active # NoRoute /\ route'.active = r
                      /\ route.routes[r].left \notin {Never, Cooldown}
                      => Head(queue).kind = "start" \/ Head(queue) = Op("refresh", TRUE)
<1>1. PolicyInv /\ PolicyStep => Kept
  <2> SUFFICES ASSUME PolicyInv, PolicyStep,
                      NEW r \in Route \ {route.active}, route'.active = r,
                      route.routes[r].left \notin {Never, Cooldown}
               PROVE  Head(queue).kind = "start" \/ Head(queue) = Op("refresh", TRUE)
    OBVIOUS
  <2>1. Fresh.active \notin Route
    BY RouteAssumption DEF Fresh
  <2>2. Aged(route).active = route.active
    BY AgedSound DEF PolicyInv
  <2> QED BY <2>1, <2>2 DEF PolicyStep, Cooled
<1>2. PolicyInv /\ [Next]_vars => [Kept]_vars
  BY <1>1, StepMoves
<1> QED BY <1>2, PolicyIsSound, PTL DEF Spec, CooldownIsKept

\* The coordinator implements RouteSwitching: in any window the route changes by itself at
\* most MaxSwitches times, and only an operation of the operator starts the count again.
THEOREM SwitchBudgetKept == Spec => SwitchBudgetIsKept
<1>0. <<>> \in Seq(AgesKept) /\ Falling(<<>>) /\ Recent(<<>>) = <<>>
  <2>1. <<>> \in Seq(AgesKept) /\ Falling(<<>>) /\ Len(<<>>) = 0
    BY EmptySeq DEF Falling
  <2>2. Recent(<<>>) \in Seq(AgesKept) /\ Len(Recent(<<>>)) <= 0
    BY <2>1, RecentOfRecent
  <2>3. Len(Recent(<<>>)) \in Nat
    BY <2>2, LenProperties
  <2> QED BY <2>1, <2>2, <2>3, EmptySeq
<1>1. Init => Switching!Init
  BY <1>0 DEF Init, Fresh, Switching!Init
<1>2. PolicyInv /\ PolicyStep => Switching!Next
  <2> SUFFICES ASSUME PolicyInv, PolicyStep PROVE Switching!Next
    OBVIOUS
  <2>1. Switching!Obey \/ Switching!Switch \/ Switching!Pass \/ Switching!Stay => Switching!Next
    BY DEF Switching!Next
  <2>2. CASE route' = route
    BY <2>1, <2>2 DEF Switching!Stay
  <2>3. CASE Ordered /\ (route' = Fresh \/ route' = Started.state)
    <3>1. route'.active \in Route \cup {NoRoute} /\ route'.switches = <<>>
      BY <2>3, StartedSound, FirstIsRoute DEF Fresh
    <3>2. Recent(route'.switches) = <<>>
      BY <1>0, <3>1
    <3>3. Switching!Obey
      BY <2>3, <3>1, <3>2 DEF Switching!Obey, Ordered
    <3> QED BY <2>1, <3>3
  <2>4. CASE route' = Aged(route)
    <3>1. /\ route'.active = route.active
          /\ route'.switches = OlderHistory(route.switches)
      BY <2>4, AgedSound DEF PolicyInv
    <3>2. route.switches \in Seq(AgesKept) /\ Falling(route.switches)
      BY StateFields DEF PolicyInv, Sound
    <3>3. Switching!Pass
      BY <3>1, <3>2, RecentAges DEF Switching!Pass
    <3> QED BY <2>1, <3>3
  <2>5. CASE Remains(route, route')
    <3>1. Switching!Stay
      BY <2>5 DEF Remains, Switching!Stay
    <3> QED BY <2>1, <3>1
  <2>6. CASE SwitchesTo(route, route')
    <3>1. Switching!Switch
      BY <2>6, RouteAssumption DEF SwitchesTo, Switching!Switch
    <3> QED BY <2>1, <3>1
  <2> QED BY <2>2, <2>3, <2>4, <2>5, <2>6 DEF PolicyStep
<1>3. PolicyInv /\ [Next]_vars => Switching!Next
  BY <1>2, StepMoves
<1> QED BY <1>1, <1>3, PolicyIsSound, PTL DEF Spec, SwitchBudgetIsKept, Switching!Spec

\* The flags of the coordinator, and what the tunnel tells it.
Flags ==
    /\ desired \in BOOLEAN /\ auto \in BOOLEAN /\ await \in Awaits
    /\ phase \in {"down", "starting", "ready", "exited"}
    /\ handled \in BOOLEAN /\ seen \in BOOLEAN /\ threw \in BOOLEAN /\ asked \in {"start", "stop"}

LEMMA FlagsKeep == Flags /\ [Next]_vars => Flags'
<1> SUFFICES ASSUME Flags, [Next]_vars PROVE Flags'
  OBVIOUS
<1> USE DEF Flags, Awaits
<1>1. CASE Requested
  BY <1>1 DEF Requested, RequestStart, RequestStop, RequestRefresh, EnableReconnect,
        DisableReconnect, tunnel
<1>2. CASE TimerFires \/ Tick \/ UNCHANGED vars
  BY <1>2 DEF TimerFires, Tick, vars, tunnel
<1>3. CASE TunnelStep
  BY <1>3 DEF TunnelStep, TunnelReady, ConnectorExits, TunnelFails, Reports
<1>4. CASE RetireReturns \/ AttemptBegins \/ StartReturns
  BY <1>4 DEF RetireReturns, AttemptBegins, StartReturns, Down, tunnel
<1>5. ASSUME NEW automatic \in BOOLEAN, RunStart(automatic)
      PROVE  Flags'
  BY <1>5 DEF RunStart, Launch, Retire, Down, tunnel
<1>6. CASE RunStop
  BY <1>6 DEF RunStop, StopRouting, Retire, tunnel
<1>10. ASSUME NEW starts \in BOOLEAN, RunEnable(starts)
       PROVE  Flags'
  BY <1>10 DEF RunEnable, Restarts, tunnel
<1>11. ASSUME NEW cancels \in BOOLEAN, NEW starts \in BOOLEAN, RunDisable(cancels, starts)
       PROVE  Flags'
  <2>1. desired' \in {desired, FALSE} /\ await' \in {await, "retire, rest"} /\ UNCHANGED tunnel
    BY <1>11 DEF RunDisable, StopRouting, Retire
  <2>2. auto' = FALSE /\ asked' \in {"start", "stop"}
    BY <1>11 DEF RunDisable, Restarts
  <2> QED BY <2>1, <2>2 DEF tunnel
<1>7. ASSUME NEW networkChanged \in BOOLEAN, RunRefresh(networkChanged)
      PROVE  Flags'
  <2>1. UNCHANGED <<desired, auto, tunnel, asked>> /\ await' \in {await, "retire, launch"}
    BY <1>7 DEF RunRefresh, Retire
  <2> QED BY <2>1 DEF tunnel
<1>9. ASSUME NEW current \in BOOLEAN, RunLaunch(current)
      PROVE  Flags'
  BY <1>9 DEF RunLaunch, Launch, Down, tunnel
<1>8. CASE EvaluateNothing \/ EvaluateReady \/ EvaluateFailure
  BY <1>8 DEF EvaluateNothing, SeesFailure, EvaluateReady, EvaluateFailure, Retire, tunnel
<1> QED BY <1>1, <1>2, <1>3, <1>4, <1>5, <1>6, <1>7, <1>8, <1>9, <1>10, <1>11
  DEF Next, RunStep

\* Every variable keeps its type.
THEOREM TypeCorrect == Spec => []TypeOK
<1>1. Init => Flags
  BY DEF Init, Flags, Awaits
<1>2. IInv /\ PolicyInv /\ Flags => TypeOK
  BY DEF IInv, Shape, PolicyInv, Sound, EvidenceType, Flags, TypeOK
<1> QED BY <1>1, <1>2, FlagsKeep, Invariance, PolicyIsSound, PTL DEF Spec
=============================================================================
