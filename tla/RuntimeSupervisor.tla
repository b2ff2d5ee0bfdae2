--------------------------- MODULE RuntimeSupervisor ---------------------------
(***************************************************************************)
(* The persistent supervisor of the Runtime slots, packages/update-core/src*)
(*                                                                         *)
(*   - the state machine of a transition from one Runtime to another and   *)
(*     the planner of its recovery (runtime-supervisor-state.ts);          *)
(*   - the ledger, to which a state is appended by compare-and-swap        *)
(*     (runtime-supervisor-store.ts);                                      *)
(*   - the coordinator that carries a plan out (runtime-supervisor.ts);    *)
(*   - the registry of the desktop's own sessions, which are rebound to the*)
(*     Runtime that is published (managed-session-registry.ts).            *)
(*                                                                         *)
(* Two activities interleave, each of which may end at any time: a         *)
(* recovery, and the driver of a transition.  The driver, the processes of *)
(* the Runtimes and the publication are not in the repository: what they do*)
(* is what the state machine and the fences of the action port expect.  An *)
(* action of the port is refused when its fence does not hold; otherwise it*)
(* is done, or fails, and one that fails may have been done all the same.  *)
(*                                                                         *)
(* Only the last entry of the ledger counts.  The expected revision and    *)
(* digest of an append, and the expected revision of a publication, are the*)
(* flags headFresh and pubFresh: that of everyone else is cleared by each  *)
(* append or publication.  An instance is the Runtime of a release of its  *)
(* own.  Timestamps, reports and the aggregate counts are left out.        *)
(***************************************************************************)
EXTENDS Naturals, Sequences

CONSTANTS
    Instances,      \* the instances that a Runtime can be
    First,          \* the one with which the ledger is initialized
    None,           \* the instance of a null identity
    Sessions,       \* the managed sessions
    MaxGeneration,  \* no plan and no candidate goes beyond this generation (a bound)
    MaxFaults       \* failures of Runtimes, of the port and of the process (a bound)

ASSUME InstancesAssumption == First \in Instances /\ None \notin Instances
ASSUME BoundsAssumption == MaxGeneration \in Nat \ {0} /\ MaxFaults \in Nat

VARIABLES
    head,           \* the state in the last entry of the ledger
    runtime,        \* of each instance: whether it is up, and its generation
    publication,    \* the Runtime that is published
    registered,     \* the managed sessions in the registry
    bound,          \* those whose target is the present publication
    recovery,       \* the recovery in progress
    driver,         \* the driver of a transition
    faults          \* how many failures there have been

vars == <<head, runtime, publication, registered, bound, recovery, driver, faults>>

Generation == 0 .. MaxGeneration
Identity == [inst : Instances, gen : Generation]
Nobody == [inst |-> None, gen |-> 0]
Slot == Identity \cup {Nobody}

Preparing == {"candidate-starting", "candidate-ready"}
Publishing == {"quiescing", "publishing"}
Phases == {"stable", "candidate-active", "rolling-back", "needs-attention"}
            \cup Preparing \cup Publishing

State == [phase : Phases, active : Identity, previous : Slot, candidate : Slot]

Outcomes == {"held", "restored-active", "continued-candidate", "rolled-back",
             "needs-attention"}

Action == [kind : {"hold", "stop", "resume", "publish", "rebind", "canary", "mark"},
           on : Slot, from : Generation]

Plan == [outcome : Outcomes, next : State, actions : Seq(Action)]

Process == [up : {"unborn", "staged", "down", "sick", "well"}, gen : Generation]

(***************************************************************************)
(* The planner.  obs is the inventory of the processes.                    *)
(***************************************************************************)
Alive(p) == p.up \in {"sick", "well"}

Seen(obs, id) == id.inst # None /\ Alive(obs[id.inst])
Healthy(obs, id) == id.inst # None /\ obs[id.inst].up = "well"

\* The identity that was observed, if any, else the persisted one.
Observed(obs, id) == IF Seen(obs, id) THEN [id EXCEPT !.gen = obs[id.inst].gen] ELSE id

Newest(state, obs, pub) ==
    LET known == {state.active.gen, state.previous.gen, state.candidate.gen, pub.gen}
                   \cup {obs[i].gen : i \in {j \in Instances : Alive(obs[j])}}
    IN  CHOOSE g \in known : \A h \in known : h <= g

Do(kind, id, from) == [kind |-> kind, on |-> id, from |-> from]
Hold == <<Do("hold", Nobody, 0)>>
Stop(obs, id) == IF Seen(obs, id) THEN <<Do("stop", id, 0)>> ELSE <<>>

\* The Runtime is resumed at its new generation, published, and the sessions follow it.
Restore(from, restored) ==
    <<Do("resume", restored, from.gen), Do("publish", restored, 0), Do("rebind", restored, 0)>>

Recovered(state, active, previous) ==
    [phase |-> "stable", active |-> active, previous |-> previous, candidate |-> Nobody]

Attention(state) ==
    [outcome |-> "needs-attention",
     next    |-> [state EXCEPT !.phase = "needs-attention", !.candidate = Nobody],
     actions |-> <<Do("mark", Nobody, 0)>>]

\* Mutant: the candidate or former active Runtime is stopped before another is published.
RollbackStoppingFirst(state, obs, gen) ==
    LET target == Observed(obs, state.previous)
        restored == [target EXCEPT !.gen = gen]
    IN  [outcome |-> "rolled-back",
         next    |-> Recovered(state, restored, Nobody),
         actions |-> Stop(obs, state.active) \o Restore(target, restored)]

Rollback(state, obs, gen) ==
    LET target == Observed(obs, state.previous)
        restored == [target EXCEPT !.gen = gen]
    IN  [outcome |-> "rolled-back",
         next    |-> Recovered(state, restored, Nobody),
         actions |-> Restore(target, restored) \o Stop(obs, state.active)]

Republish(state, active, previous, gen, before, after) ==
    LET restored == [active EXCEPT !.gen = gen]
    IN  [outcome |-> "restored-active",
         next    |-> Recovered(state, restored, previous),
         actions |-> before \o Restore(active, restored) \o after]

\* Mutant: the plan is made for the identity in the ledger, not for the one observed.
PlannedByLedger(state, obs, pub, gen) ==
    LET active == state.active
        previous == state.previous
    IN  CASE Healthy(obs, active) /\ pub = active ->
               [outcome |-> "held", next |-> Recovered(state, active, previous),
                actions |-> Hold]
          [] Healthy(obs, active) /\ pub # active ->
               Republish(state, active, previous, gen, <<>>, <<>>)
          [] ~Healthy(obs, active) /\ Healthy(obs, state.previous) ->
               Rollback(state, obs, gen)
          [] OTHER -> Attention(state)

PlanStable(state, obs, pub, gen) ==
    LET active == Observed(obs, state.active)
        previous == Observed(obs, state.previous)
    IN  CASE Healthy(obs, active) /\ pub = active ->
               [outcome |-> "held", next |-> Recovered(state, active, previous),
                actions |-> Hold]
          [] Healthy(obs, active) /\ pub # active ->
               Republish(state, active, previous, gen, <<>>, <<>>)
          [] ~Healthy(obs, active) /\ Healthy(obs, state.previous) ->
               Rollback(state, obs, gen)
          [] OTHER -> Attention(state)

PlanPreparing(state, obs, pub, gen) ==
    LET active == Observed(obs, state.active)
        previous == Observed(obs, state.previous)
        discard == Stop(obs, state.candidate)
    IN  CASE ~Healthy(obs, active) -> Attention(state)
          [] Healthy(obs, active) /\ pub # active ->
               Republish(state, active, previous, gen, discard, <<>>)
          [] OTHER ->
               [outcome |-> "restored-active", next |-> Recovered(state, active, previous),
                actions |-> discard \o Hold]

PlanPublishing(state, obs, pub, gen) ==
    LET active == Observed(obs, state.active)
        previous == Observed(obs, state.previous)
        candidate == Observed(obs, state.candidate)
    IN  CASE pub = candidate /\ Healthy(obs, candidate) ->
               [outcome |-> "continued-candidate",
                next    |-> [phase |-> "candidate-active", active |-> candidate,
                             previous |-> active, candidate |-> Nobody],
                actions |-> <<Do("rebind", candidate, 0), Do("canary", candidate, 0)>>]
          [] ~(pub = candidate /\ Healthy(obs, candidate)) /\ Healthy(obs, active) ->
               Republish(state, active, previous, gen, <<>>, Stop(obs, state.candidate))
          [] OTHER -> Attention(state)

PlanActive(state, obs, pub, gen) ==
    LET active == Observed(obs, state.active)
        previous == Observed(obs, state.previous)
    IN  CASE Healthy(obs, active) /\ pub = active ->
               [outcome |-> "continued-candidate",
                next    |-> [state EXCEPT !.active = active, !.previous = previous],
                actions |-> <<Do("canary", active, 0)>>]
          [] ~(Healthy(obs, active) /\ pub = active) /\ Healthy(obs, state.previous) ->
               Rollback(state, obs, gen)
          [] OTHER -> Attention(state)

PlanRollingBack(state, obs, pub, gen) ==
    LET target == Observed(obs, state.previous)
        restored == [target EXCEPT !.gen = gen]
        publish == IF pub # restored THEN Restore(target, restored) ELSE <<>>
        actions == publish \o Stop(obs, state.active)
    IN  IF Healthy(obs, state.previous)
        THEN [outcome |-> "rolled-back",
              next    |-> Recovered(state, restored, Nobody),
              actions |-> IF actions = <<>> THEN Hold ELSE actions]
        ELSE Attention(state)

PlanRecovery(state, obs, pub) ==
    LET gen == Newest(state, obs, pub) + 1
    IN  CASE state.phase = "needs-attention" ->
               [outcome |-> "needs-attention", next |-> state,
                actions |-> <<Do("mark", Nobody, 0)>>]
          [] state.phase = "stable"           -> PlanStable(state, obs, pub, gen)
          [] state.phase \in Preparing        -> PlanPreparing(state, obs, pub, gen)
          [] state.phase \in Publishing       -> PlanPublishing(state, obs, pub, gen)
          [] state.phase = "candidate-active" -> PlanActive(state, obs, pub, gen)
          [] state.phase = "rolling-back"     -> PlanRollingBack(state, obs, pub, gen)

(***************************************************************************)
(* The initial state.                                                      *)
(***************************************************************************)
FirstState == Recovered(Nobody, [inst |-> First, gen |-> 1], Nobody)

Blank == [i \in Instances |-> [up |-> "unborn", gen |-> 0]]

Idle ==
    [step |-> "idle", source |-> FirstState, sawRuntimes |-> FALSE, sawPublication |-> FALSE,
     obs |-> Blank, pub |-> Nobody, plan |-> Attention(FirstState), index |-> 1,
     headFresh |-> FALSE, pubFresh |-> FALSE]

NoDriver ==
    [driving |-> FALSE, view |-> FirstState, did |-> Nobody, rebound |-> FALSE,
     headFresh |-> FALSE, pubFresh |-> FALSE]

TypeOK ==
    /\ head \in State
    /\ runtime \in [Instances -> Process]
    /\ publication \in Identity
    /\ registered \subseteq Sessions
    /\ bound \subseteq registered
    /\ recovery \in [step : {"idle", "observing", "acting"}, source : State,
                     sawRuntimes : BOOLEAN, sawPublication : BOOLEAN,
                     obs : [Instances -> Process], pub : Slot, plan : Plan,
                     index : Nat \ {0}, headFresh : BOOLEAN, pubFresh : BOOLEAN]
    /\ driver \in [driving : BOOLEAN, view : State, did : Slot, rebound : BOOLEAN,
                   headFresh : BOOLEAN, pubFresh : BOOLEAN]
    /\ faults \in 0 .. MaxFaults

Init ==
    /\ head = FirstState
    /\ runtime = [Blank EXCEPT ![First] = [up |-> "well", gen |-> 1]]
    /\ publication = FirstState.active
    /\ registered = {} /\ bound = {}
    /\ recovery = Idle
    /\ driver = NoDriver
    /\ faults = 0

Fault == faults < MaxFaults /\ faults' = faults + 1

(***************************************************************************)
(* A recovery: recover() of the coordinator.                               *)
(***************************************************************************)
LoadHead ==
    /\ recovery.step = "idle"
    /\ recovery' = [Idle EXCEPT !.step = "observing", !.source = head, !.headFresh = TRUE]
    /\ UNCHANGED <<head, runtime, publication, registered, bound, driver, faults>>

\* The inventory holds the processes that are alive.
ObserveRuntimes ==
    /\ recovery.step = "observing" /\ ~recovery.sawRuntimes
    /\ recovery' = [recovery EXCEPT !.sawRuntimes = TRUE,
                      !.obs = [i \in Instances |->
                                 IF Alive(runtime[i]) THEN runtime[i] ELSE Blank[i]]]
    /\ UNCHANGED <<head, runtime, publication, registered, bound, driver, faults>>

ReadPublication ==
    /\ recovery.step = "observing" /\ ~recovery.sawPublication
    /\ recovery' = [recovery EXCEPT !.sawPublication = TRUE, !.pub = publication,
                      !.pubFresh = TRUE]
    /\ UNCHANGED <<head, runtime, publication, registered, bound, driver, faults>>

DecidePlan ==
    /\ recovery.step = "observing" /\ recovery.sawRuntimes /\ recovery.sawPublication
    /\ Newest(recovery.source, recovery.obs, recovery.pub) < MaxGeneration
    /\ recovery' = [recovery EXCEPT !.step = "acting", !.obs = Blank,
                      !.plan = PlanRecovery(recovery.source, recovery.obs, recovery.pub)]
    /\ UNCHANGED <<head, runtime, publication, registered, bound, driver, faults>>

Acting == recovery.step = "acting" /\ recovery.index <= Len(recovery.plan.actions)
Current == recovery.plan.actions[recovery.index]

\* Whether the port, or the coordinator itself, accepts the action.
Accepted(a) ==
    CASE a.kind = "resume"  -> Alive(runtime[a.on.inst]) /\ runtime[a.on.inst].gen = a.from
      [] a.kind = "publish" -> recovery.pubFresh
      [] a.kind = "rebind"  -> recovery.pub = a.on
      [] a.kind = "canary"  -> runtime[a.on.inst].up = "well"
      [] OTHER              -> TRUE

\* What an action changes outside the coordinator.
StopRuntime(a) ==
    /\ a.kind = "stop"
    /\ runtime' = [runtime EXCEPT ![a.on.inst].up = "down"]
    /\ UNCHANGED <<publication, bound, driver>>

ResumeRuntime(a) ==
    /\ a.kind = "resume"
    /\ runtime' = [runtime EXCEPT ![a.on.inst].gen = a.on.gen]
    /\ UNCHANGED <<publication, bound, driver>>

PublishRuntime(a) ==
    /\ a.kind = "publish"
    /\ publication' = a.on
    /\ bound' = {}
    /\ driver' = [driver EXCEPT !.pubFresh = FALSE]
    /\ UNCHANGED runtime

\* The target is the publication that the coordinator knows of.
RebindManaged(a) ==
    /\ a.kind = "rebind"
    /\ bound' = IF recovery.pubFresh THEN registered ELSE {}
    /\ UNCHANGED <<runtime, publication, driver>>

NothingOutside(a) ==
    /\ a.kind \in {"hold", "canary", "mark"}
    /\ UNCHANGED <<runtime, publication, bound, driver>>

\* Adapters that fail: the others are rolled back, and some of that may fail too.
RebindFails(a) ==
    /\ a.kind = "rebind"
    /\ bound' \in IF recovery.pubFresh THEN {b \in SUBSET registered : bound \subseteq b}
                                       ELSE SUBSET bound
    /\ UNCHANGED <<runtime, publication, driver>>

Carried(a) ==
    \/ StopRuntime(a) \/ ResumeRuntime(a) \/ PublishRuntime(a) \/ RebindManaged(a)
    \/ NothingOutside(a)

ActionSucceeds ==
    /\ Acting /\ Accepted(Current) /\ Carried(Current)
    /\ recovery' = [recovery EXCEPT !.index = @ + 1,
                      !.pub = IF Current.kind = "publish" THEN Current.on ELSE @]
    /\ UNCHANGED <<head, registered, faults>>

ActionRefused ==
    /\ Acting /\ ~Accepted(Current)
    /\ recovery' = Idle
    /\ UNCHANGED <<head, runtime, publication, registered, bound, driver, faults>>

\* It failed, or was given up, and may have been done or not.
ActionFails ==
    /\ Acting /\ Accepted(Current) /\ Fault
    /\ \/ Carried(Current)
       \/ RebindFails(Current)
       \/ UNCHANGED <<runtime, publication, bound, driver>>
    /\ recovery' = Idle
    /\ UNCHANGED <<head, registered>>

Finished == recovery.step = "acting" /\ recovery.index > Len(recovery.plan.actions)

\* Mutant: the store does not compare the revision and the digest.
AppendableToAny == recovery.source.phase # "needs-attention"

\* The store takes a state that is a new one for the head that was loaded.
Appendable == recovery.headFresh /\ recovery.source.phase # "needs-attention"

CommitRecovery ==
    /\ Finished /\ Appendable
    /\ head' = recovery.plan.next
    /\ recovery' = Idle
    /\ driver' = [driver EXCEPT !.headFresh = FALSE]
    /\ UNCHANGED <<runtime, publication, registered, bound, faults>>

RecoveryConflicts ==
    /\ Finished /\ ~Appendable
    /\ recovery' = Idle
    /\ UNCHANGED <<head, runtime, publication, registered, bound, driver, faults>>

\* The observation fails or times out, or the recovery is cancelled.
RecoveryEnds ==
    /\ recovery.step = "observing" /\ Fault
    /\ recovery' = Idle
    /\ UNCHANGED <<head, runtime, publication, registered, bound, driver>>

(***************************************************************************)
(* The driver: the events of a transition, and what it does besides them.  *)
(***************************************************************************)
Drive(next, looksAtPublication) ==
    /\ driver.driving /\ driver.headFresh
    /\ head' = next
    /\ driver' = IF next.phase \in {"stable", "needs-attention"} THEN NoDriver
                 ELSE [driver EXCEPT !.view = next, !.did = Nobody, !.rebound = FALSE,
                         !.pubFresh = looksAtPublication]
    /\ recovery' = [recovery EXCEPT !.headFresh = FALSE]
    /\ UNCHANGED <<runtime, publication, registered, bound, faults>>

\* The candidate is a new instance, at a newer generation than the active Runtime.
StageCandidate(c) ==
    /\ ~driver.driving
    /\ head.phase = "stable"
    /\ runtime[c].up = "unborn" /\ head.active.gen < MaxGeneration
    /\ head' = [head EXCEPT !.phase = "candidate-starting",
                  !.candidate = [inst |-> c, gen |-> head.active.gen + 1]]
    /\ driver' = [NoDriver EXCEPT !.driving = TRUE, !.view = head', !.headFresh = TRUE]
    /\ recovery' = [recovery EXCEPT !.headFresh = FALSE]
    /\ runtime' = [runtime EXCEPT ![c].up = "staged"]
    /\ UNCHANGED <<publication, registered, bound, faults>>

\* The fate of a candidate that a recovery continued is again up to a driver.
TakeOver ==
    /\ ~driver.driving
    /\ head.phase = "candidate-active"
    /\ driver' = [NoDriver EXCEPT !.driving = TRUE, !.view = head, !.headFresh = TRUE]
    /\ UNCHANGED <<head, runtime, publication, registered, bound, recovery, faults>>

StartCandidate ==
    /\ driver.driving /\ driver.view.phase = "candidate-starting"
    /\ runtime[driver.view.candidate.inst].up = "staged"
    /\ runtime' = [runtime EXCEPT ![driver.view.candidate.inst] =
                     [up |-> "well", gen |-> driver.view.candidate.gen]]
    /\ UNCHANGED <<head, publication, registered, bound, recovery, driver, faults>>

CandidateReady ==
    /\ driver.view.phase = "candidate-starting"
    /\ runtime[driver.view.candidate.inst].up = "well"
    /\ Drive([driver.view EXCEPT !.phase = "candidate-ready"], FALSE)

BeginQuiesce ==
    /\ driver.view.phase = "candidate-ready"
    /\ Drive([driver.view EXCEPT !.phase = "quiescing"], FALSE)

BeginPublish ==
    /\ driver.view.phase = "quiescing"
    /\ Drive([driver.view EXCEPT !.phase = "publishing"], TRUE)

\* The driver publishes id, which it does once in a phase.
DriverPublishes(id) ==
    /\ driver.driving /\ driver.pubFresh
    /\ publication' = id
    /\ bound' = {}
    /\ driver' = [driver EXCEPT !.pubFresh = FALSE, !.did = id]
    /\ recovery' = [recovery EXCEPT !.pubFresh = FALSE]

PublishCandidate ==
    /\ driver.view.phase = "publishing"
    /\ DriverPublishes(driver.view.candidate)
    /\ UNCHANGED <<head, runtime, registered, faults>>

\* In a rollback the previous Runtime is resumed and published.
RestorePrevious ==
    /\ driver.view.phase = "rolling-back"
    /\ LET previous == driver.view.previous
           gen == Newest(driver.view, runtime, publication) + 1
       IN  /\ Alive(runtime[previous.inst]) /\ gen <= MaxGeneration
           /\ runtime' = [runtime EXCEPT ![previous.inst].gen = gen]
           /\ DriverPublishes([previous EXCEPT !.gen = gen])
    /\ UNCHANGED <<head, registered, faults>>

DriverRebinds ==
    /\ driver.driving /\ driver.did = publication /\ ~driver.rebound
    /\ bound' = registered
    /\ driver' = [driver EXCEPT !.rebound = TRUE]
    /\ UNCHANGED <<head, runtime, publication, registered, recovery, faults>>

CandidatePublished ==
    /\ driver.view.phase = "publishing" /\ driver.rebound
    /\ Drive([phase |-> "candidate-active", active |-> driver.view.candidate,
              previous |-> driver.view.active, candidate |-> Nobody], FALSE)

CommitCandidate ==
    /\ driver.view.phase = "candidate-active"
    /\ Drive([driver.view EXCEPT !.phase = "stable"], FALSE)

BeginRollback ==
    /\ driver.view.phase = "candidate-active" /\ driver.view.previous # Nobody
    /\ Drive([driver.view EXCEPT !.phase = "rolling-back"], TRUE)

RollbackPublished ==
    /\ driver.view.phase = "rolling-back" /\ driver.rebound
    /\ Drive(Recovered(driver.view, driver.did, Nobody), FALSE)

TransitionFails == Drive(Attention(driver.view).next, FALSE)

DriverStops ==
    /\ driver.driving
    /\ driver' = NoDriver
    /\ UNCHANGED <<head, runtime, publication, registered, bound, recovery, faults>>

(***************************************************************************)
(* The sessions, the processes of the Runtimes and that of the supervisor. *)
(***************************************************************************)
\* A session that comes is with the Runtime that is published.
Register(s) ==
    /\ s \notin registered
    /\ registered' = registered \cup {s} /\ bound' = bound \cup {s}
    /\ UNCHANGED <<head, runtime, publication, recovery, driver, faults>>

Unregister(s) ==
    /\ s \in registered
    /\ registered' = registered \ {s} /\ bound' = bound \ {s}
    /\ UNCHANGED <<head, runtime, publication, recovery, driver, faults>>

RuntimeFails(i) ==
    /\ Alive(runtime[i]) /\ Fault
    /\ \E up \in {"sick", "down"} \ {runtime[i].up} : runtime' = [runtime EXCEPT ![i].up = up]
    /\ UNCHANGED <<head, publication, registered, bound, recovery, driver>>

RuntimeHeals(i) ==
    /\ runtime[i].up = "sick"
    /\ runtime' = [runtime EXCEPT ![i].up = "well"]
    /\ UNCHANGED <<head, publication, registered, bound, recovery, driver, faults>>

\* The process of the desktop ends; its sessions come back with the next one.
Crash ==
    /\ Fault
    /\ recovery' = Idle /\ driver' = NoDriver
    /\ registered' = {} /\ bound' = {}
    /\ UNCHANGED <<head, runtime, publication>>

RecoveryStep ==
    \/ LoadHead \/ ObserveRuntimes \/ ReadPublication \/ DecidePlan
    \/ ActionSucceeds \/ ActionRefused \/ CommitRecovery \/ RecoveryConflicts

DriverStep ==
    \/ \E c \in Instances : StageCandidate(c)
    \/ TakeOver \/ StartCandidate \/ CandidateReady \/ BeginQuiesce \/ BeginPublish
    \/ PublishCandidate \/ RestorePrevious \/ DriverRebinds \/ CandidatePublished
    \/ CommitCandidate \/ BeginRollback \/ RollbackPublished \/ TransitionFails
    \/ DriverStops

Environment ==
    \/ ActionFails \/ RecoveryEnds \/ Crash
    \/ \E s \in Sessions : Register(s) \/ Unregister(s)
    \/ \E i \in Instances : RuntimeFails(i) \/ RuntimeHeals(i)

Next == RecoveryStep \/ DriverStep \/ Environment

Spec == Init /\ [][Next]_vars

\* A recovery is asked for again and again, and what it awaits returns.
FairSpec == Spec /\ WF_vars(RecoveryStep)

(***************************************************************************)
(* Properties.                                                             *)
(***************************************************************************)
(* A recovery that is committed, other than as a need for attention, leaves*)
(* the ledger at the Runtime that is published, whatever other drivers did *)
(* between its observations, its actions and its append; and one that ends *)
(* a transition leaves every managed session there too, whatever adapters  *)
(* failed (runtime-supervisor.ts, recover; the compare-and-swap).          *)
CommitIsPublished ==
    [][CommitRecovery /\ recovery.plan.outcome # "needs-attention" =>
         /\ publication = head'.active
         /\ head.phase \in Publishing \cup {"rolling-back"} => bound = registered]_vars

(* A recovery whose ledger nobody else has moved on stops no Runtime that  *)
(* is published at that moment (the order of the actions of a plan).       *)
StopsOnlyLosers ==
    [][\A i \in Instances :
         /\ Acting /\ Current.kind = "stop" /\ Current.on.inst = i /\ recovery.headFresh
         /\ Alive(runtime[i]) /\ runtime'[i].up = "down"
         => publication.inst # i]_vars

\* The ledger, the publication and the process agree, or the owner is asked.
Settled ==
    \/ head.phase = "needs-attention"
    \/ /\ head.phase \in {"stable", "candidate-active"}
       /\ publication = head.active
       /\ runtime[head.active.inst] = [up |-> "well", gen |-> head.active.gen]

(* However a recovery was interrupted, those that follow bring the ledger, *)
(* the publication and the processes together again, once failures cease.  *)
Converges == <>[]Settled
=============================================================================
