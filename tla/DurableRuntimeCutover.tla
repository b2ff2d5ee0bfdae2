------------------------ MODULE DurableRuntimeCutover -------------------------
(***************************************************************************)
(* The durable Runtime Host cutover of packages/update-core/src: the       *)
(* adapter that writes the intent of the coordinator and the authoritative *)
(* route to disk (durable-runtime-cutover.ts, cutover-ledger.ts,           *)
(* runtime-route.ts), and the recovery of a cutover that was interrupted   *)
(* (cutover-recovery.ts, cutover-recovery-executor.ts).                    *)
(*                                                                         *)
(* Two activities interleave.  The driver, which is the coordinator or the *)
(* recovery executor, begins the operation of a phase, awaits it for a     *)
(* bounded time and goes on.  The operation writes its phase to the ledger *)
(* and then acts, in steps with an await between them; one that was given  *)
(* up runs on, whatever the driver does meanwhile, also when the driver    *)
(* has ended and a next one begins.  A crash ends them all; the ledger,    *)
(* the route and the Runtime Host processes stay as they are.              *)
(*                                                                         *)
(* A Runtime Host instance takes part in one cutover as the candidate, so  *)
(* a cutover is known by its candidate.  The platform adapter that starts, *)
(* quiesces, resumes and stops the processes is not in the repository: an  *)
(* operation of it that throws is taken to have done nothing.              *)
(***************************************************************************)
EXTENDS CutoverCoordinator

CONSTANTS
    Hosts,          \* the instances a Runtime Host can be
    Releases,       \* the releases an instance can run
    FirstHost,      \* the instance the route registry is bootstrapped with
    FirstRelease,   \* its release
    None,           \* the null previous route, the release of an instance not made yet
    MaxLeft         \* how many operations of earlier drivers run on at a time (bound)

ASSUME HostsAssumption == FirstHost \in Hosts /\ None \notin Hosts
ASSUME ReleasesAssumption == FirstRelease \in Releases /\ None \notin Releases
\* Every operation awaits the ledger before it acts: none is prompt, above all not the start.
ASSUME StartAssumption == "start-candidate" \notin Prompt

VARIABLES
    route,      \* the current revision of the route registry, on disk
    ledger,     \* of the last cutover: its last phase, whether an entry names the
                \* candidate, whether it has a receipt and which outcome it states
    cut,        \* the last cutover: its active host, whether that ran, its candidate,
                \* whether the candidate turned out to be the active host itself, and
                \* whether a driver of it began beside operations of an earlier one
    release,    \* the release of every instance
    host,       \* each process: "absent", "running", "quiesced", "stopped"
    driver,     \* whose operations op holds: "cutover" or "recovery"
    seen,       \* the route generation that an operation compares with
    left        \* the operations of earlier drivers that still run

ownVars == <<route, ledger, cut, release, host, driver, seen, left>>
vars == <<route, ledger, cut, release, host, driver, seen, left, coordinatorVars>>
diskVars == <<route, ledger>>
\* What no operation changes.
driverVars == <<cut, release, driver, pc, failures, outcome, left>>
\* What no operation of an earlier driver changes.
presentVars == <<cut, release, driver, seen, coordinatorVars>>

RoutePhases == {"switch-traffic", "commit-candidate", "rollback-traffic"}

Steps == {"unbegun", "begun", "verify", "check", "act", "persist", "apply", "undo",
          "done", "failed"}

\* The phases whose operation has an effect; those of the others only look.
EffectPhases == {"start-candidate", "quiesce-active", "resume-active", "stop-candidate",
                 "stop-previous"} \cup RoutePhases

TypeOK ==
    /\ route \in [generation : Nat, operation : {"bootstrap", "switch", "rollback", "commit"},
                  active : Hosts, previous : Hosts \cup {None}]
    /\ ledger \in [phase : Phases \cup {"none"}, known : BOOLEAN,
                   receipt : Outcomes \cup {"none"}]
    /\ cut \in [active : Hosts, ran : BOOLEAN, candidate : Hosts, reused : BOOLEAN,
                beside : BOOLEAN]
    /\ release \in [Hosts -> Releases \cup {None}]
    /\ host \in [Hosts -> {"absent", "running", "quiesced", "stopped"}]
    /\ driver \in {"cutover", "recovery"}
    /\ pc \in Phases \cup {"idle", "receipt"}
    /\ op \in [Phases -> Steps]
    /\ seen \in [RoutePhases -> Nat]
    /\ left \subseteq [phase : EffectPhases, step : Steps, by : {"cutover", "recovery"},
                       active : Hosts, candidate : Hosts, seen : Nat]
    /\ failures \in BOOLEAN
    /\ outcome \in Outcomes \cup {"none"}
    /\ abandoned \subseteq Phases

Init ==
    /\ route = [generation |-> 1, operation |-> "bootstrap", active |-> FirstHost,
                previous |-> None]
    /\ ledger = [phase |-> "none", known |-> FALSE, receipt |-> "none"]
    /\ cut = [active |-> FirstHost, ran |-> TRUE, candidate |-> FirstHost, reused |-> FALSE,
              beside |-> FALSE]
    /\ release = [h \in Hosts |-> IF h = FirstHost THEN FirstRelease ELSE None]
    /\ host = [h \in Hosts |-> IF h = FirstHost THEN "running" ELSE "absent"]
    /\ driver = "cutover"
    /\ seen = [p \in RoutePhases |-> 0]
    /\ left = {}
    /\ CoordinatorInit

-----------------------------------------------------------------------------
(* The route registry: every mutation is compared with the generation its  *)
(* caller read, so it fails when another one came between.                 *)

Revision(operation, active, previous) ==
    [generation |-> route.generation + 1, operation |-> operation, active |-> active,
     previous |-> previous]

HasPrevious == route.previous # None

SwitchTo(h) == Revision("switch", h, route.active)

Rollback == Revision("rollback", route.previous, route.active)

Commit ==
    IF route.previous = None /\ route.operation = "commit" THEN route
    ELSE Revision("commit", route.active, None)

-----------------------------------------------------------------------------
(* What the ledger and the route say of an interrupted cutover.            *)

IsOpen == ledger.phase # "none" /\ ledger.receipt = "none"

\* Mutant: a quiescence that is only recorded is taken not to have happened.
QuiesceNotUndone ==
    CASE ledger.phase \in {"start-candidate", "candidate-health", "quiesce-active"} -> "stop"
      [] ledger.phase \in {"drain-active", "checkpoint-active"} -> "resume"
      [] ledger.phase \in {"switch-traffic", "candidate-canary", "rollback-traffic"} ->
            "rollback"
      [] ledger.phase \in {"commit-candidate", "stop-previous"} -> "finish"
      [] OTHER -> "verify"
\* runtimeRecoveryAction: what the last phase recorded asks for.
RecoveryAction ==
    CASE ledger.phase \in {"start-candidate", "candidate-health"} -> "stop"
      [] ledger.phase \in {"quiesce-active", "drain-active", "checkpoint-active"} -> "resume"
      [] ledger.phase \in {"switch-traffic", "candidate-canary", "rollback-traffic"} ->
            "rollback"
      [] ledger.phase \in {"commit-candidate", "stop-previous"} -> "finish"
      [] OTHER -> "verify"

ReleaseIs(h, of) == h # None /\ release[h] = release[of]

\* resolveRuntimeAction: what the route, compared by releases, lets the executor do, as
\* the first phase it runs; "manual" when it may do nothing.
Resolution ==
    LET activeIsPrevious == ReleaseIs(route.active, cut.active)
        activeIsCandidate == ReleaseIs(route.active, cut.candidate)
        previousIsPrevious == ReleaseIs(route.previous, cut.active)
        previousIsCandidate == ReleaseIs(route.previous, cut.candidate)
    IN CASE RecoveryAction = "stop" /\ activeIsPrevious -> "stop-candidate"
         [] RecoveryAction = "resume" /\ activeIsPrevious -> "resume-active"
         [] RecoveryAction = "rollback" /\ activeIsCandidate /\ previousIsPrevious ->
                "rollback-traffic"
         [] RecoveryAction = "rollback" /\ activeIsPrevious /\ previousIsCandidate ->
                "resume-active"
         [] RecoveryAction = "finish" /\ activeIsCandidate /\ route.operation = "commit" ->
                "commit-candidate"
         [] OTHER -> "manual"

-----------------------------------------------------------------------------
(* The operations of the phases.                                           *)

\* DurableAdapter#candidate: the operation that starts it has returned.
CandidateNamed == driver = "recovery" \/ op["start-candidate"] = "done"

\* Where an operation goes on when its phase is in the ledger.
RecordedBy(p, by) ==
    CASE p = "switch-traffic" -> "check"
      [] p = "rollback-traffic" -> IF by = "recovery" THEN "persist" ELSE "check"
      [] p = "commit-candidate" -> IF by = "recovery" THEN "persist" ELSE "act"
      [] OTHER -> "act"

Recorded(p) == RecordedBy(p, driver)

\* Mutant: a switch whose route cannot be applied is not taken back.
AppliedOrLost(p) ==
    IF op[p] = "begun" /\ driver = "cutover" /\ p \in CleanupPhases THEN Recorded(p)
    ELSE "failed"
\* Where it goes on when its present step throws: cleanup goes on without the ledger,
\* and a route that could not be applied is taken back.
Thrown(p) ==
    CASE op[p] = "begun" /\ driver = "cutover" /\ p \in CleanupPhases -> Recorded(p)
      [] op[p] = "apply" /\ p = "switch-traffic" -> "undo"
      [] OTHER -> "failed"

\* CutoverLedger append: nothing follows a receipt.  It can also throw after it published
\* the entry, when it fails to sync the directory or to read the entry back.
Record(p) ==
    /\ op[p] = "begun"
    /\ ledger.receipt = "none"
    /\ ledger' = [ledger EXCEPT !.phase = p, !.known = @ \/ CandidateNamed]
    /\ \E next \in {Recorded(p), Thrown(p)} : op' = [op EXCEPT ![p] = next]
    /\ UNCHANGED <<driverVars, abandoned, route, host, seen>>

\* Any step may throw before it changes anything; a switch that cannot be taken back
\* is left as it is.
Throw(p) ==
    /\ IsRunning(p)
    /\ op' = [op EXCEPT ![p] = Thrown(p)]
    /\ abandoned' = IF op[p] = "undo" THEN abandoned \cup {p} ELSE abandoned
    /\ UNCHANGED <<driverVars, diskVars, host, seen>>

\* The executor asks the platform whether the candidate is authoritative, before it
\* commits a route that still has a previous one.
Verify ==
    /\ op["commit-candidate"] = "verify"
    /\ host[cut.candidate] = "running"
    /\ op' = [op EXCEPT !["commit-candidate"] = IF route.previous = None THEN "done" ELSE "begun"]
    /\ UNCHANGED <<driverVars, abandoned, diskVars, host, seen>>

SetHost(h, s) == host' = [host EXCEPT ![h] = s]

\* The platform adapter, where it succeeds, asked by one of the two drivers for a phase of
\* a cutover between two hosts.
Platform(p, by, active, candidate) ==
    \/ p = "start-candidate" /\ SetHost(candidate, "running")
    \/ /\ p \in {"candidate-health", "candidate-canary", "commit-candidate"}
       /\ host[candidate] = "running"
       /\ UNCHANGED host
    \/ /\ p = "quiesce-active" /\ host[active] \in {"running", "quiesced"}
       /\ SetHost(active, "quiesced")
    \/ /\ p \in {"drain-active", "checkpoint-active"}
       /\ host[active] = "quiesced"
       /\ UNCHANGED host
    \/ /\ p = "resume-active" /\ host[active] \in {"running", "quiesced"}
       /\ by = "recovery" => route.active = active
       /\ SetHost(active, "running")
    \/ p = "stop-candidate" /\ SetHost(candidate, "stopped")
    \/ p = "stop-previous" /\ SetHost(active, "stopped")

\* The host that the handle of the candidate names.
Candidate == IF cut.reused THEN cut.active ELSE cut.candidate

ActIsAll(p) == "done"                    \* mutant: the route is never committed
Acted(p) == IF p = "commit-candidate" THEN "check" ELSE "done"

Act(p) ==
    /\ op[p] = "act"
    /\ Platform(p, driver, cut.active, Candidate)
    /\ op' = [op EXCEPT ![p] = Acted(p)]
    /\ UNCHANGED <<driverVars, abandoned, diskVars, seen>>

\* The platform starts nothing and answers with the handle of the active host.
Reuse ==
    /\ op["start-candidate"] = "act"
    /\ op' = [op EXCEPT !["start-candidate"] = "done"]
    /\ cut' = [cut EXCEPT !.reused = TRUE]
    /\ UNCHANGED <<diskVars, host, seen, release, driver, pc, failures, outcome, abandoned, left>>

\* The host that must be authoritative for a mutation of the route.
ExpectedActive(p) == IF p = "switch-traffic" THEN cut.active ELSE cut.candidate

\* The revision that a phase of the cutover to a candidate writes.
Mutated(p, candidate) ==
    CASE p = "switch-traffic" -> SwitchTo(candidate)
      [] p = "rollback-traffic" -> Rollback
      [] p = "commit-candidate" -> Commit

\* A mutation that compares with a generation succeeds.
Fresh(p, generation) ==
    /\ route.generation = generation
    /\ p = "rollback-traffic" => HasPrevious

Check(p) ==
    /\ op[p] = "check"
    /\ route.active = ExpectedActive(p)
    /\ op' = [op EXCEPT ![p] = "persist"]
    /\ seen' = [seen EXCEPT ![p] = route.generation]
    /\ UNCHANGED <<driverVars, abandoned, diskVars, host>>

Persist(p) ==
    /\ op[p] = "persist"
    /\ Fresh(p, seen[p]) /\ route' = Mutated(p, cut.candidate)
    /\ seen' = [seen EXCEPT ![p] = route'.generation]
    /\ op' = [op EXCEPT ![p] = IF p = "commit-candidate" /\ driver = "cutover" THEN "done"
                               ELSE "apply"]
    /\ UNCHANGED <<driverVars, abandoned, ledger, host>>

\* applyAuthoritativeRoute
Apply(p) ==
    /\ op[p] = "apply"
    /\ op' = [op EXCEPT ![p] = "done"]
    /\ UNCHANGED <<driverVars, abandoned, diskVars, host, seen>>

\* The switch is taken back; the phase fails whether or not that route is applied.
Undo ==
    /\ op["switch-traffic"] = "undo"
    /\ Fresh("rollback-traffic", seen["switch-traffic"]) /\ route' = Rollback
    /\ op' = [op EXCEPT !["switch-traffic"] = "failed"]
    /\ UNCHANGED <<driverVars, abandoned, ledger, host, seen>>

Operation ==
    \/ \E p \in Phases : Record(p) \/ Throw(p) \/ Act(p)
    \/ \E p \in RoutePhases : Check(p) \/ Persist(p) \/ Apply(p)
    \/ Verify \/ Undo \/ Reuse

-----------------------------------------------------------------------------
(* An operation of an earlier driver takes the same steps, for the hosts   *)
(* of its own cutover.  What it returns, nobody awaits.                    *)

\* Those that run on when a next driver begins; two that are alike are taken as one.
LeftBehind ==
    left \cup {[phase |-> p, step |-> op[p], by |-> driver, active |-> cut.active,
                candidate |-> Candidate, seen |-> IF p \in RoutePhases THEN seen[p] ELSE 0] :
                   p \in {e \in EffectPhases : IsRunning(e)}}

\* It is at its next step, or has ended.
Onward(l, step, generation) ==
    left' = (left \ {l}) \cup
                (IF step \in Ended THEN {}
                 ELSE {[l EXCEPT !.step = step, !.seen = generation]})

LateThrow(l) ==
    /\ LET undone == l.step = "apply" /\ l.phase = "switch-traffic"
       IN Onward(l, IF undone THEN "undo" ELSE "failed", l.seen)
    /\ UNCHANGED <<presentVars, diskVars, host>>

LateAct(l) ==
    /\ l.step = "act"
    /\ Platform(l.phase, l.by, l.active, l.candidate)
    /\ Onward(l, Acted(l.phase), l.seen)
    /\ UNCHANGED <<presentVars, diskVars>>

LateCheck(l) ==
    /\ l.step = "check"
    /\ route.active = IF l.phase = "switch-traffic" THEN l.active ELSE l.candidate
    /\ Onward(l, "persist", route.generation)
    /\ UNCHANGED <<presentVars, diskVars, host>>

LatePersist(l) ==
    /\ l.step = "persist" /\ l.phase \in RoutePhases
    /\ Fresh(l.phase, l.seen) /\ route' = Mutated(l.phase, l.candidate)
    /\ Onward(l, "apply", route'.generation)
    /\ UNCHANGED <<presentVars, ledger, host>>

LateApply(l) ==
    /\ l.step = "apply"
    /\ Onward(l, "done", l.seen)
    /\ UNCHANGED <<presentVars, diskVars, host>>

LateUndo(l) ==
    /\ l.step = "undo"
    /\ Fresh("rollback-traffic", l.seen) /\ route' = Rollback
    /\ Onward(l, "failed", l.seen)
    /\ UNCHANGED <<presentVars, ledger, host>>

\* Only a commit of the executor can have been given up before it recorded its phase.
LateVerify(l) ==
    /\ l.step = "verify"
    /\ host[l.candidate] = "running"
    /\ Onward(l, IF route.previous = None THEN "done" ELSE "begun", l.seen)
    /\ UNCHANGED <<presentVars, diskVars, host>>

\* It is an entry of the cutover that was recovered again, and none of a later one.
LateRecord(l) ==
    /\ l.step = "begun"
    /\ ledger.receipt = "none" /\ l.candidate = cut.candidate
    /\ ledger' = [ledger EXCEPT !.phase = l.phase, !.known = TRUE]
    /\ Onward(l, RecordedBy(l.phase, l.by), l.seen)
    /\ UNCHANGED <<presentVars, route, host>>

LateOperation ==
    \E l \in left :
        \/ LateThrow(l) \/ LateAct(l) \/ LateCheck(l) \/ LatePersist(l) \/ LateApply(l)
        \/ LateUndo(l) \/ LateVerify(l) \/ LateRecord(l)

-----------------------------------------------------------------------------
(* The coordinator.                                                        *)

\* LayeredUpdateController.execute lets a cutover begin when no recovery is open, and
\* DurableRuntimeCutoverCoordinator.cutover when the active host it was given is
\* authoritative.  Nothing waits for what an earlier one gave up, or asks whether the active
\* host runs.
Start(h, r) ==
    /\ ~IsOpen
    /\ release[h] = None /\ r # release[route.active]
    /\ BeginCutover
    /\ left' = LeftBehind /\ Cardinality(left') <= MaxLeft
    /\ cut' = [active |-> route.active, ran |-> host[route.active] = "running",
               candidate |-> h, reused |-> FALSE, beside |-> left' # {}]
    /\ release' = [release EXCEPT ![h] = r]
    /\ ledger' = [phase |-> "none", known |-> FALSE, receipt |-> "none"]
    /\ driver' = "cutover"
    /\ seen' = [p \in RoutePhases |-> 0]
    /\ UNCHANGED <<route, host>>

CoordinatorStep ==
    /\ driver = "cutover"
    /\ Coordinate
    /\ cut.reused => pc' # "candidate-health"
    /\ UNCHANGED ownVars

\* The receipt, of the coordinator or the executor; it may fail to be written, and may
\* have been published when it does.  The ledger serializes its appends: the entries asked
\* for before it, also of operations that were given up, are written or refused first.
WriteReceipt ==
    /\ \A p \in Phases : op[p] # "begun"
    /\ ReceiptWritten
    /\ \/ ledger.receipt = "none" /\ ledger' = [ledger EXCEPT !.receipt = outcome]
       \/ UNCHANGED ledger
    /\ UNCHANGED <<route, host, seen, cut, release, driver, left>>

-----------------------------------------------------------------------------
(* Crash and recovery.                                                     *)

Crash ==
    /\ pc # "idle" \/ ~Quiet \/ left # {}
    /\ pc' = "idle" /\ outcome' = "none" /\ failures' = FALSE
    /\ op' = Unbegun
    /\ seen' = [p \in RoutePhases |-> 0]
    /\ left' = {}
    /\ UNCHANGED <<diskVars, host, cut, release, driver, abandoned>>

\* After a crash, or in the process whose cutover or recovery failed, beside what that one
\* gave up.  The plan and the generation it is carried out at are read in one step.
Recover ==
    /\ pc = "idle" /\ IsOpen
    /\ Resolution # "manual"
    /\ ledger.known
    /\ driver' = "recovery" /\ pc' = Resolution
    /\ op' = [Unbegun EXCEPT ![Resolution] =
                  IF Resolution = "commit-candidate" THEN "verify" ELSE "begun"]
    /\ seen' = [p \in RoutePhases |-> route.generation]
    /\ failures' = FALSE
    /\ left' = LeftBehind /\ Cardinality(left') <= MaxLeft
    /\ cut' = [cut EXCEPT !.beside = @ \/ left' # {}]
    /\ UNCHANGED <<diskVars, host, release, outcome, abandoned>>

RecoveryAfter(p) ==
    CASE p = "rollback-traffic" -> "resume-active"
      [] p = "resume-active" -> "stop-candidate"
      [] p = "commit-candidate" -> "stop-previous"
      [] OTHER -> "receipt"

RecoveryAdvance ==
    /\ driver = "recovery" /\ pc \in Phases /\ op[pc] = "done"
    /\ LET next == RecoveryAfter(pc) IN
       /\ pc' = next
       /\ op' = IF next = "receipt" THEN op ELSE [op EXCEPT ![next] = "begun"]
       /\ outcome' = CASE next # "receipt" -> "none"
                       [] pc = "stop-previous" -> "committed"
                       [] OTHER -> "rolled-back"
    /\ UNCHANGED <<diskVars, host, seen, cut, release, driver, failures, abandoned, left>>

\* The executor throws; the cutover stays open.  Its deadline covers the ledger only for
\* the commit.
RecoveryFails ==
    /\ driver = "recovery" /\ pc \in Phases /\ WaitEnds
    /\ op[pc] # "begun" \/ pc = "commit-candidate"
    /\ pc' = "idle"
    /\ UNCHANGED <<diskVars, host, seen, op, cut, release, driver, failures, outcome, abandoned,
                   left>>

Driver ==
    \/ \E h \in Hosts, r \in Releases : Start(h, r)
    \/ CoordinatorStep \/ WriteReceipt
    \/ Recover \/ RecoveryAdvance \/ RecoveryFails

Next == Operation \/ LateOperation \/ Driver \/ Crash

Spec == Init /\ [][Next]_vars

-----------------------------------------------------------------------------
(* Properties.                                                             *)

\* The cutover left no trace but a retained route: its active host is authoritative and
\* admits calls, as it did before, and its candidate does not run.
Restored ==
    /\ route.active = cut.active
    /\ cut.ran => host[cut.active] = "running"
    /\ host[cut.candidate] # "running"

\* What a cutover that gave up, or could not take back, one of these has left behind the
\* coordinator does not know.
LooseEnds == abandoned \cap {"start-candidate", "quiesce-active", "switch-traffic"}

\* No operation of an earlier driver still ran when a driver of the cutover began, and the
\* candidate is an instance of its own.
OnItsOwn == ~cut.beside /\ ~cut.reused

\* A receipt "rolled-back" means that everything is as it was before the cutover, unless
\* the start, the quiescence or the switch was given up at its deadline or a switch could
\* not be taken back.  In particular a deadline or an abort in any other phase is harmless,
\* though its operation runs on.  It says nothing of a cutover that was begun while an
\* earlier one still ran on, which may quiesce, stop or replace the active host, nor of a
\* candidate that is the active host, which is stopped as the candidate.
RolledBackUnlessLoose ==
    ledger.receipt = "rolled-back" /\ OnItsOwn => Restored \/ LooseEnds # {}

\* What the recovery executor closes as rolled back is restored, whatever the interrupted
\* coordinator had given up and wherever it was interrupted, if that has ended: by a crash,
\* or by itself.
RecoveredIsRestored ==
    driver = "recovery" /\ ledger.receipt = "rolled-back" /\ OnItsOwn => Restored

\* A receipt "committed" of the coordinator means that the candidate runs and is the only
\* route left: nothing that runs on, of the cutover or of an earlier one, can take it back
\* or stop it.  So does one of the executor, unless it began beside an operation that the
\* interrupted cutover had given up and that may stop the candidate.
CommittedIsAuthoritative ==
    ledger.receipt = "committed" /\ (driver = "cutover" \/ OnItsOwn) =>
        /\ route.active = cut.candidate /\ ~HasPrevious
        /\ host[cut.candidate] = "running"

\* A phase that ends at its deadline, or a route that cannot be applied, restores the
\* active release: it is violated by the code.
RolledBackKeepsAuthority == ledger.receipt = "rolled-back" => route.active = cut.active
=============================================================================
