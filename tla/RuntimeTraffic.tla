---------------------------- MODULE RuntimeTraffic ----------------------------
(***************************************************************************)
(* The calls of a Runtime Host during its cutover: RuntimeTrafficRegistry  *)
(* of packages/update-core/src/runtime-traffic.ts, which admits a call to  *)
(* the authoritative host and remembers it until its effect is known, and  *)
(* RuntimeTrafficCutoverAdapter of runtime-traffic-adapter.ts, which       *)
(* quiesces, drains and switches the hosts for the coordinator.            *)
(*                                                                         *)
(* A method of the registry runs without an await, so the generation and   *)
(* the fencing token that it compares with its own are always current      *)
(* within a cutover; they are left out.  The lifecycle callbacks, which    *)
(* start and stop the processes, are not in the repository: one may take   *)
(* any time, outlive the cutover that asked for it, or throw.              *)
(***************************************************************************)
EXTENDS CutoverCoordinator

CONSTANTS
    Hosts,          \* the instances a Runtime Host can be
    FirstHost,      \* the one the registry is created with
    Calls           \* the leases that are tracked at a time (MAX_TRACKED_OPERATIONS)

ASSUME FirstHostAssumption == FirstHost \in Hosts

\* The phases whose operation awaits nothing.
PromptPhases == {"quiesce-active", "switch-traffic", "resume-active"}

ASSUME PromptPhasesAssumption == Prompt = PromptPhases

VARIABLES
    active,     \* the authoritative host
    quiesced,   \* the hosts that admit no call
    call,       \* every lease: "free", "inFlight" or "unknown", and its host
    host,       \* each process: "absent", "running" or "stopped"
    asked,      \* the processes the lifecycle was asked to start or stop and has not yet
    cut,        \* the last cutover: the host its caller took for active, its candidate
    results     \* the outcomes of the cutovers so far

registryVars == <<active, quiesced, call>>
lifecycleVars == <<host, asked>>
ownVars == <<registryVars, lifecycleVars, cut, results>>
vars == <<ownVars, coordinatorVars>>
driverVars == <<pc, failures, outcome, abandoned, cut, results>>

Steps == {"unbegun", "begun", "asked", "draining", "done", "failed"}

TypeOK ==
    /\ active \in Hosts
    /\ quiesced \subseteq Hosts
    /\ call \in [Calls -> [state : {"free", "inFlight", "unknown"}, at : Hosts]]
    /\ host \in [Hosts -> {"absent", "running", "stopped"}]
    /\ asked \subseteq {"start", "stop"} \X Hosts
    /\ cut \in [active : Hosts, candidate : Hosts]
    /\ results \subseteq Outcomes
    /\ pc \in Phases \cup {"idle", "receipt"}
    /\ op \in [Phases -> Steps]
    /\ failures \in BOOLEAN
    /\ outcome \in Outcomes \cup {"none"}
    /\ abandoned \subseteq Phases

Init ==
    /\ active = FirstHost /\ quiesced = {}
    /\ call = [c \in Calls |-> [state |-> "free", at |-> FirstHost]]
    /\ host = [h \in Hosts |-> IF h = FirstHost THEN "running" ELSE "absent"]
    /\ asked = {}
    /\ cut = [active |-> FirstHost, candidate |-> FirstHost]
    /\ results = {}
    /\ CoordinatorInit

-----------------------------------------------------------------------------
(* The calls.                                                              *)

BeginCall(c) ==
    /\ call[c].state = "free"
    /\ active \notin quiesced
    /\ call' = [call EXCEPT ![c] = [state |-> "inFlight", at |-> active]]
    /\ UNCHANGED <<active, quiesced, lifecycleVars, cut, results, coordinatorVars>>

\* The call completed or was cancelled, or nobody knows whether it had its effect.
FinishCall(c) ==
    /\ call[c].state = "inFlight"
    /\ \E s \in {"free", "unknown"} : call' = [call EXCEPT ![c].state = s]
    /\ UNCHANGED <<active, quiesced, lifecycleVars, cut, results, coordinatorVars>>

\* reconcileUnknown: somebody found out.
Reconcile(c) ==
    /\ call[c].state = "unknown"
    /\ call' = [call EXCEPT ![c].state = "free"]
    /\ UNCHANGED <<active, quiesced, lifecycleVars, cut, results, coordinatorVars>>

InFlightAt(h) == {c \in Calls : call[c].state = "inFlight" /\ call[c].at = h}
UnknownAt(h) == {c \in Calls : call[c].state = "unknown" /\ call[c].at = h}

-----------------------------------------------------------------------------
(* The operations of the adapter.                                          *)

Finish(p, succeeds) == op' = [op EXCEPT ![p] = IF succeeds THEN "done" ELSE "failed"]

Quiesce ==
    /\ op["quiesce-active"] = "begun"
    /\ Finish("quiesce-active", active = cut.active)
    /\ quiesced' = IF active = cut.active THEN quiesced \cup {active} ELSE quiesced
    /\ UNCHANGED <<active, call, lifecycleVars, driverVars>>

\* Mutant: a call of unknown effect does not hold a host back.
NoneInFlight(h) == InFlightAt(h) = {}
\* assertDrainReport, and the last guards of switchActive.
Drained(h) == InFlightAt(h) = {} /\ UnknownAt(h) = {}

\* The waiter of the drain is resolved when the last call in flight ends; once the wait is
\* given up it is rejected.
Drain ==
    /\ op["drain-active"] = "begun" /\ pc = "drain-active"
    /\ InFlightAt(cut.active) = {}
    /\ Finish("drain-active", cut.active \in quiesced /\ Drained(cut.active))
    /\ UNCHANGED <<registryVars, lifecycleVars, driverVars>>

\* switchActive
SwitchActive(p, from, to) ==
    LET allowed == active = from /\ from # to /\ from \in quiesced /\ Drained(from)
    IN /\ Finish(p, allowed)
       /\ active' = IF allowed THEN to ELSE active
       /\ quiesced' = IF allowed THEN quiesced \ {to} ELSE quiesced
       /\ UNCHANGED <<call, lifecycleVars, driverVars>>

SwitchTraffic ==
    /\ op["switch-traffic"] = "begun"
    /\ SwitchActive("switch-traffic", cut.active, cut.candidate)

\* The way back: the candidate is quiesced, unless it is already, and drained.
RollbackBegins ==
    /\ op["rollback-traffic"] = "begun"
    /\ op' = [op EXCEPT !["rollback-traffic"] =
                  IF active = cut.candidate THEN "draining" ELSE "failed"]
    /\ quiesced' = IF active = cut.candidate THEN quiesced \cup {active} ELSE quiesced
    /\ UNCHANGED <<active, call, lifecycleVars, driverVars>>

RollbackSwitches ==
    /\ op["rollback-traffic"] = "draining" /\ pc = "rollback-traffic"
    /\ InFlightAt(cut.candidate) = {}
    /\ SwitchActive("rollback-traffic", cut.candidate, cut.active)

Resume ==
    /\ op["resume-active"] = "begun"
    /\ Finish("resume-active", active = cut.active)
    /\ quiesced' = IF active = cut.active THEN quiesced \ {active} ELSE quiesced
    /\ UNCHANGED <<active, call, lifecycleVars, driverVars>>

PromptOperation == Quiesce \/ SwitchTraffic \/ Resume

\* What a phase asks of the lifecycle, and of which process.
Request(p) ==
    CASE p = "start-candidate" -> <<"start", cut.candidate>>
      [] p = "stop-candidate" -> <<"stop", cut.candidate>>
      [] p = "stop-previous" -> <<"stop", cut.active>>

LifecyclePhases == {"start-candidate", "stop-candidate", "stop-previous"}

MayAlways(p) == TRUE                     \* mutant: any host may be stopped
\* stop refuses the authoritative host.
MayAsk(p) == p # "start-candidate" => Request(p)[2] # active

Ask(p) ==
    /\ op[p] = "begun"
    /\ IF MayAsk(p)
       THEN asked' = asked \cup {Request(p)} /\ op' = [op EXCEPT ![p] = "asked"]
       ELSE Finish(p, FALSE) /\ UNCHANGED asked
    /\ UNCHANGED <<registryVars, host, driverVars>>

\* The lifecycle has done what it was asked, or throws; the cutover that asked may be over.
Answer(kind, h) ==
    /\ <<kind, h>> \in asked
    /\ asked' = asked \ {<<kind, h>>}
    /\ \E succeeds \in BOOLEAN :
          /\ host' = IF ~succeeds THEN host
                     ELSE [host EXCEPT ![h] = IF kind = "start" THEN "running" ELSE "stopped"]
          /\ op' = [p \in Phases |->
                       IF /\ p \in LifecyclePhases /\ op[p] = "asked"
                          /\ Request(p) = <<kind, h>>
                       THEN IF succeeds THEN "done" ELSE "failed"
                       ELSE op[p]]
    /\ UNCHANGED <<registryVars, driverVars>>

\* The health, the checkpoint, the canary and the commit change nothing here; the last
\* two are refused unless the candidate is authoritative.
Attend(p) ==
    /\ p \in {"candidate-health", "checkpoint-active", "candidate-canary", "commit-candidate"}
    /\ op[p] = "begun"
    /\ p \in {"candidate-canary", "commit-candidate"} => active = cut.candidate
    /\ Finish(p, TRUE)
    /\ UNCHANGED <<registryVars, lifecycleVars, driverVars>>

\* An operation throws, or a drain is aborted with the wait for it.
Fail(p) ==
    /\ p \notin Prompt /\ op[p] \in {"begun", "draining"}
    /\ Finish(p, FALSE)
    /\ UNCHANGED <<registryVars, lifecycleVars, driverVars>>

Operation ==
    \/ PromptOperation
    \/ Drain \/ RollbackBegins \/ RollbackSwitches
    \/ \E p \in LifecyclePhases : Ask(p)
    \/ \E kind \in {"start", "stop"}, h \in Hosts : Answer(kind, h)
    \/ \E p \in Phases : Attend(p) \/ Fail(p)

-----------------------------------------------------------------------------
(* The coordinator.                                                        *)

\* A cutover to an instance not used yet.  Its caller may take a host for active that no
\* longer is; what an earlier cutover gave up may still run.
Start(a, h) ==
    /\ host[a] # "absent" /\ host[h] = "absent" /\ <<"start", h>> \notin asked
    /\ BeginCutover
    /\ cut' = [active |-> a, candidate |-> h]
    /\ UNCHANGED <<registryVars, lifecycleVars, results>>

CoordinatorStep == Coordinate /\ UNCHANGED ownVars

Report ==
    /\ ReceiptWritten
    /\ results' = results \cup {outcome}
    /\ UNCHANGED <<registryVars, lifecycleVars, cut>>

Next ==
    \/ \E c \in Calls : BeginCall(c) \/ FinishCall(c) \/ Reconcile(c)
    \/ Operation
    \/ \E a, h \in Hosts : Start(a, h)
    \/ CoordinatorStep \/ Report

\* Every wait of the coordinator has a deadline, so it goes on in the end; what awaits
\* nothing ends.  A call or a callback of the lifecycle may never end.
Fairness ==
    /\ WF_vars(CoordinatorStep) /\ WF_vars(Report)
    /\ WF_vars(PromptOperation)

Spec == Init /\ [][Next]_vars
FairSpec == Spec /\ Fairness

-----------------------------------------------------------------------------
(* Properties.                                                             *)

\* A call in flight, and one of which nobody knows whether it had its effect, is always at
\* the authoritative host: a switch, also the one of a rollback, leaves no call behind.
WorkIsAtAuthority ==
    \A c \in Calls : call[c].state # "free" => call[c].at = active

\* The authoritative host is never stopped, nor asked to stop, although a callback of an
\* earlier cutover may still be under way and a cutover may begin from a stale host.
AuthorityIsNotStopped ==
    /\ host[active] = "running"
    /\ <<"stop", active>> \notin asked

\* Between cutovers calls are admitted, as long as none has failed: an abort, a deadline or
\* an error in any phase leaves no quiescence behind.
AdmitsBetweenCutovers ==
    pc = "idle" /\ active \in quiesced => "failed" \in results

\* A quiescence ends, although calls in flight and callbacks of the lifecycle may never:
\* traffic flows again, or the cutover reports that it failed.
OutageEnds ==
    (active \in quiesced) ~> (active \notin quiesced \/ "failed" \in results)
=============================================================================
