-------------------------- MODULE RuntimeTrafficProofs --------------------------
(***************************************************************************)
(* Proofs about RuntimeTraffic, for any number of hosts and of calls: no   *)
(* cutover leaves a call behind, none stops the authoritative host, and    *)
(* none leaves it quiesced unless it reports that it failed.               *)
(***************************************************************************)
EXTENDS RuntimeTraffic, TLAPS

BeforeSwitch == {"candidate-health", "quiesce-active", "drain-active", "checkpoint-active",
                 "switch-traffic"}

(* The phases come in their order: what the way to a phase has seen done.  *)
PhasesInOrder ==
    /\ pc = "receipt" => outcome \in Outcomes
    /\ pc = "start-candidate" => op["candidate-health"] = "unbegun"
    /\ pc \in BeforeSwitch => op["start-candidate"] = "done"
    /\ pc \in ForwardPhases => op["stop-candidate"] = "unbegun"
    /\ pc \in ForwardPhases \cup RestoringPhases => op["stop-previous"] = "unbegun"
    /\ op["candidate-health"] # "unbegun" => op["start-candidate"] = "done"
    /\ op["stop-candidate"] # "unbegun" => op["start-candidate"] = "done"
    /\ op["switch-traffic"] = "begun" => pc = "switch-traffic"

(* A candidate that was started runs until its stop is begun.              *)
CandidateRuns ==
    /\ op["start-candidate"] = "done" => host[cut.candidate] # "absent"
    /\ op["start-candidate"] = "done" /\ op["stop-candidate"] = "unbegun"
          => host[cut.candidate] = "running"
    /\ op["stop-candidate"] = "unbegun" /\ cut.active # cut.candidate
          => <<"stop", cut.candidate>> \notin asked

(* The host that a rollback returns to runs until its stop is begun.       *)
PreviousRuns ==
    /\ host[cut.active] # "absent"
    /\ cut.active = cut.candidate => op = Unbegun
    /\ active = cut.candidate /\ op["stop-previous"] = "unbegun"
          => host[cut.active] = "running" /\ <<"stop", cut.active>> \notin asked

(* An instance that was never started is not asked to stop.                *)
AbsentIsNotStopped == \A h \in Hosts : host[h] = "absent" => <<"stop", h>> \notin asked

Inv ==
    /\ TypeOK
    /\ PhasesInOrder
    /\ CandidateRuns
    /\ PreviousRuns
    /\ AbsentIsNotStopped
    /\ AuthorityIsNotStopped

-----------------------------------------------------------------------------
(* The coordinator.                                                        *)

(* Cleaning up begins one restoring phase that is due, or states an outcome. *)
LEMMA CleanUpBegins ==
    ASSUME NEW left, NEW failed \in BOOLEAN, CleanUp(left, failed)
    PROVE  /\ failures' = failed
           /\ \/ /\ pc' = "receipt" /\ op' = op
                 /\ outcome' \in {"failed", "rolled-back"}
              \/ /\ pc' \in left \cap RestoringPhases /\ Due(pc')
                 /\ op' = [op EXCEPT ![pc'] = "begun"]
                 /\ outcome' = "none"
<1> DEFINE next == NextCleanup(left)
<1>1. \/ next = "receipt"
      \/ next \in left \cap RestoringPhases /\ Due(next) /\ next # "receipt"
  BY DEF RestoringPhases, NextCleanup
<1>2. /\ pc' = next
      /\ op' = IF next = "receipt" THEN op ELSE [op EXCEPT ![next] = "begun"]
      /\ failures' = failed
      /\ outcome' = IF next # "receipt" THEN "none" ELSE IF failed THEN "failed" ELSE "rolled-back"
  BY DEF CleanUp
<1> HIDE DEF next
<1>3. CASE next = "receipt"
  <2>1. failed = TRUE \/ failed = FALSE
    OBVIOUS
  <2>2. outcome' \in {"failed", "rolled-back"}
    BY <2>1, <1>2, <1>3
  <2> QED BY <1>2, <1>3, <2>2
<1>4. CASE next # "receipt"
  BY <1>1, <1>2, <1>4
<1> QED BY <1>3, <1>4

(* What a step of the coordinator does, whichever it is.                   *)
LEMMA CoordinateMoves ==
    ASSUME TypeOK, Coordinate
    PROVE  /\ failures' \in BOOLEAN /\ abandoned' \in SUBSET Phases
           /\ pc \in Phases /\ op[pc] # "unbegun"
           /\ \/ /\ pc \in ForwardPhases /\ op[pc] = "done" /\ pc' = PhaseAfter(pc)
                 /\ op' = [op EXCEPT ![pc'] = "begun"] /\ outcome' = outcome
              \/ /\ pc = "start-candidate" /\ op[pc] = "done" /\ pc' = "stop-candidate"
                 /\ op' = [op EXCEPT ![pc'] = "begun"] /\ outcome' = outcome
              \/ /\ pc \in ForwardPhases \cup RestoringPhases
                 /\ pc' \in RestoringPhases /\ Due(pc')
                 /\ pc \in Prompt => op[pc] \in {"failed", "done"}
                 /\ op' = [op EXCEPT ![pc'] = "begun"] /\ outcome' = "none"
              \/ /\ pc \in Phases /\ pc' = "receipt" /\ op' = op /\ outcome' \in Outcomes
                 /\ pc \in Prompt => op[pc] \in {"failed", "done"}
<1> USE DEF Phases, ForwardPhases, CleanupPhases, RestoringPhases
<1>1. CASE Advance
  BY <1>1 DEF Advance, Enter, TypeOK
<1>2. CASE RejectCandidate
  BY <1>2 DEF RejectCandidate, Enter, TypeOK
<1>3. CASE GiveUp
  <2>1. CleanUp(RestoringPhases, FALSE) /\ pc \in ForwardPhases
    BY <1>3 DEF GiveUp
  <2>2. /\ pc \in Prompt => op[pc] \in {"failed", "done"}
        /\ op[pc] # "unbegun"
    BY <1>3 DEF GiveUp, WaitEnds, IsRunning, Ended
  <2>3. abandoned' \in SUBSET Phases
    BY <1>3 DEF GiveUp, TypeOK, IsRunning, Ended
  <2> QED BY <2>1, <2>2, <2>3, CleanUpBegins DEF Outcomes
<1>4. CASE CleanupEnds
  <2>1. PICK failed \in {failures, TRUE} : CleanUp(CleanupAfter(pc), failed) /\ pc \in RestoringPhases
    BY <1>4 DEF CleanupEnds
  <2>2. /\ pc \in Prompt => op[pc] \in {"failed", "done"}
        /\ op[pc] # "unbegun"
    BY <1>4 DEF CleanupEnds, WaitEnds, IsRunning, Ended
  <2>3. abandoned' \in SUBSET Phases /\ failed \in BOOLEAN
    BY <1>4 DEF CleanupEnds, TypeOK
  <2> QED BY <2>1, <2>2, <2>3, CleanUpBegins DEF Outcomes
<1>5. CASE Retired
  BY <1>5 DEF Retired, TypeOK, Outcomes, WaitEnds, IsRunning, Ended
<1> QED BY <1>1, <1>2, <1>3, <1>4, <1>5 DEF Coordinate
-----------------------------------------------------------------------------
(* Before the first cutover the invariant holds.                           *)
LEMMA InitInv == Init => Inv
<1> SUFFICES ASSUME Init PROVE Inv
  OBVIOUS
<1>1. TypeOK
  BY FirstHostAssumption DEF Init, CoordinatorInit, TypeOK, Unbegun, Steps, Outcomes
<1>2. \A p \in Phases : op[p] = "unbegun"
  BY DEF Init, CoordinatorInit, Unbegun
<1>3. PhasesInOrder
  BY <1>2 DEF Init, CoordinatorInit, PhasesInOrder, Phases, ForwardPhases, CleanupPhases,
     RestoringPhases, BeforeSwitch
<1>4. CandidateRuns /\ AbsentIsNotStopped /\ AuthorityIsNotStopped
  BY <1>2, FirstHostAssumption DEF Init, CandidateRuns, AbsentIsNotStopped,
     AuthorityIsNotStopped, Phases, ForwardPhases
<1>5. PreviousRuns
  BY FirstHostAssumption DEF Init, CoordinatorInit, PreviousRuns
<1> QED BY <1>1, <1>3, <1>4, <1>5 DEF Inv

(* A call changes nothing that a cutover looks after.                      *)
LEMMA CallsKeep ==
    ASSUME Inv, NEW c \in Calls, BeginCall(c) \/ FinishCall(c) \/ Reconcile(c)
    PROVE  Inv'
<1>1. call' \in [Calls -> [state : {"free", "inFlight", "unknown"}, at : Hosts]]
  BY DEF Inv, TypeOK, BeginCall, FinishCall, Reconcile
<1>2. UNCHANGED <<active, quiesced, host, asked, cut, results, pc, op, failures, outcome,
                  abandoned>>
  BY DEF BeginCall, FinishCall, Reconcile, lifecycleVars, coordinatorVars
<1> QED BY <1>1, <1>2 DEF Inv, TypeOK, PhasesInOrder, CandidateRuns, PreviousRuns,
        AbsentIsNotStopped, AuthorityIsNotStopped, Due

(* The coordinator goes on in the order of the phases.                     *)
LEMMA CoordinateKeeps ==
    ASSUME Inv, CoordinatorStep
    PROVE  Inv'
<1>1. /\ UNCHANGED <<active, quiesced, call, host, asked, cut, results>>
      /\ Coordinate
  BY DEF CoordinatorStep, ownVars, registryVars, lifecycleVars
<1>2. TypeOK /\ op \in [Phases -> Steps]
  BY DEF Inv, TypeOK
<1>3. /\ failures' \in BOOLEAN /\ abandoned' \in SUBSET Phases
      /\ pc \in Phases /\ op[pc] # "unbegun"
  BY <1>1, <1>2, CoordinateMoves
<1> USE DEF Phases, ForwardPhases, CleanupPhases, RestoringPhases
<1>4. /\ pc' \in Phases \cup {"receipt"} /\ outcome' \in Outcomes \cup {"none"}
      /\ PhasesInOrder'
      /\ \/ op' = op
         \/ pc' \in Phases \ {"start-candidate"} /\ op' = [op EXCEPT ![pc'] = "begun"]
  <2>1. CASE /\ pc \in ForwardPhases /\ op[pc] = "done" /\ pc' = PhaseAfter(pc)
             /\ op' = [op EXCEPT ![pc'] = "begun"] /\ outcome' = outcome
    BY <1>2, <2>1 DEF Inv, TypeOK, PhasesInOrder, BeforeSwitch, PhaseAfter
  <2>2. CASE /\ pc = "start-candidate" /\ op[pc] = "done" /\ pc' = "stop-candidate"
             /\ op' = [op EXCEPT ![pc'] = "begun"] /\ outcome' = outcome
    BY <1>2, <2>2 DEF Inv, TypeOK, PhasesInOrder, BeforeSwitch
  <2>3. CASE /\ pc \in ForwardPhases \cup RestoringPhases
             /\ pc' \in RestoringPhases /\ Due(pc')
             /\ pc \in Prompt => op[pc] \in {"failed", "done"}
             /\ op' = [op EXCEPT ![pc'] = "begun"] /\ outcome' = "none"
    BY <1>2, <2>3, PromptPhasesAssumption DEF Inv, PhasesInOrder, BeforeSwitch, PromptPhases, Due
  <2>4. CASE /\ pc \in Phases /\ pc' = "receipt" /\ op' = op /\ outcome' \in Outcomes
             /\ pc \in Prompt => op[pc] \in {"failed", "done"}
    BY <1>2, <2>4, PromptPhasesAssumption DEF Inv, PhasesInOrder, BeforeSwitch, PromptPhases
  <2> HIDE DEF Phases, ForwardPhases, CleanupPhases, RestoringPhases
  <2> QED BY <1>1, <1>2, <2>1, <2>2, <2>3, <2>4, CoordinateMoves
<1>5. op' \in [Phases -> Steps]
  BY <1>2, <1>4 DEF Steps
<1>6. TypeOK'
  BY <1>1, <1>3, <1>4, <1>5 DEF Inv, TypeOK
<1>7. op # Unbegun
  BY <1>3 DEF Unbegun
<1> QED BY <1>1, <1>2, <1>4, <1>6, <1>7 DEF Inv, CandidateRuns, PreviousRuns, AbsentIsNotStopped,
        AuthorityIsNotStopped

(* A phase whose operation is under way has begun: the cutover is a real one. *)
LEMMA UnderWay ==
    ASSUME Inv, NEW p \in Phases, op[p] # "unbegun"
    PROVE  cut.active # cut.candidate
BY DEF Inv, PreviousRuns, Unbegun

(* An operation that ends, or goes a step further, and changes no host and no route. *)
LEMMA ProgressKeeps ==
    ASSUME Inv, NEW p \in Phases, NEW s \in Steps, op[p] # "unbegun", op[p] # "done",
           s # "unbegun", s # "begun", p = "start-candidate" => s # "done",
           op' = [op EXCEPT ![p] = s],
           UNCHANGED <<active, host, asked, cut, results, call, pc, failures, outcome, abandoned>>,
           quiesced' \subseteq Hosts
    PROVE  Inv'
<1>1. op \in [Phases -> Steps] /\ op' \in [Phases -> Steps]
  BY DEF Inv, TypeOK
<1>2. TypeOK'
  BY <1>1 DEF Inv, TypeOK
<1>3. cut.active # cut.candidate
  BY UnderWay
<1> USE DEF Phases, ForwardPhases, CleanupPhases, RestoringPhases
<1>4. PhasesInOrder' /\ CandidateRuns' /\ PreviousRuns'
  BY <1>1, <1>3 DEF Inv, PhasesInOrder, CandidateRuns, PreviousRuns, BeforeSwitch
<1> QED BY <1>2, <1>4 DEF Inv, AbsentIsNotStopped, AuthorityIsNotStopped

(* Operations that change at most what the authoritative host admits.      *)
LEMMA QuietOperations ==
    ASSUME Inv, \/ Quiesce \/ Resume \/ Drain \/ RollbackBegins
                \/ \E p \in Phases : Attend(p) \/ Fail(p)
    PROVE  Inv'
<1>1. PICK p \in Phases, s \in Steps :
          /\ op[p] \notin {"unbegun", "done"} /\ s \notin {"unbegun", "begun"}
          /\ p = "start-candidate" => s # "done"
          /\ op' = [op EXCEPT ![p] = s]
          /\ UNCHANGED <<active, host, asked, cut, results, call, pc, failures, outcome, abandoned>>
          /\ quiesced' \subseteq Hosts
  <2> USE DEF Phases, ForwardPhases, CleanupPhases, RestoringPhases, Steps, Finish, driverVars,
          lifecycleVars, registryVars
  <2>0. active \in Hosts /\ quiesced \subseteq Hosts
    BY DEF Inv, TypeOK
  <2>1. CASE Quiesce
    <3> WITNESS "quiesce-active" \in Phases
    <3> QED BY <2>0, <2>1 DEF Quiesce
  <2>2. CASE Resume
    <3> WITNESS "resume-active" \in Phases
    <3> QED BY <2>0, <2>2 DEF Resume
  <2>3. CASE Drain
    <3> WITNESS "drain-active" \in Phases
    <3> QED BY <2>0, <2>3 DEF Drain
  <2>4. CASE RollbackBegins
    <3> WITNESS "rollback-traffic" \in Phases
    <3> QED BY <2>0, <2>4 DEF RollbackBegins
  <2>5. ASSUME NEW p \in Phases, Attend(p)
        PROVE  \E s \in Steps :
                  /\ op[p] \notin {"unbegun", "done"} /\ s \notin {"unbegun", "begun"}
                  /\ p = "start-candidate" => s # "done"
                  /\ op' = [op EXCEPT ![p] = s]
                  /\ UNCHANGED <<active, host, asked, cut, results, call, pc, failures, outcome,
                                 abandoned>>
                  /\ quiesced' \subseteq Hosts
    BY <2>0, <2>5 DEF Attend
  <2>6. ASSUME NEW p \in Phases, Fail(p)
        PROVE  \E s \in Steps :
                  /\ op[p] \notin {"unbegun", "done"} /\ s \notin {"unbegun", "begun"}
                  /\ p = "start-candidate" => s # "done"
                  /\ op' = [op EXCEPT ![p] = s]
                  /\ UNCHANGED <<active, host, asked, cut, results, call, pc, failures, outcome,
                                 abandoned>>
                  /\ quiesced' \subseteq Hosts
    BY <2>0, <2>6 DEF Fail
  <2> QED BY <2>1, <2>2, <2>3, <2>4, <2>5, <2>6
<1> QED BY <1>1, ProgressKeeps

(* A switch, back or forth, is to a host that runs.                        *)
LEMMA SwitchKeeps ==
    ASSUME Inv, SwitchTraffic \/ RollbackSwitches
    PROVE  Inv'
<1> USE DEF Phases, ForwardPhases, CleanupPhases, RestoringPhases, registryVars, lifecycleVars,
        driverVars
<1>1. /\ op \in [Phases -> Steps] /\ quiesced \subseteq Hosts
      /\ cut.active \in Hosts /\ cut.candidate \in Hosts
  BY DEF Inv, TypeOK
<1>2. CASE SwitchTraffic
  <2>1. /\ op["switch-traffic"] = "begun"
        /\ \/ active' = cut.candidate /\ active = cut.active /\ quiesced' = quiesced \ {cut.candidate}
           \/ active' = active /\ quiesced' = quiesced
        /\ \E s \in {"done", "failed"} : op' = [op EXCEPT !["switch-traffic"] = s]
        /\ UNCHANGED <<call, host, asked, cut, results, pc, failures, outcome, abandoned>>
    BY <1>2 DEF SwitchTraffic, SwitchActive, Finish
  <2>2. op' \in [Phases -> Steps]
    BY <1>1, <2>1 DEF Steps
  <2>3. TypeOK'
    BY <1>1, <2>1, <2>2 DEF Inv, TypeOK
  <2>4. cut.active # cut.candidate
    BY <2>1, UnderWay
  <2>5. PhasesInOrder' /\ CandidateRuns' /\ AbsentIsNotStopped'
    BY <1>1, <2>1 DEF Inv, PhasesInOrder, CandidateRuns, AbsentIsNotStopped, BeforeSwitch
  <2>6. op["stop-candidate"] = "unbegun" /\ op["start-candidate"] = "done"
    BY <2>1 DEF Inv, PhasesInOrder, BeforeSwitch
  <2>7. PreviousRuns'
    BY <1>1, <2>1, <2>4 DEF Inv, PreviousRuns, AuthorityIsNotStopped
  <2>8. AuthorityIsNotStopped'
    BY <2>1, <2>4, <2>6 DEF Inv, CandidateRuns, AuthorityIsNotStopped
  <2> QED BY <2>3, <2>5, <2>7, <2>8 DEF Inv
<1>3. CASE RollbackSwitches
  <2>1. /\ op["rollback-traffic"] = "draining" /\ pc = "rollback-traffic"
        /\ \/ active' = cut.active /\ active = cut.candidate /\ quiesced' = quiesced \ {cut.active}
           \/ active' = active /\ quiesced' = quiesced
        /\ \E s \in {"done", "failed"} : op' = [op EXCEPT !["rollback-traffic"] = s]
        /\ UNCHANGED <<call, host, asked, cut, results, pc, failures, outcome, abandoned>>
    BY <1>3 DEF RollbackSwitches, SwitchActive, Finish
  <2>2. op' \in [Phases -> Steps]
    BY <1>1, <2>1 DEF Steps
  <2>3. TypeOK'
    BY <1>1, <2>1, <2>2 DEF Inv, TypeOK
  <2>4. cut.active # cut.candidate
    BY <2>1, UnderWay
  <2>5. PhasesInOrder' /\ CandidateRuns' /\ AbsentIsNotStopped'
    BY <1>1, <2>1 DEF Inv, PhasesInOrder, CandidateRuns, AbsentIsNotStopped, BeforeSwitch
  <2>6. op["stop-previous"] = "unbegun"
    BY <2>1 DEF Inv, PhasesInOrder
  <2>7. PreviousRuns' /\ AuthorityIsNotStopped'
    BY <1>1, <2>1, <2>4, <2>6 DEF Inv, PreviousRuns, AuthorityIsNotStopped
  <2> QED BY <2>3, <2>5, <2>7 DEF Inv
<1> QED BY <1>2, <1>3

(* What is asked of the lifecycle spares the authoritative host.           *)
LEMMA AskKeeps ==
    ASSUME Inv, NEW p \in LifecyclePhases, Ask(p)
    PROVE  Inv'
<1> USE DEF Phases, ForwardPhases, CleanupPhases, RestoringPhases
<1>0. /\ p \in Phases /\ op[p] = "begun"
      /\ UNCHANGED <<active, quiesced, call, host, results, cut, pc, failures, outcome, abandoned>>
  BY DEF Ask, LifecyclePhases, registryVars, driverVars
<1>1. CASE ~MayAsk(p)
  <2>1. UNCHANGED asked /\ op' = [op EXCEPT ![p] = "failed"]
    BY <1>1 DEF Ask, Finish
  <2>2. quiesced' \subseteq Hosts
    BY <1>0 DEF Inv, TypeOK
  <2> HIDE DEF Phases, ForwardPhases, CleanupPhases, RestoringPhases
  <2> QED BY <1>0, <2>1, <2>2, ProgressKeeps DEF Steps
<1>2. CASE MayAsk(p)
  <2>1. asked' = asked \cup {Request(p)} /\ op' = [op EXCEPT ![p] = "asked"]
    BY <1>2 DEF Ask
  <2>2. op \in [Phases -> Steps] /\ cut.active \in Hosts /\ cut.candidate \in Hosts
    BY DEF Inv, TypeOK
  <2>3. Request(p) \in {"start", "stop"} \X Hosts
    BY <2>2 DEF Request, LifecyclePhases
  <2>4. op' \in [Phases -> Steps]
    BY <2>1, <2>2 DEF Steps
  <2>5. TypeOK'
    BY <1>0, <2>1, <2>3, <2>4 DEF Inv, TypeOK
  <2>6. cut.active # cut.candidate
    BY <1>0, UnderWay
  <2>7. PhasesInOrder'
    BY <1>0, <2>1, <2>2 DEF Inv, PhasesInOrder, BeforeSwitch
  <2>8. CASE p = "start-candidate"
    <3>1. Request(p) = <<"start", cut.candidate>>
      BY <2>8 DEF Request
    <3>2. \A h \in Hosts : <<"stop", h>> \in asked' => <<"stop", h>> \in asked
      BY <2>1, <3>1
    <3> QED BY <1>0, <2>1, <2>2, <2>5, <2>6, <2>7, <2>8, <3>2 DEF Inv, CandidateRuns, PreviousRuns,
            AbsentIsNotStopped, AuthorityIsNotStopped, TypeOK
  <2>9. CASE p = "stop-candidate"
    <3>1. Request(p) = <<"stop", cut.candidate>>
      BY <2>9 DEF Request
    <3>2. active # cut.candidate
      BY <1>2, <2>9, <3>1 DEF MayAsk
    <3>3. \A h \in Hosts \ {cut.candidate} : <<"stop", h>> \in asked' => <<"stop", h>> \in asked
      BY <2>1, <3>1
    <3>4. host[cut.candidate] # "absent"
      BY <1>0, <2>9 DEF Inv, PhasesInOrder, CandidateRuns
    <3> QED BY <1>0, <2>1, <2>2, <2>5, <2>6, <2>7, <2>9, <3>2, <3>3, <3>4 DEF Inv, CandidateRuns,
            PreviousRuns, AbsentIsNotStopped, AuthorityIsNotStopped, TypeOK
  <2>10. CASE p = "stop-previous"
    <3>1. Request(p) = <<"stop", cut.active>>
      BY <2>10 DEF Request
    <3>2. active # cut.active
      BY <1>2, <2>10, <3>1 DEF MayAsk
    <3>3. \A h \in Hosts \ {cut.active} : <<"stop", h>> \in asked' => <<"stop", h>> \in asked
      BY <2>1, <3>1
    <3> QED BY <1>0, <2>1, <2>2, <2>5, <2>6, <2>7, <2>10, <3>2, <3>3 DEF Inv, CandidateRuns,
            PreviousRuns, AbsentIsNotStopped, AuthorityIsNotStopped, TypeOK
  <2> QED BY <2>8, <2>9, <2>10 DEF LifecyclePhases
<1> QED BY <1>1, <1>2

(* A process that stops was asked to, and one that starts was never stopped. *)
LEMMA AnswerKeeps ==
    ASSUME Inv, NEW kind \in {"start", "stop"}, NEW h \in Hosts, Answer(kind, h)
    PROVE  Inv'
<1> USE DEF Phases, ForwardPhases, CleanupPhases, RestoringPhases
<1>0. /\ <<kind, h>> \in asked /\ asked' = asked \ {<<kind, h>>}
      /\ UNCHANGED <<active, quiesced, call, results, cut, pc, failures, outcome, abandoned>>
  BY DEF Answer, registryVars, driverVars
<1>1. PICK succeeds \in BOOLEAN :
          /\ host' = IF ~succeeds THEN host
                     ELSE [host EXCEPT ![h] = IF kind = "start" THEN "running" ELSE "stopped"]
          /\ op' = [p \in Phases |->
                       IF /\ p \in LifecyclePhases /\ op[p] = "asked"
                          /\ Request(p) = <<kind, h>>
                       THEN IF succeeds THEN "done" ELSE "failed"
                       ELSE op[p]]
  BY DEF Answer
<1>2. op \in [Phases -> Steps] /\ host \in [Hosts -> {"absent", "running", "stopped"}]
  BY DEF Inv, TypeOK
<1>3. /\ op' \in [Phases -> Steps]
      /\ \A p \in Phases : op'[p] = op[p] \/ (op[p] = "asked" /\ op'[p] \in {"done", "failed"})
  BY <1>1, <1>2 DEF Steps
<1>4. \A p \in Phases \ LifecyclePhases : op'[p] = op[p]
  BY <1>1
<1>5. \/ op'["start-candidate"] = op["start-candidate"]
      \/ op'["start-candidate"] = "done" /\ host'[cut.candidate] = "running"
      \/ op'["start-candidate"] = "failed" /\ op["start-candidate"] = "asked"
  <2>1. CASE Request("start-candidate") = <<kind, h>> /\ op["start-candidate"] = "asked"
    <3>1. kind = "start" /\ h = cut.candidate
      BY <2>1 DEF Request
    <3>2. CASE succeeds = TRUE
      BY <1>1, <1>2, <2>1, <3>1, <3>2 DEF LifecyclePhases
    <3>3. CASE succeeds = FALSE
      BY <1>1, <1>2, <2>1, <3>3 DEF LifecyclePhases
    <3> QED BY <3>2, <3>3
  <2>2. CASE ~(Request("start-candidate") = <<kind, h>> /\ op["start-candidate"] = "asked")
    BY <1>1, <2>2
  <2> QED BY <2>1, <2>2
<1>6. /\ host' \in [Hosts -> {"absent", "running", "stopped"}]
      /\ \A g \in Hosts : \/ host'[g] = host[g]
                          \/ g = h /\ kind = "start" /\ host'[g] = "running"
                          \/ g = h /\ kind = "stop" /\ host'[g] = "stopped"
  BY <1>1, <1>2
<1>7. \A g \in Hosts : \/ host'[g] \in {host[g], "running"}
                       \/ host'[g] = "stopped" /\ <<"stop", g>> \in asked
  <2>1. CASE kind = "stop"
    BY <1>0, <1>6, <2>1
  <2>2. CASE kind = "start"
    BY <1>6, <2>2
  <2> QED BY <2>1, <2>2
<1>8. TypeOK'
  BY <1>0, <1>3, <1>6 DEF Inv, TypeOK
<1>9. PhasesInOrder'
  BY <1>0, <1>3, <1>4 DEF Inv, PhasesInOrder, BeforeSwitch, LifecyclePhases
<1>10. cut.active \in Hosts /\ cut.candidate \in Hosts /\ active \in Hosts
  BY DEF Inv, TypeOK
<1>11. cut.active = cut.candidate => op' = op
  BY <1>1, <1>2 DEF Inv, PreviousRuns, Unbegun
<1>12. CandidateRuns'
  <2>1. op'["stop-candidate"] = "unbegun" => op["stop-candidate"] = "unbegun"
    BY <1>3
  <2>2. CASE cut.active = cut.candidate
    BY <1>0, <1>7, <1>10, <1>11, <2>2 DEF Inv, CandidateRuns, PreviousRuns, Unbegun
  <2>3. CASE cut.active # cut.candidate
    BY <1>0, <1>3, <1>5, <1>7, <1>10, <2>1, <2>3 DEF Inv, CandidateRuns
  <2> QED BY <2>2, <2>3
<1>13. PreviousRuns'
  BY <1>0, <1>3, <1>7, <1>10, <1>11 DEF Inv, PreviousRuns
<1>14. AbsentIsNotStopped' /\ AuthorityIsNotStopped'
  BY <1>0, <1>7, <1>10 DEF Inv, AbsentIsNotStopped, AuthorityIsNotStopped
<1> QED BY <1>8, <1>9, <1>12, <1>13, <1>14 DEF Inv

(* A new cutover is to an instance that was never started.                 *)
LEMMA StartKeeps ==
    ASSUME Inv, NEW a \in Hosts, NEW h \in Hosts, Start(a, h)
    PROVE  Inv'
<1> USE DEF Phases, ForwardPhases, CleanupPhases, RestoringPhases
<1>1. /\ pc' = "start-candidate" /\ outcome' = "none"
      /\ failures' = FALSE /\ abandoned' = {}
      /\ op' = [Unbegun EXCEPT !["start-candidate"] = "begun"]
      /\ cut' = [active |-> a, candidate |-> h]
      /\ host[a] # "absent" /\ host[h] = "absent"
      /\ UNCHANGED <<active, quiesced, call, host, asked, results>>
  BY DEF Start, BeginCutover, registryVars, lifecycleVars
<1>2. /\ op' \in [Phases -> {"unbegun", "begun"}]
      /\ op'["start-candidate"] = "begun"
      /\ \A p \in Phases \ {"start-candidate"} : op'[p] = "unbegun"
  BY <1>1 DEF Unbegun
<1>3. op' \in [Phases -> Steps]
  BY <1>2 DEF Steps
<1>4. TypeOK'
  BY <1>1, <1>3 DEF Inv, TypeOK
<1>5. PhasesInOrder'
  BY <1>1, <1>2 DEF PhasesInOrder, BeforeSwitch
<1>6. active # h /\ a # h
  BY <1>1 DEF Inv, AuthorityIsNotStopped
<1>7. CandidateRuns' /\ PreviousRuns'
  BY <1>1, <1>2, <1>6 DEF Inv, CandidateRuns, PreviousRuns, AbsentIsNotStopped
<1> QED BY <1>1, <1>4, <1>5, <1>7 DEF Inv, AbsentIsNotStopped, AuthorityIsNotStopped

(* A receipt ends the cutover.                                             *)
LEMMA ReportKeeps ==
    ASSUME Inv, Report
    PROVE  Inv'
<1>1. /\ pc = "receipt" /\ pc' = "idle" /\ outcome' = "none"
      /\ results' = results \cup {outcome}
      /\ UNCHANGED <<op, failures, abandoned, active, quiesced, call, host, asked, cut>>
  BY DEF Report, ReceiptWritten, registryVars, lifecycleVars
<1>2. outcome \in Outcomes
  BY <1>1 DEF Inv, PhasesInOrder
<1>3. TypeOK'
  BY <1>1, <1>2 DEF Inv, TypeOK
<1> QED BY <1>1, <1>3 DEF Inv, PhasesInOrder, CandidateRuns, PreviousRuns, AbsentIsNotStopped,
        AuthorityIsNotStopped, BeforeSwitch, ForwardPhases, RestoringPhases

-----------------------------------------------------------------------------
(* Every step keeps the invariant.                                         *)
LEMMA StepKeeps ==
    ASSUME Inv, [Next]_vars
    PROVE  Inv'
<1>1. CASE \E c \in Calls : BeginCall(c) \/ FinishCall(c) \/ Reconcile(c)
  BY <1>1, CallsKeep
<1>2. CASE Operation
  BY <1>2, QuietOperations, SwitchKeeps, AskKeeps, AnswerKeeps DEF Operation, PromptOperation
<1>3. CASE \E a, h \in Hosts : Start(a, h)
  BY <1>3, StartKeeps
<1>4. CASE CoordinatorStep \/ Report
  BY <1>4, CoordinateKeeps, ReportKeeps
<1>5. CASE UNCHANGED vars
  BY <1>5 DEF vars, ownVars, registryVars, lifecycleVars, coordinatorVars, Inv, TypeOK,
     PhasesInOrder, CandidateRuns, PreviousRuns, AbsentIsNotStopped, AuthorityIsNotStopped
<1> QED BY <1>1, <1>2, <1>3, <1>4, <1>5 DEF Next

LEMMA Invariance == Spec => []Inv
<1>1. Init => Inv
  BY InitInv
<1>2. Inv /\ [Next]_vars => Inv'
  BY StepKeeps
<1> QED BY <1>1, <1>2, PTL DEF Spec

(* Every variable of the coordinator, the registry and the lifecycle always has a value of *)
(* its kind.                                                               *)
THEOREM TypeCorrect == Spec => []TypeOK
<1>1. Inv => TypeOK
  BY DEF Inv
<1> QED BY <1>1, Invariance, PTL

(* No callback of any cutover, however late, stops the authoritative host. *)
THEOREM AuthorityRuns == Spec => []AuthorityIsNotStopped
<1>1. Inv => AuthorityIsNotStopped
  BY DEF Inv
<1> QED BY <1>1, Invariance, PTL

-----------------------------------------------------------------------------
(* A step that does not switch moves no call and begins one only at the    *)
(* authoritative host.                                                     *)
LEMMA WorkStays ==
    ASSUME TypeOK, WorkIsAtAuthority, [Next]_vars
    PROVE  WorkIsAtAuthority'
<1> USE DEF registryVars, lifecycleVars, driverVars, ownVars
<1>1. call \in [Calls -> [state : {"free", "inFlight", "unknown"}, at : Hosts]]
  BY DEF TypeOK
<1>2. ASSUME NEW c \in Calls, BeginCall(c) \/ FinishCall(c) \/ Reconcile(c)
      PROVE  WorkIsAtAuthority'
  BY <1>1, <1>2 DEF BeginCall, FinishCall, Reconcile, WorkIsAtAuthority
<1>3. CASE SwitchTraffic \/ RollbackSwitches
  <2>1. PICK p \in Phases, from \in Hosts, to \in Hosts : SwitchActive(p, from, to)
    BY <1>3 DEF SwitchTraffic, RollbackSwitches, Phases, ForwardPhases, CleanupPhases,
       RestoringPhases, TypeOK
  <2>2. /\ call' = call
        /\ active' = active \/ (active = from /\ Drained(from))
    BY <2>1 DEF SwitchActive
  <2>3. Drained(active) => \A c \in Calls : call[c].state = "free"
    BY <1>1 DEF Drained, InFlightAt, UnknownAt, WorkIsAtAuthority
  <2> QED BY <2>2, <2>3 DEF WorkIsAtAuthority
<1>4. CASE \/ Quiesce \/ Resume \/ Drain \/ RollbackBegins
           \/ \E p \in Phases : Attend(p) \/ Fail(p)
           \/ \E p \in LifecyclePhases : Ask(p)
           \/ \E kind \in {"start", "stop"}, h \in Hosts : Answer(kind, h)
           \/ \E a, h \in Hosts : Start(a, h)
           \/ CoordinatorStep \/ Report \/ UNCHANGED vars
  <2>1. call' = call /\ active' = active
    BY <1>4 DEF Quiesce, Resume, Drain, RollbackBegins, Attend, Fail, Ask, Answer, Start,
       CoordinatorStep, Report, vars
  <2> QED BY <2>1 DEF WorkIsAtAuthority
<1> QED BY <1>2, <1>3, <1>4 DEF Next, Operation, PromptOperation

(* No switch, forth or back, leaves a call behind: those in flight and those of which     *)
(* nobody knows whether they had their effect are at the authoritative host.              *)
THEOREM NoWorkIsLeft == Spec => []WorkIsAtAuthority
<1>1. Init => WorkIsAtAuthority
  BY DEF Init, WorkIsAtAuthority
<1>2. TypeOK /\ WorkIsAtAuthority /\ [Next]_vars => WorkIsAtAuthority'
  BY WorkStays
<1> QED BY <1>1, <1>2, TypeCorrect, PTL DEF Spec

-----------------------------------------------------------------------------
(* A quiescence is lifted by the cutover that imposed it, or the cutover fails. *)

BeforeQuiescence == {"start-candidate", "candidate-health"}
UntilSwitch == {"quiesce-active", "drain-active", "checkpoint-active", "switch-traffic"}

(* A cutover has failed, or will say so in its receipt.                    *)
HasFailed ==
    \/ "failed" \in results
    \/ pc \in RestoringPhases /\ failures
    \/ pc = "receipt" /\ outcome = "failed"

(* The phases that quiesce, switch and undo come in their order.           *)
UndoInOrder ==
    /\ op["quiesce-active"] = "begun" => pc = "quiesce-active"
    /\ op["resume-active"] = "begun" => pc = "resume-active"
    /\ pc \in BeforeQuiescence => op["quiesce-active"] = "unbegun"
    /\ pc \in ForwardPhases \ {"switch-traffic", "candidate-canary", "commit-candidate"}
          => op["switch-traffic"] = "unbegun"
    /\ pc \in ForwardPhases
          => op["rollback-traffic"] = "unbegun" /\ op["resume-active"] = "unbegun"
    /\ pc \in UntilSwitch \ {"quiesce-active"} => op["quiesce-active"] = "done"
    /\ pc \in {"candidate-canary", "commit-candidate", "rollback-traffic"}
          => op["switch-traffic"] = "done"
    /\ op["switch-traffic"] # "unbegun" => op["quiesce-active"] = "done"
    /\ pc = "resume-active" => op["quiesce-active"] = "done"

(* Where the authority is, once the host was quiesced.                     *)
Located ==
    /\ op["quiesce-active"] = "done" /\ op["switch-traffic"] # "done" => active = cut.active
    /\ op["switch-traffic"] = "done" /\ op["rollback-traffic"] = "unbegun"
          => active = cut.candidate
    /\ op["rollback-traffic"] = "done" => active = cut.active

(* The authoritative host is quiesced only where the cutover is still to switch or to     *)
(* resume, unless one has failed.                                          *)
Lifted ==
    ~HasFailed =>
        /\ op["rollback-traffic"] \in {"begun", "draining"} => pc = "rollback-traffic"
        /\ pc = "resume-active" => active = cut.active
        /\ active \in quiesced =>
              \/ /\ pc \in UntilSwitch
                 /\ op["quiesce-active"] = "done" /\ op["switch-traffic"] # "done"
              \/ pc = "rollback-traffic" /\ op["rollback-traffic"] \in {"draining", "failed"}
              \/ pc = "resume-active" /\ op["resume-active"] = "begun"

AdmitInv == UndoInOrder /\ Located /\ Lifted

(* The phases whose operations quiesce, switch and undo.                   *)
Watched == {"quiesce-active", "switch-traffic", "rollback-traffic", "resume-active"}

(* An operation of any other phase does not matter.                        *)
LEMMA ElsewhereKeeps ==
    ASSUME AdmitInv, \A p \in Watched : op'[p] = op[p],
           UNCHANGED <<active, quiesced, cut, results, pc, failures, outcome>>
    PROVE  AdmitInv'
BY DEF AdmitInv, UndoInOrder, Located, Lifted, HasFailed, Watched

(* The rollback is the first of the cleanup phases that are due, the resumption the next. *)
LEMMA CleanUpInOrder ==
    ASSUME NEW left \in SUBSET RestoringPhases, NEW failed \in BOOLEAN, CleanUp(left, failed)
    PROVE  /\ failures' = failed
           /\ \/ /\ pc' \in left /\ Due(pc')
                 /\ op' = [op EXCEPT ![pc'] = "begun"]
              \/ /\ pc' = "receipt" /\ op' = op
                 /\ failed => outcome' = "failed"
           /\ "rollback-traffic" \in left /\ Due("rollback-traffic") => pc' = "rollback-traffic"
           /\ "resume-active" \in left /\ Due("resume-active")
                 => pc' \in {"rollback-traffic", "resume-active"}
<1> DEFINE next == NextCleanup(left)
<1>1. /\ next = "receipt" \/ (next \in left /\ Due(next) /\ next # "receipt")
      /\ "rollback-traffic" \in left /\ Due("rollback-traffic") => next = "rollback-traffic"
      /\ "resume-active" \in left /\ Due("resume-active")
            => next \in {"rollback-traffic", "resume-active"}
  BY DEF RestoringPhases, NextCleanup
<1>2. /\ pc' = next
      /\ op' = IF next = "receipt" THEN op ELSE [op EXCEPT ![next] = "begun"]
      /\ failures' = failed
      /\ outcome' = IF next # "receipt" THEN "none" ELSE IF failed THEN "failed" ELSE "rolled-back"
  BY DEF CleanUp
<1> HIDE DEF next
<1>3. next = "receipt" /\ failed => outcome' = "failed"
  BY <1>2
<1> QED BY <1>1, <1>2, <1>3

(* The coordinator lifts what it imposed, or fails.                        *)
LEMMA CoordinateAdmits ==
    ASSUME TypeOK, AdmitInv, CoordinatorStep
    PROVE  AdmitInv'
<1>1. /\ UNCHANGED <<active, quiesced, cut, results>>
      /\ op \in [Phases -> Steps]
      /\ Coordinate
  BY DEF CoordinatorStep, ownVars, registryVars, TypeOK
<1> USE DEF Phases, ForwardPhases, CleanupPhases, RestoringPhases, UntilSwitch, BeforeQuiescence
<1>2. CASE Advance
  <2>1. /\ pc \in ForwardPhases /\ op[pc] = "done" /\ pc' = PhaseAfter(pc)
        /\ op' = [op EXCEPT ![pc'] = "begun"] /\ UNCHANGED <<failures, outcome>>
    BY <1>2 DEF Advance, Enter
  <2>2. UndoInOrder'
    BY <1>1, <2>1 DEF AdmitInv, UndoInOrder, PhaseAfter
  <2>3. Located'
    BY <1>1, <2>1 DEF AdmitInv, UndoInOrder, Located, PhaseAfter
  <2>4. Lifted'
    BY <1>1, <2>1 DEF AdmitInv, UndoInOrder, Located, Lifted, HasFailed, PhaseAfter
  <2> QED BY <2>2, <2>3, <2>4 DEF AdmitInv
<1>3. CASE RejectCandidate
  <2>1. /\ pc = "start-candidate" /\ pc' = "stop-candidate"
        /\ op' = [op EXCEPT !["stop-candidate"] = "begun"] /\ UNCHANGED <<failures, outcome>>
    BY <1>3 DEF RejectCandidate, Enter
  <2> QED BY <1>1, <2>1 DEF AdmitInv, UndoInOrder, Located, Lifted, HasFailed
<1>4. CASE GiveUp
  <2>1. CleanUp(RestoringPhases, FALSE) /\ pc \in ForwardPhases
    BY <1>4 DEF GiveUp
  <2>2. /\ failures' = FALSE
        /\ \/ /\ pc' \in RestoringPhases /\ Due(pc')
              /\ op' = [op EXCEPT ![pc'] = "begun"]
           \/ pc' = "receipt" /\ op' = op
        /\ Due("rollback-traffic") => pc' = "rollback-traffic"
        /\ Due("resume-active") => pc' \in {"rollback-traffic", "resume-active"}
    <3>1. /\ "rollback-traffic" \in RestoringPhases /\ "resume-active" \in RestoringPhases
          /\ RestoringPhases \in SUBSET RestoringPhases
      OBVIOUS
    <3> HIDE DEF RestoringPhases
    <3> QED BY <2>1, <3>1, CleanUpInOrder
  <2>3. pc \in {"quiesce-active", "switch-traffic"} => op[pc] # "begun"
    BY <1>4, PromptPhasesAssumption DEF GiveUp, WaitEnds, PromptPhases
  <2>4. UndoInOrder'
    BY <1>1, <2>1, <2>2, <2>3 DEF AdmitInv, UndoInOrder, Due
  <2>5. Located'
    BY <1>1, <2>1, <2>2 DEF AdmitInv, UndoInOrder, Located, Due
  <2>6. Lifted'
    BY <1>1, <2>1, <2>2, <2>3 DEF AdmitInv, UndoInOrder, Located, Lifted, HasFailed, Due
  <2> QED BY <2>4, <2>5, <2>6 DEF AdmitInv
<1>5. CASE CleanupEnds
  <2>1. PICK failed \in {failures, TRUE} :
            /\ CleanUp(CleanupAfter(pc), failed) /\ pc \in RestoringPhases
            /\ op[pc] # "done" => failed = TRUE
    BY <1>5 DEF CleanupEnds, WaitEnds, IsRunning, Ended
  <2>2. failed \in BOOLEAN /\ CleanupAfter(pc) \in SUBSET RestoringPhases
    BY <2>1 DEF TypeOK, CleanupAfter
  <2>3. /\ failures' = failed
        /\ \/ /\ pc' \in CleanupAfter(pc) /\ Due(pc')
              /\ op' = [op EXCEPT ![pc'] = "begun"]
           \/ /\ pc' = "receipt" /\ op' = op
              /\ failed => outcome' = "failed"
        /\ "resume-active" \in CleanupAfter(pc) /\ Due("resume-active")
              => pc' \in {"rollback-traffic", "resume-active"}
    BY <2>1, <2>2, CleanUpInOrder
  <2>4. pc = "resume-active" => op[pc] # "begun"
    BY <1>5, PromptPhasesAssumption DEF CleanupEnds, WaitEnds, PromptPhases
  <2>5. UndoInOrder'
    BY <1>1, <2>1, <2>3, <2>4 DEF AdmitInv, UndoInOrder, Due, CleanupAfter
  <2>6. Located'
    BY <1>1, <2>1, <2>3 DEF AdmitInv, UndoInOrder, Located, Due, CleanupAfter
  <2>7. Lifted'
    BY <1>1, <2>1, <2>2, <2>3, <2>4
    DEF AdmitInv, UndoInOrder, Located, Lifted, HasFailed, Due, CleanupAfter
  <2> QED BY <2>5, <2>6, <2>7 DEF AdmitInv
<1>6. CASE Retired
  BY <1>1, <1>6 DEF Retired, AdmitInv, UndoInOrder, Located, Lifted, HasFailed
<1> QED BY <1>1, <1>2, <1>3, <1>4, <1>5, <1>6 DEF Coordinate

(* What the operations do is what the phases take them to do.              *)
LEMMA OperationAdmits ==
    ASSUME TypeOK, Inv, AdmitInv, Operation
    PROVE  AdmitInv'
<1> USE DEF Phases, ForwardPhases, CleanupPhases, RestoringPhases, UntilSwitch, Watched,
        driverVars, lifecycleVars, registryVars
<1>1. op \in [Phases -> Steps]
  BY DEF TypeOK
<1>2. CASE Quiesce
  <2>1. /\ op["quiesce-active"] = "begun"
        /\ \/ /\ active = cut.active /\ quiesced' = quiesced \cup {active}
              /\ op' = [op EXCEPT !["quiesce-active"] = "done"]
           \/ /\ active # cut.active /\ quiesced' = quiesced
              /\ op' = [op EXCEPT !["quiesce-active"] = "failed"]
        /\ UNCHANGED <<active, cut, results, pc, failures, outcome>>
    BY <1>2 DEF Quiesce, Finish
  <2> QED BY <1>1, <2>1 DEF AdmitInv, UndoInOrder, Located, Lifted, HasFailed
<1>3. CASE SwitchTraffic
  <2>1. /\ op["switch-traffic"] = "begun"
        /\ \/ /\ active' = cut.candidate /\ quiesced' = quiesced \ {cut.candidate}
              /\ op' = [op EXCEPT !["switch-traffic"] = "done"]
           \/ /\ active' = active /\ quiesced' = quiesced
              /\ op' = [op EXCEPT !["switch-traffic"] = "failed"]
        /\ UNCHANGED <<cut, results, pc, failures, outcome>>
    BY <1>3 DEF SwitchTraffic, SwitchActive, Finish
  <2>2. pc = "switch-traffic"
    BY <2>1 DEF Inv, PhasesInOrder
  <2> QED BY <1>1, <2>1, <2>2 DEF AdmitInv, UndoInOrder, Located, Lifted, HasFailed
<1>4. CASE Resume
  <2>1. /\ op["resume-active"] = "begun"
        /\ \/ /\ active = cut.active /\ quiesced' = quiesced \ {active}
              /\ op' = [op EXCEPT !["resume-active"] = "done"]
           \/ /\ active # cut.active /\ quiesced' = quiesced
              /\ op' = [op EXCEPT !["resume-active"] = "failed"]
        /\ UNCHANGED <<active, cut, results, pc, failures, outcome>>
    BY <1>4 DEF Resume, Finish
  <2> QED BY <1>1, <2>1 DEF AdmitInv, UndoInOrder, Located, Lifted, HasFailed
<1>5. CASE RollbackBegins
  <2>1. /\ op["rollback-traffic"] = "begun"
        /\ \/ /\ quiesced' = quiesced \cup {active}
              /\ op' = [op EXCEPT !["rollback-traffic"] = "draining"]
           \/ /\ quiesced' = quiesced
              /\ op' = [op EXCEPT !["rollback-traffic"] = "failed"]
        /\ UNCHANGED <<active, cut, results, pc, failures, outcome>>
    BY <1>5 DEF RollbackBegins
  <2> QED BY <1>1, <2>1 DEF AdmitInv, UndoInOrder, Located, Lifted, HasFailed
<1>6. CASE RollbackSwitches
  <2>1. /\ op["rollback-traffic"] = "draining" /\ pc = "rollback-traffic"
        /\ \/ /\ active' = cut.active /\ quiesced' = quiesced \ {cut.active}
              /\ op' = [op EXCEPT !["rollback-traffic"] = "done"]
           \/ /\ active' = active /\ quiesced' = quiesced
              /\ op' = [op EXCEPT !["rollback-traffic"] = "failed"]
        /\ UNCHANGED <<cut, results, pc, failures, outcome>>
    BY <1>6 DEF RollbackSwitches, SwitchActive, Finish
  <2> QED BY <1>1, <2>1 DEF AdmitInv, UndoInOrder, Located, Lifted, HasFailed
<1>7. CASE Fail("rollback-traffic")
  <2>1. /\ op["rollback-traffic"] \in {"begun", "draining"}
        /\ op' = [op EXCEPT !["rollback-traffic"] = "failed"]
        /\ UNCHANGED <<active, quiesced, cut, results, pc, failures, outcome>>
    BY <1>7 DEF Fail, Finish
  <2> QED BY <1>1, <2>1 DEF AdmitInv, UndoInOrder, Located, Lifted, HasFailed
<1>8. CASE \/ Drain
           \/ \E p \in LifecyclePhases : Ask(p)
           \/ \E kind \in {"start", "stop"}, h \in Hosts : Answer(kind, h)
           \/ \E p \in Phases : Attend(p) \/ (p # "rollback-traffic" /\ Fail(p))
  <2>1. UNCHANGED <<active, quiesced, cut, results, pc, failures, outcome>>
    BY <1>8 DEF Drain, Ask, Answer, Attend, Fail
  <2>2. \A q \in Watched : op'[q] = op[q]
    <3>1. CASE Drain
      BY <1>1, <3>1 DEF Drain, Finish
    <3>2. ASSUME NEW p \in LifecyclePhases, Ask(p)
          PROVE  \A q \in Watched : op'[q] = op[q]
      BY <1>1, <3>2 DEF Ask, Finish, LifecyclePhases
    <3>3. ASSUME NEW kind \in {"start", "stop"}, NEW h \in Hosts, Answer(kind, h)
          PROVE  \A q \in Watched : op'[q] = op[q]
      <4>1. PICK succeeds \in BOOLEAN :
                op' = [p \in Phases |->
                          IF /\ p \in LifecyclePhases /\ op[p] = "asked"
                             /\ Request(p) = <<kind, h>>
                          THEN IF succeeds THEN "done" ELSE "failed"
                          ELSE op[p]]
        BY <3>3 DEF Answer
      <4> QED BY <4>1 DEF LifecyclePhases
    <3>4. ASSUME NEW p \in Phases, Attend(p)
          PROVE  \A q \in Watched : op'[q] = op[q]
      BY <1>1, <3>4 DEF Attend, Finish
    <3>5. ASSUME NEW p \in Phases, p # "rollback-traffic", Fail(p)
          PROVE  \A q \in Watched : op'[q] = op[q]
      BY <1>1, <3>5, PromptPhasesAssumption DEF Fail, Finish, PromptPhases
    <3> QED BY <1>8, <3>1, <3>2, <3>3, <3>4, <3>5
  <2> QED BY <2>1, <2>2, ElsewhereKeeps
<1> QED BY <1>2, <1>3, <1>4, <1>5, <1>6, <1>7, <1>8 DEF Operation, PromptOperation

(* No step breaks it.                                                      *)
LEMMA StepAdmits ==
    ASSUME TypeOK, Inv, AdmitInv, [Next]_vars
    PROVE  AdmitInv'
<1>1. CASE \/ \E c \in Calls : BeginCall(c) \/ FinishCall(c) \/ Reconcile(c)
           \/ UNCHANGED vars
  <2>1. UNCHANGED <<active, quiesced, cut, results, pc, failures, outcome, op>>
    BY <1>1 DEF BeginCall, FinishCall, Reconcile, vars, ownVars, coordinatorVars, registryVars
  <2> QED BY <2>1, ElsewhereKeeps
<1>2. ASSUME NEW a \in Hosts, NEW h \in Hosts, Start(a, h)
      PROVE  AdmitInv'
  <2>1. /\ pc = "idle" /\ pc' = "start-candidate" /\ outcome' = "none"
        /\ op' = [Unbegun EXCEPT !["start-candidate"] = "begun"]
        /\ UNCHANGED <<active, quiesced, results>>
    BY <1>2 DEF Start, BeginCutover, registryVars
  <2>2. \A p \in Watched : op'[p] = "unbegun"
    BY <2>1 DEF Unbegun, Watched, Phases, ForwardPhases, CleanupPhases, RestoringPhases
  <2> QED BY <2>1, <2>2 DEF AdmitInv, UndoInOrder, Located, Lifted, HasFailed, Watched,
          RestoringPhases, UntilSwitch, ForwardPhases
<1>3. CASE Report
  <2>1. /\ pc = "receipt" /\ pc' = "idle"
        /\ results' = results \cup {outcome}
        /\ UNCHANGED <<active, quiesced, cut, op>>
    BY <1>3 DEF Report, ReceiptWritten, registryVars
  <2> QED BY <2>1 DEF AdmitInv, UndoInOrder, Located, Lifted, HasFailed, RestoringPhases,
          UntilSwitch, ForwardPhases, BeforeQuiescence
<1> QED BY <1>1, <1>2, <1>3, CoordinateAdmits, OperationAdmits DEF Next

(* Between cutovers the authoritative host admits calls, unless a cutover reported that it *)
(* failed: no abort, deadline or error leaves a quiescence behind.         *)
THEOREM CallsAreAdmitted == Spec => []AdmitsBetweenCutovers
<1>1. Init => AdmitInv
  <2> SUFFICES ASSUME Init PROVE AdmitInv
    OBVIOUS
  <2>1. \A p \in Watched : op[p] = "unbegun"
    BY DEF Init, CoordinatorInit, Unbegun, Watched, Phases, ForwardPhases, CleanupPhases,
       RestoringPhases
  <2> QED BY <2>1 DEF Init, CoordinatorInit, AdmitInv, UndoInOrder, Located, Lifted, HasFailed,
          Watched, ForwardPhases, UntilSwitch, BeforeQuiescence
<1>2. TypeOK /\ Inv /\ AdmitInv /\ [Next]_vars => AdmitInv'
  BY StepAdmits
<1>3. AdmitInv => AdmitsBetweenCutovers
  BY DEF AdmitInv, Lifted, HasFailed, AdmitsBetweenCutovers, RestoringPhases, UntilSwitch
<1> QED BY <1>1, <1>2, <1>3, Invariance, TypeCorrect, PTL DEF Spec
=============================================================================
