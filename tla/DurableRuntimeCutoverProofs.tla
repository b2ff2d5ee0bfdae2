---------------------- MODULE DurableRuntimeCutoverProofs ----------------------
(***************************************************************************)
(* Proofs about DurableRuntimeCutover, for any instances and releases: a   *)
(* receipt "committed" of the coordinator is true for as long as it        *)
(* stands, also beside what earlier cutovers left running.  So is a        *)
(* receipt "rolled-back" of a cutover on its own: of the recovery whatever *)
(* had happened before, of the coordinator unless it left a loose end.     *)
(***************************************************************************)
EXTENDS DurableRuntimeCutover, TLAPS

(* The two hosts of a cutover differ, and so do their releases.            *)
NothingBegan == op = Unbegun /\ pc = "idle" /\ ledger.phase = "none" /\ ledger.receipt = "none"

Distinct ==
    /\ release[cut.active] # None /\ release[cut.candidate] # None
    /\ \/ cut.active # cut.candidate /\ release[cut.active] # release[cut.candidate]
       \/ NothingBegan

(* The active host is unharmed when it runs as it did before.              *)
Unharmed == cut.ran => host[cut.active] = "running"

(* The cutovers of which more is known than that their state is possible.  *)
Trusted == driver = "cutover" \/ OnItsOwn

(* The route is between the two hosts.                                     *)
Between ==
    OnItsOwn =>
      /\ route.active \in {cut.active, cut.candidate}
      /\ route.active = cut.candidate => route.previous \in {cut.active, None}

(* A mutation of the route whose comparison will succeed starts from the   *)
(* route that it expects.                                                  *)
Compared ==
    /\ \A p \in RoutePhases : seen[p] <= route.generation
    /\ Trusted =>
      /\ seen["switch-traffic"] = route.generation =>
           /\ op["switch-traffic"] = "persist" => route.active = cut.active
           /\ op["switch-traffic"] \in {"apply", "undo"} => route.active = cut.candidate
      /\ seen["rollback-traffic"] = route.generation /\ op["rollback-traffic"] = "persist"
           => route.active = cut.candidate
      /\ seen["commit-candidate"] = route.generation /\ op["commit-candidate"] = "persist"
           => route.active = cut.candidate

(* While nothing was given up, only the operation of the present phase     *)
(* runs; a recovery gives up at most one.                                  *)
Alone ==
    /\ pc \in ForwardPhases \cup {"stop-previous"} =>
         \A p \in Phases : IsRunning(p) => p = pc
    /\ driver = "recovery" =>
         /\ pc \in Phases => \A p \in Phases : IsRunning(p) => p = pc
         /\ \A p, q \in Phases : IsRunning(p) /\ IsRunning(q) => p = q
         /\ \A p \in ForwardPhases \ {"commit-candidate"} : op[p] = "unbegun"
         /\ op["commit-candidate"] # "unbegun" => \A p \in RestoringPhases : op[p] = "unbegun"

(* While the candidate is started, or once it was turned away for being the *)
(* active host, no other phase but its stop begins.                        *)
Unentered ==
    driver = "cutover" /\ (op["start-candidate"] \in {"begun", "act"} \/ cut.reused) =>
      /\ \A p \in Phases \ {"start-candidate", "stop-candidate"} : op[p] = "unbegun"
      /\ pc \in {"start-candidate", "stop-candidate", "receipt", "idle"}

(* A cutover that goes on has no receipt.                                  *)
Unsettled ==
    /\ pc \in Phases => ledger.receipt = "none"
    /\ pc = "receipt" => outcome \in Outcomes

Committed ==
    /\ route.active = cut.candidate /\ route.previous = None
    /\ host[cut.candidate] = "running"

(* How far the commit is, from the operation's progress.                   *)
Committing ==
    /\ op["commit-candidate"] \in
         (IF driver = "cutover" THEN {"act", "check"} ELSE {"verify", "apply"})
         \cup {"unbegun", "begun", "persist", "done", "failed"}
    /\ driver = "cutover" /\ pc = "commit-candidate" =>
         /\ op["commit-candidate"] \in {"check", "persist"} => host[cut.candidate] = "running"
         /\ op["commit-candidate"] = "done" => Committed
    /\ driver = "recovery" /\ OnItsOwn =>
         /\ op["commit-candidate"] \in {"verify", "begun", "persist"}
              => route.active = cut.candidate
         /\ op["commit-candidate"] \in {"begun", "persist"} => host[cut.candidate] = "running"
         /\ op["commit-candidate"] \in {"apply", "done"} => Committed

(* Once committed, nothing that could take it back is under way.           *)
CommitStands ==
    /\ Trusted
    /\ \/ pc = "stop-previous"
       \/ pc = "receipt" /\ outcome = "committed"
       \/ ledger.receipt = "committed"
    => /\ Committed
       /\ \A p \in Phases \ {"stop-previous"} : ~IsRunning(p)

(* Every host that the route or an operation of an earlier driver names    *)
(* was made, and is none that the coordinator now makes.                   *)
Made ==
    /\ release[route.active] # None
    /\ route.previous # None => release[route.previous] # None
    /\ \A l \in left :
         /\ release[l.active] # None /\ release[l.candidate] # None
         /\ driver = "cutover" => l.active # cut.candidate /\ l.candidate # cut.candidate

(* What an operation of an earlier driver may still write: its revision, or *)
(* the one that takes a switch back.                                       *)
MayWrite(l) ==
    l.step \in {"persist", "undo"} \/ (l.step = "apply" /\ l.phase = "switch-traffic")

(* An operation of an earlier driver can change the route only while that  *)
(* is not the one of the coordinator's candidate.                          *)
Behind ==
    /\ left # {} => /\ cut.beside
                    /\ cut.active # cut.candidate /\ release[cut.active] # release[cut.candidate]
    /\ \A l \in left :
         /\ l.seen <= route.generation
         /\ driver = "cutover" /\ l.seen = route.generation /\ MayWrite(l)
              => route.active # cut.candidate

Early == {"none", "start-candidate", "candidate-health"}

(* As long as the ledger knows of no quiescence there was none.            *)
Undisturbed ==
  OnItsOwn =>
    /\ ledger.phase \in Early /\ ledger.receipt = "none" =>
         /\ Unharmed
         /\ op["quiesce-active"] \in {"unbegun", "begun", "failed"}
         /\ op["stop-previous"] = "unbegun"
    /\ driver = "recovery" /\ op["commit-candidate"] # "unbegun" => ledger.phase \notin Early
    /\ driver = "cutover" /\ op["start-candidate"] # "unbegun" /\ op["quiesce-active"] = "unbegun"
         => Unharmed /\ op["stop-previous"] = "unbegun"
    /\ op["candidate-health"] # "unbegun" => op["start-candidate"] = "done"
    /\ op["quiesce-active"] # "unbegun"
         => op["start-candidate"] = "done" /\ op["candidate-health"] = "done"
    /\ pc \in {"start-candidate", "candidate-health"} => op["quiesce-active"] = "unbegun"
    /\ pc = "candidate-health" => op["start-candidate"] = "done"
    /\ pc = "quiesce-active"
         => op["start-candidate"] = "done" /\ op["candidate-health"] = "done"
    /\ driver = "cutover" /\ pc \in {"drain-active", "checkpoint-active", "switch-traffic",
                               "candidate-canary", "commit-candidate", "stop-previous"}
         => op["quiesce-active"] = "done"

(* How far the restoration by the recovery is.                             *)
Restoring ==
    driver = "recovery" /\ OnItsOwn =>
      /\ op["rollback-traffic"] = "begun" => route.active = cut.candidate
      /\ op["rollback-traffic"] \in {"apply", "done"} => route.active = cut.active
      /\ pc \in {"resume-active", "stop-candidate"} => route.active = cut.active
      /\ pc = "resume-active" /\ op["resume-active"] = "done" => Unharmed
      /\ pc = "stop-candidate" => Unharmed
      /\ pc = "stop-candidate" /\ op["stop-candidate"] = "done" => host[cut.candidate] = "stopped"
      /\ (pc = "receipt" /\ outcome = "rolled-back") \/ ledger.receipt = "rolled-back"
           => Restored /\ Quiet

Inv ==
    /\ TypeOK
    /\ Distinct
    /\ Between
    /\ Compared
    /\ Alone
    /\ Unentered
    /\ Unsettled
    /\ Committing
    /\ CommitStands
    /\ Made
    /\ Behind
    /\ Undisturbed
    /\ Restoring
-----------------------------------------------------------------------------
(* Before the first cutover the invariant holds.                           *)
LEMMA InitInv == Init => Inv
<1> SUFFICES ASSUME Init PROVE Inv
  OBVIOUS
<1>1. TypeOK
  BY HostsAssumption, ReleasesAssumption
     DEF Init, CoordinatorInit, TypeOK, Unbegun, Steps, Outcomes, RoutePhases
<1>2. \A p \in Phases : op[p] = "unbegun"
  BY DEF Init, CoordinatorInit, Unbegun
<1> USE DEF Phases, ForwardPhases, CleanupPhases, RestoringPhases
<1>3. Distinct
  BY HostsAssumption, ReleasesAssumption DEF Init, CoordinatorInit, Distinct, NothingBegan
<1>4. Between /\ Compared
  BY <1>2 DEF Init, CoordinatorInit, Between, Compared, RoutePhases
<1>5. Alone /\ Unsettled
  BY <1>2 DEF Init, CoordinatorInit, Alone, Unsettled, IsRunning, Ended
<1>6. Committing /\ CommitStands
  BY <1>2 DEF Init, CoordinatorInit, Committing, CommitStands
<1>7. Undisturbed /\ Restoring
  BY <1>2, HostsAssumption DEF Init, CoordinatorInit, Undisturbed, Restoring, Early, Unharmed
<1>8. Unentered /\ Made /\ Behind
  BY <1>2, HostsAssumption, ReleasesAssumption
     DEF Init, CoordinatorInit, Unentered, Made, Behind
<1> QED BY <1>1, <1>3, <1>4, <1>5, <1>6, <1>7, <1>8 DEF Inv

-----------------------------------------------------------------------------
(* The operations.                                                         *)

(* What every step of an operation that is under way shares.               *)
LEMMA UnderWay ==
    ASSUME Inv, NEW p \in Phases, op[p] # "unbegun"
    PROVE  /\ cut.active # cut.candidate /\ release[cut.active] # release[cut.candidate]
           /\ cut.active \in Hosts /\ cut.candidate \in Hosts
BY DEF Inv, TypeOK, Distinct, NothingBegan, Unbegun

(* Where an operation goes on is a step, and not a beginning.              *)
LEMMA RecordedIsStep ==
    ASSUME NEW p \in Phases
    PROVE  /\ Recorded(p) \in {"check", "persist", "act"}
           /\ Thrown(p) \in {Recorded(p), "undo", "failed"}
           /\ Thrown(p) = "undo" => p = "switch-traffic" /\ op[p] = "apply"
           /\ Thrown(p) = Recorded(p) => op[p] = "begun" /\ driver = "cutover" /\ p \in CleanupPhases
BY DEF Recorded, RecordedBy, Thrown

(* A phase is written to the ledger.                                       *)
LEMMA RecordKeeps ==
    ASSUME Inv, NEW p \in Phases, Record(p)
    PROVE  Inv'
<1> USE DEF Phases, ForwardPhases, CleanupPhases, RestoringPhases, OnItsOwn
<1>1. /\ op[p] = "begun" /\ ledger.receipt = "none"
      /\ ledger'.phase = p /\ ledger'.receipt = "none" /\ ledger'.known \in BOOLEAN
      /\ ledger' \in [phase : Phases \cup {"none"}, known : BOOLEAN, receipt : Outcomes \cup {"none"}]
      /\ op' = [op EXCEPT ![p] = Recorded(p)] \/ op' = [op EXCEPT ![p] = Thrown(p)]
      /\ UNCHANGED <<route, host, seen, cut, release, driver, pc, failures, outcome, abandoned, left>>
  <2>1. ledger \in [phase : Phases \cup {"none"}, known : BOOLEAN, receipt : Outcomes \cup {"none"}]
    BY DEF Inv, TypeOK
  <2> QED BY <2>1 DEF Record, driverVars
<1>2. op' \in [Phases -> Steps]
  BY <1>1, RecordedIsStep DEF Inv, TypeOK, Steps
<1>3. /\ cut.active # cut.candidate /\ release[cut.active] # release[cut.candidate]
      /\ cut.active \in Hosts /\ cut.candidate \in Hosts
  BY <1>1, UnderWay DEF IsRunning, Ended
<1>4. TypeOK'
  BY <1>1, <1>2 DEF Inv, TypeOK
<1>5. Distinct'
  BY <1>1, <1>2, <1>3, RecordedIsStep DEF Inv, TypeOK, Distinct, NothingBegan
<1>6. Between'
  BY <1>1, <1>2, <1>3, RecordedIsStep DEF Inv, TypeOK, Between
<1>7. Compared'
  BY <1>1, <1>2, <1>3, RecordedIsStep DEF Inv, TypeOK, Compared, Trusted, RoutePhases, IsRunning, Ended,
        Recorded, RecordedBy, Thrown, Committing, Restoring
<1>8. Alone'
  BY <1>1, <1>2, <1>3, RecordedIsStep DEF Inv, TypeOK, Alone, IsRunning, Ended
<1>9. Unsettled'
  BY <1>1, <1>2, <1>3, RecordedIsStep DEF Inv, TypeOK, Unsettled, Outcomes
<1>10. Committing'
  BY <1>1, <1>2, <1>3, RecordedIsStep DEF Inv, TypeOK, Committing, Committed, Recorded, RecordedBy, Thrown
<1>11. CommitStands'
  BY <1>1, <1>2, <1>3, RecordedIsStep DEF Inv, TypeOK, CommitStands, Trusted, Committed, IsRunning, Ended
<1>12. Undisturbed'
  BY <1>1, <1>2, <1>3, RecordedIsStep DEF Inv, TypeOK, Undisturbed, Unharmed, Early, IsRunning, Ended, Alone
<1>13. Restoring'
  BY <1>1, <1>2, <1>3, RecordedIsStep DEF Inv, TypeOK, Restoring, Unharmed, Restored, Quiet, IsRunning, Ended
<1>14. Unentered' /\ Made' /\ Behind'
  BY <1>1, <1>2, <1>3 DEF Inv, TypeOK, Unentered, Made, Behind, MayWrite
<1> QED BY <1>4, <1>5, <1>6, <1>7, <1>8, <1>9, <1>10, <1>11, <1>12, <1>13, <1>14 DEF Inv

(* A step of an operation throws.                                          *)
LEMMA ThrowKeeps ==
    ASSUME Inv, NEW p \in Phases, Throw(p)
    PROVE  Inv'
<1> USE DEF Phases, ForwardPhases, CleanupPhases, RestoringPhases, OnItsOwn
<1>1. /\ IsRunning(p)
      /\ op' = [op EXCEPT ![p] = Thrown(p)]
      /\ abandoned' \in {abandoned, abandoned \cup {p}}
      /\ UNCHANGED <<route, ledger, host, seen, cut, release, driver, pc, failures, outcome, left>>
  BY DEF Throw, driverVars, diskVars
<1>2. op' \in [Phases -> Steps]
  BY <1>1, RecordedIsStep DEF Inv, TypeOK, Steps
<1>3. /\ cut.active # cut.candidate /\ release[cut.active] # release[cut.candidate]
      /\ cut.active \in Hosts /\ cut.candidate \in Hosts
  BY <1>1, UnderWay DEF IsRunning, Ended
<1>4. TypeOK'
  BY <1>1, <1>2 DEF Inv, TypeOK
<1>5. Distinct'
  BY <1>1, <1>2, <1>3, RecordedIsStep DEF Inv, TypeOK, Distinct, NothingBegan
<1>6. Between'
  BY <1>1, <1>2, <1>3, RecordedIsStep DEF Inv, TypeOK, Between
<1>7. Compared'
  BY <1>1, <1>2, <1>3, RecordedIsStep DEF Inv, TypeOK, Compared, Trusted, RoutePhases, IsRunning, Ended,
        Recorded, RecordedBy, Thrown
<1>8. Alone'
  BY SMTT(20), <1>1, <1>2, <1>3, RecordedIsStep DEF Inv, TypeOK, Alone, IsRunning, Ended
<1>9. Unsettled'
  BY <1>1, <1>2, <1>3, RecordedIsStep DEF Inv, TypeOK, Unsettled, Outcomes
<1>10. Committing'
  BY <1>1, <1>2, <1>3, RecordedIsStep DEF Inv, TypeOK, Committing, Committed
<1>11. CommitStands'
  BY <1>1, <1>2, <1>3, RecordedIsStep DEF Inv, TypeOK, CommitStands, Trusted, Committed, IsRunning, Ended
<1>12. Undisturbed'
  BY <1>1, <1>2, <1>3, RecordedIsStep DEF Inv, TypeOK, Undisturbed, Unharmed, Early, IsRunning, Ended
<1>13. Restoring'
  BY <1>1, <1>2, <1>3, RecordedIsStep DEF Inv, TypeOK, Restoring, Unharmed, Restored, Quiet, IsRunning, Ended
<1>14. Unentered' /\ Made' /\ Behind'
  BY <1>1, <1>2, <1>3, RecordedIsStep DEF Inv, TypeOK, Unentered, Made, Behind, MayWrite, IsRunning, Ended
<1> QED BY <1>4, <1>5, <1>6, <1>7, <1>8, <1>9, <1>10, <1>11, <1>12, <1>13, <1>14 DEF Inv

(* The platform adapter has done its part.                                 *)
LEMMA ActKeeps ==
    ASSUME Inv, NEW p \in Phases, Act(p)
    PROVE  Inv'
<1> USE DEF Phases, ForwardPhases, CleanupPhases, RestoringPhases, OnItsOwn
<1>0. /\ op[p] = "act" /\ op' = [op EXCEPT ![p] = Acted(p)]
      /\ Platform(p, driver, cut.active, Candidate)
      /\ UNCHANGED <<route, ledger, seen, cut, release, driver, pc, failures, outcome, abandoned, left>>
  BY DEF Act, driverVars, diskVars
<1>1. /\ op[p] = "act"
      /\ p = "commit-candidate" => op' = [op EXCEPT ![p] = "check"]
      /\ p # "commit-candidate" => op' = [op EXCEPT ![p] = "done"]
      /\ UNCHANGED <<route, ledger, seen, cut, release, driver, pc, failures, outcome, abandoned, left>>
  BY <1>0 DEF Acted
<1>2. op' \in [Phases -> Steps]
  BY <1>1 DEF Inv, TypeOK, Steps
<1>3. /\ cut.active # cut.candidate /\ release[cut.active] # release[cut.candidate]
      /\ cut.active \in Hosts /\ cut.candidate \in Hosts
  BY <1>1, UnderWay
<1>c. /\ Candidate \in {cut.active, cut.candidate}
      /\ OnItsOwn \/ (driver = "cutover" /\ p = "commit-candidate") => Candidate = cut.candidate
  BY <1>1 DEF Inv, Unentered, Candidate
<1>h. /\ host' \in [Hosts -> {"absent", "running", "quiesced", "stopped"}]
      /\ p # "stop-candidate" => host'[cut.candidate] \in {host[cut.candidate], "running"}
      /\ p = "stop-previous" => host'[cut.candidate] = host[cut.candidate]
      /\ p \in {"candidate-health", "candidate-canary", "commit-candidate", "drain-active",
                "checkpoint-active"} => host' = host
      /\ p = "commit-candidate" /\ (OnItsOwn \/ driver = "cutover") => host[cut.candidate] = "running"
      /\ p \in {"start-candidate", "stop-candidate"} /\ OnItsOwn
           => host'[cut.active] = host[cut.active]
      /\ p = "stop-candidate" /\ OnItsOwn => host'[cut.candidate] = "stopped"
      /\ p = "resume-active" => host'[cut.active] = "running"
      /\ p \notin {"switch-traffic", "rollback-traffic"}
  <2>1. host \in [Hosts -> {"absent", "running", "quiesced", "stopped"}]
    BY DEF Inv, TypeOK
  <2> QED BY <1>0, <1>3, <1>c, <2>1 DEF Platform, SetHost
<1>4. TypeOK'
  BY <1>1, <1>2, <1>h DEF Inv, TypeOK
<1>5. Distinct'
  BY <1>1, <1>2, <1>3, <1>h DEF Inv, TypeOK, Distinct, NothingBegan
<1>6. Between'
  BY <1>1, <1>2, <1>3, <1>h DEF Inv, TypeOK, Between
<1>7. Compared'
  BY <1>1, <1>2, <1>3, <1>h DEF Inv, TypeOK, Compared, Trusted, RoutePhases, IsRunning, Ended
<1>8. Alone'
  BY SMTT(20), <1>1, <1>2, <1>3, <1>h DEF Inv, TypeOK, Alone, IsRunning, Ended
<1>9. Unsettled'
  BY <1>1, <1>2, <1>3, <1>h DEF Inv, TypeOK, Unsettled, Outcomes
<1>10. Committing'
  <2>1. CASE p = "stop-candidate"
    <3>1. driver = "cutover" => pc # "commit-candidate"
      BY <1>1, <2>1 DEF Inv, Alone, IsRunning, Ended
    <3>2. driver = "recovery" => op["commit-candidate"] = "unbegun"
      BY <1>1, <2>1 DEF Inv, Alone
    <3> QED BY <1>1, <1>2, <2>1, <3>1, <3>2 DEF Inv, TypeOK, Committing
  <2>2. CASE p # "stop-candidate"
    BY <1>1, <1>2, <1>h, <2>2 DEF Inv, TypeOK, Committing, Committed
  <2> QED BY <2>1, <2>2
<1>11. CommitStands'
  BY <1>1, <1>2, <1>3, <1>h DEF Inv, TypeOK, CommitStands, Trusted, Committed, IsRunning, Ended
<1>12. Undisturbed'
  BY <1>1, <1>2, <1>3, <1>h DEF Inv, TypeOK, Undisturbed, Unharmed, Early, IsRunning, Ended, Unsettled
<1>13. Restoring'
  <2> SUFFICES ASSUME driver = "recovery" PROVE Restoring'
    BY <1>1 DEF Restoring
  <2>1. /\ p \notin {"start-candidate", "quiesce-active"}
        /\ pc \in Phases => p = pc
        /\ ~Quiet
    BY <1>1 DEF Inv, Alone, Quiet, IsRunning, Ended
  <2>2. Restoring
    BY DEF Inv
  <2> QED BY <1>1, <1>2, <1>3, <1>h, <2>1, <2>2 DEF TypeOK, Restoring, Unharmed
<1>14. Unentered' /\ Made' /\ Behind'
  BY <1>1, <1>2, <1>3 DEF Inv, TypeOK, Unentered, Made, Behind, MayWrite
<1> QED BY <1>4, <1>5, <1>6, <1>7, <1>8, <1>9, <1>10, <1>11, <1>12, <1>13, <1>14 DEF Inv

(* The route is compared with the host that must be authoritative.         *)
LEMMA CheckKeeps ==
    ASSUME Inv, NEW p \in RoutePhases, Check(p)
    PROVE  Inv'
<1> USE DEF Phases, ForwardPhases, CleanupPhases, RestoringPhases, OnItsOwn
<1>1. /\ p \in Phases /\ op[p] = "check" /\ op' = [op EXCEPT ![p] = "persist"]
      /\ route.active = ExpectedActive(p)
      /\ seen' = [seen EXCEPT ![p] = route.generation]
      /\ UNCHANGED <<route, ledger, host, cut, release, driver, pc, failures, outcome, abandoned, left>>
  BY DEF Check, driverVars, diskVars, RoutePhases
<1>2. op' \in [Phases -> Steps]
  BY <1>1 DEF Inv, TypeOK, Steps
<1>3. /\ cut.active # cut.candidate /\ release[cut.active] # release[cut.candidate]
      /\ cut.active \in Hosts /\ cut.candidate \in Hosts
  BY <1>1, UnderWay
<1>4. TypeOK'
  BY <1>1, <1>2 DEF Inv, TypeOK
<1>5. Distinct'
  BY <1>1, <1>2, <1>3 DEF Inv, TypeOK, Distinct, NothingBegan
<1>6. Between'
  BY <1>1, <1>2, <1>3 DEF Inv, TypeOK, Between
<1>7. Compared'
  BY <1>1, <1>2, <1>3 DEF Inv, TypeOK, Compared, Trusted, RoutePhases, IsRunning, Ended, ExpectedActive
<1>8. Alone'
  BY <1>1, <1>2, <1>3 DEF Inv, TypeOK, Alone, IsRunning, Ended
<1>9. Unsettled'
  BY <1>1, <1>2, <1>3 DEF Inv, TypeOK, Unsettled, Outcomes
<1>10. Committing'
  BY <1>1, <1>2, <1>3 DEF Inv, TypeOK, Committing, Committed
<1>11. CommitStands'
  BY <1>1, <1>2, <1>3 DEF Inv, TypeOK, CommitStands, Trusted, Committed, IsRunning, Ended
<1>12. Undisturbed'
  BY <1>1, <1>2, <1>3 DEF Inv, TypeOK, Undisturbed, Unharmed, Early, IsRunning, Ended
<1>13. Restoring'
  BY <1>1, <1>2, <1>3 DEF Inv, TypeOK, Restoring, Unharmed, Restored, Quiet, IsRunning, Ended
<1>14. Unentered' /\ Made' /\ Behind'
  BY <1>1, <1>2, <1>3 DEF Inv, TypeOK, Unentered, Made, Behind, MayWrite
<1> QED BY <1>4, <1>5, <1>6, <1>7, <1>8, <1>9, <1>10, <1>11, <1>12, <1>13, <1>14 DEF Inv

(* The route is applied.                                                   *)
LEMMA ApplyKeeps ==
    ASSUME Inv, NEW p \in RoutePhases, Apply(p)
    PROVE  Inv'
<1> USE DEF Phases, ForwardPhases, CleanupPhases, RestoringPhases, OnItsOwn
<1>1. /\ p \in Phases /\ op[p] = "apply" /\ op' = [op EXCEPT ![p] = "done"]
      /\ UNCHANGED <<route, ledger, host, seen, cut, release, driver, pc, failures, outcome,
                     abandoned, left>>
  BY DEF Apply, driverVars, diskVars, RoutePhases
<1>2. op' \in [Phases -> Steps]
  BY <1>1 DEF Inv, TypeOK, Steps
<1>3. /\ cut.active # cut.candidate /\ release[cut.active] # release[cut.candidate]
      /\ cut.active \in Hosts /\ cut.candidate \in Hosts
  BY <1>1, UnderWay
<1>4. TypeOK'
  BY <1>1, <1>2 DEF Inv, TypeOK
<1>5. Distinct'
  BY <1>1, <1>2, <1>3 DEF Inv, TypeOK, Distinct, NothingBegan
<1>6. Between'
  BY <1>1, <1>2, <1>3 DEF Inv, TypeOK, Between
<1>7. Compared'
  BY <1>1, <1>2, <1>3 DEF Inv, TypeOK, Compared, Trusted, RoutePhases, IsRunning, Ended
<1>8. Alone'
  BY <1>1, <1>2, <1>3 DEF Inv, TypeOK, Alone, IsRunning, Ended
<1>9. Unsettled'
  BY <1>1, <1>2, <1>3 DEF Inv, TypeOK, Unsettled, Outcomes
<1>10. Committing'
  BY <1>1, <1>2, <1>3 DEF Inv, TypeOK, Committing, Committed
<1>11. CommitStands'
  BY <1>1, <1>2, <1>3 DEF Inv, TypeOK, CommitStands, Trusted, Committed, IsRunning, Ended
<1>12. Undisturbed'
  BY <1>1, <1>2, <1>3 DEF Inv, TypeOK, Undisturbed, Unharmed, Early, IsRunning, Ended
<1>13. Restoring'
  <2> SUFFICES ASSUME driver = "recovery" PROVE Restoring'
    BY <1>1 DEF Restoring
  <2>1. /\ p \in {"rollback-traffic", "commit-candidate"}
        /\ pc \in Phases => p = pc
        /\ ~Quiet
    BY <1>1 DEF Inv, Alone, Quiet, IsRunning, Ended, RoutePhases
  <2>2. Restoring
    BY DEF Inv
  <2> QED BY <1>1, <1>2, <1>3, <2>1, <2>2 DEF TypeOK, Restoring, Unharmed
<1>14. Unentered' /\ Made' /\ Behind'
  BY <1>1, <1>2, <1>3 DEF Inv, TypeOK, Unentered, Made, Behind, MayWrite
<1> QED BY <1>4, <1>5, <1>6, <1>7, <1>8, <1>9, <1>10, <1>11, <1>12, <1>13, <1>14 DEF Inv

(* The platform vouches for the candidate.                                 *)
LEMMA VerifyKeeps ==
    ASSUME Inv, Verify
    PROVE  Inv'
<1> USE DEF Phases, ForwardPhases, CleanupPhases, RestoringPhases, OnItsOwn
<1>1. /\ op["commit-candidate"] = "verify" /\ host[cut.candidate] = "running"
      /\ op' = [op EXCEPT !["commit-candidate"] = IF route.previous = None THEN "done" ELSE "begun"]
      /\ UNCHANGED <<route, ledger, host, seen, cut, release, driver, pc, failures, outcome,
                     abandoned, left>>
  BY DEF Verify, driverVars, diskVars
<1>2. op' \in [Phases -> Steps]
  BY <1>1 DEF Inv, TypeOK, Steps
<1>3. /\ cut.active # cut.candidate /\ release[cut.active] # release[cut.candidate]
      /\ cut.active \in Hosts /\ cut.candidate \in Hosts
  BY <1>1, UnderWay
<1>4. TypeOK'
  BY <1>1, <1>2 DEF Inv, TypeOK
<1>5. Distinct'
  BY <1>1, <1>2, <1>3 DEF Inv, TypeOK, Distinct, NothingBegan
<1>6. Between'
  BY <1>1, <1>2, <1>3 DEF Inv, TypeOK, Between
<1>7. Compared'
  BY <1>1, <1>2, <1>3 DEF Inv, TypeOK, Compared, Trusted, RoutePhases, IsRunning, Ended
<1>8. Alone'
  BY <1>1, <1>2, <1>3 DEF Inv, TypeOK, Alone, IsRunning, Ended
<1>9. Unsettled'
  BY <1>1, <1>2, <1>3 DEF Inv, TypeOK, Unsettled, Outcomes
<1>10. Committing'
  BY <1>1, <1>2, <1>3 DEF Inv, TypeOK, Committing, Committed
<1>11. CommitStands'
  BY <1>1, <1>2, <1>3 DEF Inv, TypeOK, CommitStands, Trusted, Committed, IsRunning, Ended
<1>12. Undisturbed'
  BY <1>1, <1>2, <1>3 DEF Inv, TypeOK, Undisturbed, Unharmed, Early, IsRunning, Ended
<1>13. Restoring'
  BY <1>1, <1>2, <1>3 DEF Inv, TypeOK, Restoring, Unharmed, Restored, Quiet, IsRunning, Ended
<1>14. Unentered' /\ Made' /\ Behind'
  BY <1>1, <1>2, <1>3 DEF Inv, TypeOK, Unentered, Made, Behind, MayWrite
<1> QED BY <1>4, <1>5, <1>6, <1>7, <1>8, <1>9, <1>10, <1>11, <1>12, <1>13, <1>14 DEF Inv

(* A switch is taken back.                                                 *)
LEMMA UndoKeeps ==
    ASSUME Inv, Undo
    PROVE  Inv'
<1> USE DEF Phases, ForwardPhases, CleanupPhases, RestoringPhases, OnItsOwn
<1>1. /\ op["switch-traffic"] = "undo" /\ op' = [op EXCEPT !["switch-traffic"] = "failed"]
      /\ route.generation = seen["switch-traffic"] /\ route.previous # None
      /\ route' = Rollback
      /\ UNCHANGED <<ledger, host, seen, cut, release, driver, pc, failures, outcome, abandoned, left>>
  BY DEF Undo, Fresh, driverVars, diskVars, HasPrevious
<1>2. op' \in [Phases -> Steps]
  BY <1>1 DEF Inv, TypeOK, Steps
<1>3. /\ cut.active # cut.candidate /\ release[cut.active] # release[cut.candidate]
      /\ cut.active \in Hosts /\ cut.candidate \in Hosts
  BY <1>1, UnderWay
<1>r. /\ route'.active = route.previous /\ route'.previous = route.active
      /\ OnItsOwn => route.active = cut.candidate /\ route'.active = cut.active
      /\ route'.generation = route.generation + 1 /\ route.generation \in Nat
      /\ route' \in [generation : Nat, operation : {"bootstrap", "switch", "rollback", "commit"},
                     active : Hosts, previous : Hosts \cup {None}]
  <2>1. /\ OnItsOwn => route.active = cut.candidate /\ route.previous = cut.active
        /\ route.generation \in Nat /\ route.active \in Hosts
        /\ route.previous \in Hosts \cup {None}
    BY <1>1, <1>3, HostsAssumption DEF Inv, Compared, Between, TypeOK, Trusted
  <2> QED BY <1>1, <1>3, <2>1 DEF Rollback, Revision
<1>s. seen \in [RoutePhases -> Nat] /\ \A p \in RoutePhases : seen[p] <= route.generation
  BY DEF Inv, TypeOK, Compared, Trusted
<1>4. TypeOK'
  BY <1>1, <1>2, <1>r DEF Inv, TypeOK
<1>5. Distinct'
  BY <1>1, <1>2, <1>3, <1>r, <1>s DEF Inv, TypeOK, Distinct, NothingBegan
<1>6. Between'
  BY <1>1, <1>2, <1>3, <1>r, <1>s DEF Inv, TypeOK, Between
<1>7. Compared'
  BY <1>1, <1>2, <1>3, <1>r, <1>s DEF Inv, TypeOK, Compared, Trusted, RoutePhases, IsRunning, Ended
<1>8. Alone'
  BY <1>1, <1>2, <1>3, <1>r, <1>s DEF Inv, TypeOK, Alone, IsRunning, Ended
<1>9. Unsettled'
  BY <1>1, <1>2, <1>3, <1>r, <1>s DEF Inv, TypeOK, Unsettled, Outcomes
<1>10. Committing'
  BY <1>1, <1>2, <1>3, <1>r, <1>s DEF Inv, TypeOK, Committing, Committed, Alone, IsRunning, Ended
<1>11. CommitStands'
  BY <1>1, <1>2, <1>3, <1>r, <1>s DEF Inv, TypeOK, CommitStands, Trusted, Committed, IsRunning, Ended
<1>12. Undisturbed'
  BY <1>1, <1>2, <1>3, <1>r, <1>s DEF Inv, TypeOK, Undisturbed, Unharmed, Early, IsRunning, Ended
<1>13. Restoring'
  BY <1>1, <1>2, <1>3, <1>r, <1>s DEF Inv, TypeOK, Restoring, Unharmed, Restored, Quiet, IsRunning, Ended,
        Alone
<1>14. Unentered' /\ Made' /\ Behind'
  BY <1>1, <1>2, <1>3, <1>r, <1>s
     DEF Inv, TypeOK, Unentered, Distinct, Made, Behind, MayWrite, RoutePhases
<1> QED BY <1>4, <1>5, <1>6, <1>7, <1>8, <1>9, <1>10, <1>11, <1>12, <1>13, <1>14 DEF Inv

(* A mutation of the route is written: it starts from the expected route.  *)
LEMMA PersistKeeps ==
    ASSUME Inv, NEW p \in RoutePhases, Persist(p)
    PROVE  Inv'
<1> USE DEF Phases, ForwardPhases, CleanupPhases, RestoringPhases, OnItsOwn
<1>1. /\ p \in Phases /\ op[p] = "persist"
      /\ op' = [op EXCEPT ![p] = "done"] \/ op' = [op EXCEPT ![p] = "apply"]
      /\ p = "commit-candidate" /\ driver = "cutover" => op' = [op EXCEPT ![p] = "done"]
      /\ p # "commit-candidate" \/ driver # "cutover" => op' = [op EXCEPT ![p] = "apply"]
      /\ route.generation = seen[p]
      /\ seen' = [seen EXCEPT ![p] = route'.generation]
      /\ UNCHANGED <<ledger, host, cut, release, driver, pc, failures, outcome, abandoned, left>>
  BY DEF Persist, Fresh, driverVars, RoutePhases
<1>2. op' \in [Phases -> Steps]
  BY <1>1 DEF Inv, TypeOK, Steps
<1>3. /\ cut.active # cut.candidate /\ release[cut.active] # release[cut.candidate]
      /\ cut.active \in Hosts /\ cut.candidate \in Hosts
  BY <1>1, UnderWay
<1>a. Trusted => /\ p = "switch-traffic" => route.active = cut.active
                 /\ p \in {"rollback-traffic", "commit-candidate"} => route.active = cut.candidate
  BY <1>1 DEF Inv, Compared
<1>r. /\ \/ /\ p = "switch-traffic"
            /\ route'.active = cut.candidate /\ route'.previous = route.active
         \/ /\ p = "rollback-traffic"
            /\ route'.active = route.previous /\ route'.previous = route.active
            /\ route.previous # None
         \/ /\ p = "commit-candidate"
            /\ route'.active = route.active /\ route'.previous = None
      /\ OnItsOwn /\ p = "rollback-traffic" => route'.active = cut.active
      /\ route.generation \in Nat
      /\ \/ route'.generation = route.generation + 1
         \/ p = "commit-candidate" /\ route' = route
      /\ route' \in [generation : Nat, operation : {"bootstrap", "switch", "rollback", "commit"},
                     active : Hosts, previous : Hosts \cup {None}]
  <2>0. /\ route \in [generation : Nat, operation : {"bootstrap", "switch", "rollback", "commit"},
                      active : Hosts, previous : Hosts \cup {None}]
        /\ OnItsOwn /\ route.active = cut.candidate => route.previous \in {cut.active, None}
        /\ Fresh(p, seen[p]) /\ route' = Mutated(p, cut.candidate)
    BY DEF Inv, TypeOK, Between, Persist
  <2>1. CASE p = "switch-traffic"
    BY <1>3, <2>0, <2>1 DEF Mutated, SwitchTo, Revision
  <2>2. CASE p = "rollback-traffic"
    BY <1>3, <1>a, <2>0, <2>2, HostsAssumption
       DEF Mutated, Fresh, Rollback, HasPrevious, Revision, Trusted
  <2>3. CASE p = "commit-candidate"
    BY <1>3, <2>0, <2>3 DEF Mutated, Commit, Revision
  <2> QED BY <2>1, <2>2, <2>3 DEF RoutePhases
<1>s. seen \in [RoutePhases -> Nat] /\ \A q \in RoutePhases : seen[q] <= route.generation
  BY DEF Inv, TypeOK, Compared, Trusted
<1>4. TypeOK'
  BY <1>1, <1>2, <1>r, <1>s DEF Inv, TypeOK
<1>5. Distinct'
  BY <1>1, <1>2, <1>3, <1>a, <1>r, <1>s DEF Inv, TypeOK, Distinct, NothingBegan
<1>6. Between'
  BY <1>1, <1>2, <1>3, <1>a, <1>r, <1>s DEF Inv, TypeOK, Between, Trusted
<1>7. Compared'
  BY <1>1, <1>2, <1>3, <1>a, <1>r, <1>s DEF Inv, TypeOK, Compared, Trusted, RoutePhases, IsRunning, Ended
<1>8. Alone'
  BY <1>1, <1>2, <1>3, <1>a, <1>r, <1>s DEF Inv, TypeOK, Alone, IsRunning, Ended
<1>9. Unsettled'
  BY <1>1, <1>2, <1>3, <1>a, <1>r, <1>s DEF Inv, TypeOK, Unsettled, Outcomes
<1>10. Committing'
  <2>1. CASE p = "commit-candidate"
    BY <1>1, <1>2, <1>a, <1>r, <2>1 DEF Inv, TypeOK, Committing, Committed, Trusted
  <2>2. CASE p # "commit-candidate"
    <3>1. driver = "cutover" => pc # "commit-candidate"
      BY <1>1, <2>2 DEF Inv, Alone, IsRunning, Ended
    <3>2. driver = "recovery" => op["commit-candidate"] = "unbegun"
      BY <1>1, <2>2 DEF Inv, Alone, RoutePhases
    <3>3. driver \in {"cutover", "recovery"}
      BY DEF Inv, TypeOK
    <3> QED BY <1>1, <1>2, <2>2, <3>1, <3>2, <3>3 DEF Inv, TypeOK, Committing
  <2> QED BY <2>1, <2>2
<1>11. CommitStands'
  BY <1>1, <1>2, <1>3, <1>a, <1>r, <1>s DEF Inv, TypeOK, CommitStands, Trusted, Committed, IsRunning, Ended
<1>12. Undisturbed'
  BY <1>1, <1>2, <1>3, <1>a, <1>r, <1>s DEF Inv, TypeOK, Undisturbed, Unharmed, Early, IsRunning, Ended
<1>13. Restoring'
  <2> SUFFICES ASSUME driver = "recovery" PROVE Restoring'
    BY <1>1 DEF Restoring
  <2>1. /\ p \in {"rollback-traffic", "commit-candidate"}
        /\ pc \in Phases => p = pc
        /\ ~Quiet
    BY <1>1 DEF Inv, Alone, Quiet, IsRunning, Ended, RoutePhases
  <2>2. Restoring
    BY DEF Inv
  <2>3. p = "commit-candidate" => op["rollback-traffic"] = "unbegun"
    BY <1>1 DEF Inv, Alone
  <2> QED BY <1>1, <1>2, <1>3, <1>r, <2>1, <2>2, <2>3 DEF TypeOK, Restoring, Unharmed
<1>14. Unentered' /\ Made' /\ Behind'
  BY <1>1, <1>2, <1>3, <1>a, <1>r, <1>s
     DEF Inv, TypeOK, Unentered, Distinct, Made, Behind, MayWrite, RoutePhases
<1> QED BY <1>4, <1>5, <1>6, <1>7, <1>8, <1>9, <1>10, <1>11, <1>12, <1>13, <1>14 DEF Inv

(* The platform answers with the handle of the active host.               *)
LEMMA ReuseKeeps ==
    ASSUME Inv, Reuse
    PROVE  Inv'
<1> USE DEF Phases, ForwardPhases, CleanupPhases, RestoringPhases
<1>1. /\ op["start-candidate"] = "act" /\ op' = [op EXCEPT !["start-candidate"] = "done"]
      /\ cut' = [cut EXCEPT !.reused = TRUE]
      /\ UNCHANGED <<route, ledger, host, seen, release, driver, pc, failures, outcome, abandoned,
                     left>>
  BY DEF Reuse, diskVars
<1>2. op' \in [Phases -> Steps] /\ op \in [Phases -> Steps]
  BY <1>1 DEF Inv, TypeOK, Steps
<1>3. /\ cut' \in [active : Hosts, ran : BOOLEAN, candidate : Hosts, reused : BOOLEAN,
                    beside : BOOLEAN]
      /\ cut'.active = cut.active /\ cut'.candidate = cut.candidate
      /\ cut'.beside = cut.beside /\ cut'.reused = TRUE /\ ~OnItsOwn'
  BY <1>1 DEF Inv, TypeOK, OnItsOwn
<1>4. cut.active # cut.candidate /\ release[cut.active] # release[cut.candidate]
  BY <1>1, UnderWay
<1>5. driver = "cutover" /\ pc \notin {"commit-candidate", "stop-previous"}
  BY <1>1 DEF Inv, TypeOK, Alone, IsRunning, Ended
<1>6. TypeOK'
  BY <1>1, <1>2, <1>3 DEF Inv, TypeOK
<1>7. Distinct' /\ Unsettled' /\ Between' /\ Undisturbed' /\ Restoring'
  BY <1>1, <1>3, <1>4 DEF Inv, Distinct, Unsettled, Between, Undisturbed, Restoring
<1>8. Compared'
  BY <1>1, <1>2, <1>3, <1>5 DEF Inv, Compared, Trusted, RoutePhases
<1>9. Alone' /\ Unentered'
  BY <1>1, <1>2, <1>5 DEF Inv, Alone, Unentered, IsRunning, Ended
<1>10. Committing'
  BY <1>1, <1>2, <1>5 DEF Inv, Committing
<1>11. CommitStands'
  BY <1>1, <1>2, <1>5 DEF Inv, CommitStands, Trusted, IsRunning, Ended
<1>12. Made' /\ Behind'
  BY <1>1, <1>3 DEF Inv, Made, Behind, MayWrite
<1> QED BY <1>6, <1>7, <1>8, <1>9, <1>10, <1>11, <1>12 DEF Inv

-----------------------------------------------------------------------------
(* The operations of earlier drivers.                                      *)

(* The route as it may become, and what an operation becomes with it.      *)
LateRoute(l) ==
    \/ route' = route
    \/ /\ l.step \in {"persist", "undo"} /\ l.seen = route.generation
       /\ route'.generation = route.generation + 1
       /\ release[route'.active] # None
       /\ route'.previous # None => release[route'.previous] # None

(* What becomes of it compares with a generation at which the candidate of *)
(* the coordinator was not authoritative.                                  *)
LateNext(l) ==
    \/ left' = left \ {l}
    \/ \E step \in Steps, generation \in Nat :
         LET next == [l EXCEPT !.step = step, !.seen = generation]
         IN /\ left' = (left \ {l}) \cup {next}
            /\ generation <= route'.generation
            /\ driver = "cutover" /\ generation = route'.generation /\ MayWrite(next)
                 => route'.active # cut.candidate

(* What its steps have in common.                                          *)
LateMove(l) ==
    /\ UNCHANGED <<cut, release, driver, seen, pc, op, failures, outcome, abandoned>>
    /\ ledger' \in [phase : Phases \cup {"none"}, known : BOOLEAN, receipt : Outcomes \cup {"none"}]
    /\ ledger'.receipt = ledger.receipt
    /\ host' \in [Hosts -> {"absent", "running", "quiesced", "stopped"}]
    /\ \A h \in Hosts \ {l.active, l.candidate} : host'[h] = host[h]
    /\ route' \in [generation : Nat, operation : {"bootstrap", "switch", "rollback", "commit"},
                   active : Hosts, previous : Hosts \cup {None}]
    /\ LateRoute(l)
    /\ LateNext(l)

(* Being at another step is such a move, as far as the operation goes.     *)
LEMMA OnwardMoves ==
    ASSUME Inv, NEW l \in left, NEW step \in Steps, NEW generation \in Nat,
           Onward(l, step, generation), generation <= route'.generation,
           \/ step \in Ended
           \/ driver # "cutover"
           \/ generation # route'.generation
           \/ route'.active # cut.candidate
           \/ ~MayWrite([l EXCEPT !.step = step, !.seen = generation])
    PROVE  LateNext(l)
<1>1. CASE step \in Ended
  BY <1>1 DEF Onward, LateNext
<1>2. CASE step \notin Ended
  BY <1>2 DEF Onward, LateNext
<1> QED BY <1>1, <1>2

(* A revision of a late operation names hosts that were made.              *)
LEMMA MutationIsMade ==
    ASSUME Inv, NEW l \in left, NEW p \in RoutePhases, Fresh(p, l.seen),
           route' = Mutated(p, l.candidate), l.step \in {"persist", "undo"}
    PROVE  /\ route' \in [generation : Nat, operation : {"bootstrap", "switch", "rollback", "commit"},
                          active : Hosts, previous : Hosts \cup {None}]
           /\ LateRoute(l)
           /\ p = "switch-traffic" => route'.active = l.candidate
<1>1. /\ route \in [generation : Nat, operation : {"bootstrap", "switch", "rollback", "commit"},
                    active : Hosts, previous : Hosts \cup {None}]
      /\ l.candidate \in Hosts /\ release[l.candidate] # None
      /\ release[route.active] # None
      /\ route.previous # None => release[route.previous] # None
      /\ l.seen = route.generation
  BY DEF Inv, TypeOK, Made, Fresh
<1>2. CASE p = "switch-traffic"
  BY <1>1, <1>2 DEF Mutated, SwitchTo, Revision, LateRoute
<1>3. CASE p = "rollback-traffic"
  BY <1>1, <1>3 DEF Mutated, Fresh, HasPrevious, Rollback, Revision, LateRoute
<1>4. CASE p = "commit-candidate"
  BY <1>1, <1>4 DEF Mutated, Commit, Revision, LateRoute
<1> QED BY <1>2, <1>3, <1>4 DEF RoutePhases
(* Each step of a late operation is such a move.                           *)
LEMMA LateMoves ==
    ASSUME Inv, NEW l \in left,
           \/ LateThrow(l) \/ LateAct(l) \/ LateCheck(l) \/ LatePersist(l) \/ LateApply(l)
           \/ LateUndo(l) \/ LateVerify(l) \/ LateRecord(l)
    PROVE  LateMove(l)
<1>1. /\ l \in [phase : EffectPhases, step : Steps, by : {"cutover", "recovery"},
               active : Hosts, candidate : Hosts, seen : Nat]
      /\ ledger \in [phase : Phases \cup {"none"}, known : BOOLEAN, receipt : Outcomes \cup {"none"}]
      /\ host \in [Hosts -> {"absent", "running", "quiesced", "stopped"}]
      /\ route \in [generation : Nat, operation : {"bootstrap", "switch", "rollback", "commit"},
                    active : Hosts, previous : Hosts \cup {None}]
      /\ driver \in {"cutover", "recovery"}
  BY DEF Inv, TypeOK
<1>2. /\ driver = "cutover" => l.active # cut.candidate /\ l.candidate # cut.candidate
      /\ l.seen <= route.generation
      /\ driver = "cutover" /\ l.seen = route.generation /\ MayWrite(l)
           => route.active # cut.candidate
  BY DEF Inv, Made, Behind
<1>3. {"done", "failed", "undo", "begun", "check", "act", "persist", "apply"} \subseteq Steps
  BY DEF Steps
<1>4. {"done", "failed"} \subseteq Ended
  BY DEF Ended
<1>5. CASE LateThrow(l)
  <2>1. UNCHANGED <<cut, release, driver, seen, pc, op, failures, outcome, abandoned, route, ledger, host>>
    BY <1>5 DEF LateThrow, presentVars, coordinatorVars, diskVars
  <2>2. CASE l.step = "apply" /\ l.phase = "switch-traffic"
    <3>1. Onward(l, "undo", l.seen) /\ MayWrite(l)
      BY <1>5, <2>2 DEF LateThrow, MayWrite
    <3>2. LateNext(l)
      BY <1>1, <1>2, <1>3, <2>1, <3>1, OnwardMoves
    <3> QED BY <1>1, <2>1, <3>2 DEF LateMove, LateRoute
  <2>3. CASE ~(l.step = "apply" /\ l.phase = "switch-traffic")
    <3>1. Onward(l, "failed", l.seen)
      BY <1>5, <2>3 DEF LateThrow
    <3>2. LateNext(l)
      BY <1>1, <1>2, <1>3, <1>4, <2>1, <3>1, OnwardMoves
    <3> QED BY <1>1, <2>1, <3>2 DEF LateMove, LateRoute
  <2> QED BY <2>2, <2>3
<1>6. CASE LateAct(l)
  <2>1. /\ UNCHANGED <<cut, release, driver, seen, pc, op, failures, outcome, abandoned, route, ledger>>
        /\ Platform(l.phase, l.by, l.active, l.candidate)
        /\ Onward(l, "done", l.seen) \/ Onward(l, "check", l.seen)
    BY <1>6 DEF LateAct, Acted, presentVars, coordinatorVars, diskVars
  <2>2. /\ host' \in [Hosts -> {"absent", "running", "quiesced", "stopped"}]
        /\ \A h \in Hosts \ {l.active, l.candidate} : host'[h] = host[h]
    BY <1>1, <2>1 DEF Platform, SetHost
  <2>3. ~MayWrite([l EXCEPT !.step = "check", !.seen = l.seen])
    BY <1>1 DEF MayWrite
  <2>4. LateNext(l)
    BY <1>1, <1>2, <1>3, <1>4, <2>1, <2>3, OnwardMoves
  <2> QED BY <1>1, <2>1, <2>2, <2>4 DEF LateMove, LateRoute
<1>7. CASE LateCheck(l)
  <2>1. /\ UNCHANGED <<cut, release, driver, seen, pc, op, failures, outcome, abandoned, route, ledger, host>>
        /\ route.active \in {l.active, l.candidate}
        /\ Onward(l, "persist", route.generation)
    BY <1>7 DEF LateCheck, presentVars, coordinatorVars, diskVars
  <2>2. route.generation \in Nat /\ route.generation = route'.generation /\ route' = route
    BY <1>1, <2>1
  <2>3. driver # "cutover" \/ route'.active # cut.candidate
    BY <1>2, <2>1
  <2>4. "persist" \in Steps /\ route.generation <= route'.generation
    BY <1>3, <2>2
  <2>5. LateNext(l)
    BY <2>1, <2>2, <2>3, <2>4, OnwardMoves
  <2> QED BY <1>1, <2>1, <2>5 DEF LateMove, LateRoute
<1>8. CASE LatePersist(l)
  <2>1. /\ UNCHANGED <<cut, release, driver, seen, pc, op, failures, outcome, abandoned, ledger, host>>
        /\ l.step = "persist"
        /\ Fresh(l.phase, l.seen) /\ route' = Mutated(l.phase, l.candidate)
        /\ Onward(l, "apply", route'.generation)
    BY <1>8 DEF LatePersist, presentVars, coordinatorVars
  <2>2. l.phase \in RoutePhases
    BY <1>8 DEF LatePersist
  <2>3. /\ route' \in [generation : Nat, operation : {"bootstrap", "switch", "rollback", "commit"},
                       active : Hosts, previous : Hosts \cup {None}]
        /\ LateRoute(l)
        /\ l.phase = "switch-traffic" => route'.active = l.candidate
    BY <2>1, <2>2, MutationIsMade
  <2>4. l.phase # "switch-traffic"
          => ~MayWrite([l EXCEPT !.step = "apply", !.seen = route'.generation])
    BY <1>1 DEF MayWrite
  <2>5. /\ "apply" \in Steps
        /\ route'.generation \in Nat /\ route'.generation <= route'.generation
    BY <1>3, <2>3
  <2>6. \/ driver # "cutover" \/ route'.active # cut.candidate
        \/ ~MayWrite([l EXCEPT !.step = "apply", !.seen = route'.generation])
    BY <1>2, <2>3, <2>4
  <2>7. LateNext(l)
    BY <2>1, <2>5, <2>6, OnwardMoves
  <2> QED BY <1>1, <2>1, <2>3, <2>7 DEF LateMove
<1>9. CASE LateApply(l)
  <2>1. /\ UNCHANGED <<cut, release, driver, seen, pc, op, failures, outcome, abandoned, route, ledger, host>>
        /\ Onward(l, "done", l.seen)
    BY <1>9 DEF LateApply, presentVars, coordinatorVars, diskVars
  <2>2. LateNext(l)
    BY <1>1, <1>2, <1>3, <1>4, <2>1, OnwardMoves
  <2> QED BY <1>1, <2>1, <2>2 DEF LateMove, LateRoute
<1>10. CASE LateUndo(l)
  <2>1. /\ UNCHANGED <<cut, release, driver, seen, pc, op, failures, outcome, abandoned, ledger, host>>
        /\ l.step = "undo" /\ Fresh("rollback-traffic", l.seen)
        /\ route' = Mutated("rollback-traffic", l.candidate)
        /\ Onward(l, "failed", l.seen)
    BY <1>10 DEF LateUndo, Mutated, presentVars, coordinatorVars
  <2>2. /\ route' \in [generation : Nat, operation : {"bootstrap", "switch", "rollback", "commit"},
                       active : Hosts, previous : Hosts \cup {None}]
        /\ LateRoute(l)
    BY <2>1, MutationIsMade DEF RoutePhases
  <2>3. l.seen <= route'.generation
    BY <1>1, <1>2, <2>2 DEF LateRoute
  <2>4. LateNext(l)
    BY <1>1, <1>3, <1>4, <2>1, <2>3, OnwardMoves
  <2> QED BY <1>1, <2>1, <2>2, <2>4 DEF LateMove
<1>11. CASE LateVerify(l)
  <2>1. /\ UNCHANGED <<cut, release, driver, seen, pc, op, failures, outcome, abandoned, route, ledger, host>>
        /\ Onward(l, "done", l.seen) \/ Onward(l, "begun", l.seen)
    BY <1>11 DEF LateVerify, presentVars, coordinatorVars, diskVars
  <2>2. ~MayWrite([l EXCEPT !.step = "begun", !.seen = l.seen])
    BY <1>1 DEF MayWrite
  <2>3. LateNext(l)
    BY <1>1, <1>2, <1>3, <1>4, <2>1, <2>2, OnwardMoves
  <2> QED BY <1>1, <2>1, <2>3 DEF LateMove, LateRoute
<1>12. CASE LateRecord(l)
  <2>1. /\ UNCHANGED <<cut, release, driver, seen, pc, op, failures, outcome, abandoned, route, host>>
        /\ l.candidate = cut.candidate
        /\ ledger' = [ledger EXCEPT !.phase = l.phase, !.known = TRUE]
        /\ Onward(l, RecordedBy(l.phase, l.by), l.seen)
    BY <1>12 DEF LateRecord, presentVars, coordinatorVars
  <2>2. RecordedBy(l.phase, l.by) \in {"check", "persist", "act"} /\ driver # "cutover"
    BY <1>2, <2>1 DEF RecordedBy
  <2>3. LateNext(l)
    BY <1>1, <1>2, <1>3, <2>1, <2>2, OnwardMoves
  <2>4. l.phase \in Phases
    BY <1>1 DEF EffectPhases, RoutePhases, Phases, ForwardPhases, CleanupPhases, RestoringPhases
  <2> QED BY <1>1, <2>1, <2>3, <2>4 DEF LateMove, LateRoute
<1> QED BY <1>5, <1>6, <1>7, <1>8, <1>9, <1>10, <1>11, <1>12

(* A late operation disturbs no cutover that began on its own, and neither  *)
(* moves the route away from a committed candidate nor stops it.           *)
LEMMA LateKeeps ==
    ASSUME Inv, LateOperation
    PROVE  Inv'
<1>1. PICK l \in left : LateMove(l)
  BY LateMoves DEF LateOperation
<1>2. /\ UNCHANGED <<cut, release, driver, seen, pc, op, failures, outcome, abandoned>>
      /\ ledger'.receipt = ledger.receipt
      /\ \A h \in Hosts \ {l.active, l.candidate} : host'[h] = host[h]
      /\ LateRoute(l) /\ LateNext(l)
  BY <1>1 DEF LateMove
<1>3. /\ cut.beside /\ ~OnItsOwn
      /\ cut.active # cut.candidate /\ release[cut.active] # release[cut.candidate]
      /\ cut.active \in Hosts /\ cut.candidate \in Hosts
      /\ driver = "cutover" => l.active # cut.candidate /\ l.candidate # cut.candidate
      /\ route.generation \in Nat
      /\ l \in [phase : EffectPhases, step : Steps, by : {"cutover", "recovery"},
               active : Hosts, candidate : Hosts, seen : Nat]
  BY DEF Inv, TypeOK, Made, Behind, OnItsOwn
<1>4. driver = "cutover" /\ route' # route => route.active # cut.candidate
  BY <1>2 DEF Inv, Behind, LateRoute, MayWrite
<1>5. driver = "cutover" => host'[cut.candidate] = host[cut.candidate]
  BY <1>2, <1>3
<1>14. PICK step \in Steps, generation \in Nat :
          /\ left' \subseteq (left \ {l}) \cup {[l EXCEPT !.step = step, !.seen = generation]}
          /\ \/ left' = left \ {l}
             \/ /\ generation <= route'.generation
                /\ driver = "cutover" /\ generation = route'.generation
                      /\ MayWrite([l EXCEPT !.step = step, !.seen = generation])
                     => route'.active # cut.candidate
  <2>1. CASE left' = left \ {l}
    <3>1. "done" \in Steps /\ 0 \in Nat
      BY DEF Steps
    <3> QED BY <2>1, <3>1
  <2>2. CASE left' # left \ {l}
    BY <1>2, <2>2 DEF LateNext
  <2> QED BY <2>1, <2>2
<1>6. TypeOK'
  <2>1. left' \subseteq [phase : EffectPhases, step : Steps, by : {"cutover", "recovery"},
                         active : Hosts, candidate : Hosts, seen : Nat]
    <3> DEFINE Leftovers == [phase : EffectPhases, step : Steps, by : {"cutover", "recovery"},
                             active : Hosts, candidate : Hosts, seen : Nat]
    <3>1. left \subseteq Leftovers /\ l \in Leftovers
      BY <1>3 DEF Inv, TypeOK
    <3>2. [l EXCEPT !.step = step, !.seen = generation] \in Leftovers
      BY <3>1
    <3> HIDE DEF Leftovers
    <3>3. left' \subseteq Leftovers
      BY <1>14, <3>1, <3>2
    <3> QED BY <3>3 DEF Leftovers
  <2> QED BY <1>1, <2>1 DEF Inv, TypeOK, LateMove
<1>7. Distinct'
  BY <1>2, <1>3 DEF Inv, Distinct
<1>8. Between' /\ Undisturbed' /\ Restoring'
  BY <1>2, <1>3 DEF Between, Undisturbed, Restoring, OnItsOwn
<1>9. Compared'
  <2>1. seen \in [RoutePhases -> Nat] /\ \A p \in RoutePhases : seen[p] <= route.generation
    BY DEF Inv, TypeOK, Compared
  <2>2. CASE route' = route
    BY <1>2, <2>2 DEF Inv, Compared, Trusted, OnItsOwn
  <2>3. CASE route'.generation = route.generation + 1
    BY <1>2, <1>3, <2>1, <2>3 DEF Compared, RoutePhases
  <2> QED BY <1>2, <2>2, <2>3 DEF LateRoute
<1>10. Alone' /\ Unentered' /\ Unsettled'
  BY <1>2 DEF Inv, Alone, Unentered, Unsettled, IsRunning
<1>11. Committing' /\ CommitStands'
  <2>1. driver = "cutover" /\ Committed => Committed'
    BY <1>2, <1>4, <1>5 DEF Committed
  <2> QED BY <1>2, <1>3, <1>5, <2>1
          DEF Inv, TypeOK, Committing, CommitStands, Trusted, OnItsOwn, IsRunning
<1>12. Made'
  <2>1. \A k \in left' : \E m \in left : k.active = m.active /\ k.candidate = m.candidate
    BY <1>3, <1>14
  <2> QED BY <1>2, <2>1 DEF Inv, Made, LateRoute
<1>13. Behind'
  <2>1. \A k \in left \ {l} :
          /\ k.seen \in Nat /\ k.seen <= route'.generation
          /\ driver = "cutover" /\ k.seen = route'.generation /\ MayWrite(k)
               => route'.active # cut.candidate
    BY <1>2, <1>3 DEF Inv, TypeOK, Behind, LateRoute
  <2> DEFINE next == [l EXCEPT !.step = step, !.seen = generation]
  <2>2. \/ left' = left \ {l}
        \/ /\ next.seen <= route'.generation
           /\ driver = "cutover" /\ next.seen = route'.generation /\ MayWrite(next)
                => route'.active # cut.candidate
    <3>1. next.seen = generation
      BY <1>3
    <3> QED BY <1>14, <3>1
  <2>3. left' \subseteq (left \ {l}) \cup {next}
    BY <1>14
  <2> HIDE DEF next
  <2>4. ASSUME NEW k \in left'
        PROVE  /\ k.seen <= route'.generation
               /\ driver = "cutover" /\ k.seen = route'.generation /\ MayWrite(k)
                    => route'.active # cut.candidate
    <3>1. CASE k \in left \ {l}
      BY <2>1, <3>1
    <3>2. CASE k \notin left \ {l}
      BY <2>2, <2>3, <3>2
    <3> QED BY <3>1, <3>2
  <2>5. UNCHANGED <<cut, release, driver>> /\ cut.beside
    BY <1>2, <1>3
  <2>6. \A k : MayWrite(k)' = MayWrite(k)
    BY DEF MayWrite
  <2> QED BY <1>3, <2>4, <2>5, <2>6 DEF Behind, MayWrite
<1> QED BY <1>6, <1>7, <1>8, <1>9, <1>10, <1>11, <1>12, <1>13 DEF Inv

-----------------------------------------------------------------------------
(* The drivers.                                                            *)

(* What runs on when a next driver begins was made for the last cutover, or before it. *)
LEMMA LeftBehindIsMade ==
    ASSUME Inv
    PROVE  /\ LeftBehind \subseteq [phase : EffectPhases, step : Steps, by : {"cutover", "recovery"},
                                   active : Hosts, candidate : Hosts, seen : Nat]
           /\ \A l \in LeftBehind :
                release[l.active] # None /\ release[l.candidate] # None /\ l.seen <= route.generation
<1>1. /\ op \in [Phases -> Steps] /\ seen \in [RoutePhases -> Nat]
      /\ driver \in {"cutover", "recovery"} /\ route.generation \in Nat
      /\ cut.active \in Hosts /\ cut.candidate \in Hosts
      /\ left \subseteq [phase : EffectPhases, step : Steps, by : {"cutover", "recovery"},
                         active : Hosts, candidate : Hosts, seen : Nat]
  BY DEF Inv, TypeOK
<1>2. EffectPhases \subseteq Phases
  BY DEF EffectPhases, RoutePhases, Phases, ForwardPhases, CleanupPhases, RestoringPhases
<1>3. /\ Candidate \in Hosts /\ release[cut.active] # None /\ release[Candidate] # None
      /\ \A p \in RoutePhases : seen[p] <= route.generation
      /\ \A l \in left :
           release[l.active] # None /\ release[l.candidate] # None /\ l.seen <= route.generation
  BY <1>1 DEF Inv, Distinct, Compared, Made, Behind, Candidate
<1> SUFFICES ASSUME NEW l \in LeftBehind
             PROVE  /\ l \in [phase : EffectPhases, step : Steps, by : {"cutover", "recovery"},
                              active : Hosts, candidate : Hosts, seen : Nat]
                    /\ release[l.active] # None /\ release[l.candidate] # None
                    /\ l.seen <= route.generation
  OBVIOUS
<1>4. CASE l \in left
  BY <1>1, <1>3, <1>4
<1>5. CASE l \notin left
  <2>1. PICK p \in EffectPhases :
          l = [phase |-> p, step |-> op[p], by |-> driver, active |-> cut.active,
               candidate |-> Candidate, seen |-> IF p \in RoutePhases THEN seen[p] ELSE 0]
    BY <1>5 DEF LeftBehind
  <2>2. op[p] \in Steps /\ (p \in RoutePhases => seen[p] \in Nat)
    BY <1>1, <1>2
  <2> QED BY <1>1, <1>3, <2>1, <2>2
<1> QED BY <1>4, <1>5

(* A cutover begins, perhaps beside what earlier ones left running.        *)
LEMMA StartKeeps ==
    ASSUME Inv, NEW h \in Hosts, NEW r \in Releases, Start(h, r)
    PROVE  Inv'
<1> USE DEF Phases, ForwardPhases, CleanupPhases, RestoringPhases
<1>1. /\ release[h] = None /\ r # release[route.active]
      /\ pc' = "start-candidate" /\ failures' = FALSE /\ outcome' = "none" /\ abandoned' = {}
      /\ op' = [Unbegun EXCEPT !["start-candidate"] = "begun"]
      /\ left' = LeftBehind
      /\ cut' = [active |-> route.active, ran |-> host[route.active] = "running", candidate |-> h,
                 reused |-> FALSE, beside |-> left' # {}]
      /\ release' = [release EXCEPT ![h] = r]
      /\ ledger' = [phase |-> "none", known |-> FALSE, receipt |-> "none"]
      /\ driver' = "cutover"
      /\ seen' = [p \in RoutePhases |-> 0]
      /\ UNCHANGED <<route, host>>
  BY DEF Start, BeginCutover
<1>2. /\ op' \in [Phases -> Steps]
      /\ op'["start-candidate"] = "begun"
      /\ \A p \in Phases \ {"start-candidate"} : op'[p] = "unbegun"
  BY <1>1 DEF Unbegun, Steps
<1>3. /\ route \in [generation : Nat, operation : {"bootstrap", "switch", "rollback", "commit"},
                    active : Hosts, previous : Hosts \cup {None}]
      /\ release[route.active] # None
      /\ route.previous # None => release[route.previous] # None
      /\ release \in [Hosts -> Releases \cup {None}]
  BY DEF Inv, TypeOK, Made
<1>4. /\ cut'.active = route.active /\ cut'.candidate = h /\ route.active # h
      /\ ~cut'.reused /\ (cut'.beside <=> left' # {})
      /\ cut'.ran <=> host[route.active] = "running"
      /\ cut' \in [active : Hosts, ran : BOOLEAN, candidate : Hosts, reused : BOOLEAN,
                   beside : BOOLEAN]
  BY <1>1, <1>3
<1>5. TypeOK'
  <2>1. /\ left' \subseteq [phase : EffectPhases, step : Steps, by : {"cutover", "recovery"},
                            active : Hosts, candidate : Hosts, seen : Nat]
        /\ release' \in [Hosts -> Releases \cup {None}]
        /\ seen' \in [RoutePhases -> Nat]
    BY <1>1, <1>3, LeftBehindIsMade
  <2> QED BY <1>1, <1>2, <1>3, <1>4, <2>1 DEF Inv, TypeOK
<1>6. Distinct'
  BY <1>1, <1>3, <1>4, ReleasesAssumption DEF Distinct
<1>7. Between' /\ Compared' /\ Alone' /\ Unentered' /\ Unsettled'
  BY <1>1, <1>2, <1>3, <1>4
     DEF Between, Compared, Alone, Unentered, Unsettled, RoutePhases, IsRunning, Ended
<1>8. Committing' /\ CommitStands' /\ Undisturbed' /\ Restoring'
  BY <1>1, <1>2, <1>3, <1>4
     DEF Committing, CommitStands, Undisturbed, Restoring, Early, Unharmed
<1>9. Made'
  <2>1. \A k \in Hosts : release[k] # None => k # h /\ release'[k] = release[k]
    BY <1>1, <1>3
  <2>2. \A l \in left' : /\ l.active \in Hosts /\ l.candidate \in Hosts
                         /\ release[l.active] # None /\ release[l.candidate] # None
    BY <1>1, LeftBehindIsMade
  <2> QED BY <1>1, <1>3, <1>4, <2>1, <2>2 DEF Made
<1>10. Behind'
  <2>1. cut'.active # cut'.candidate /\ release'[cut'.active] # release'[cut'.candidate]
    BY <1>1, <1>3, <1>4
  <2>2. \A l \in left' : l.seen <= route'.generation
    BY <1>1, LeftBehindIsMade
  <2> QED BY <1>1, <1>4, <2>1, <2>2 DEF Behind
<1> QED BY <1>5, <1>6, <1>7, <1>8, <1>9, <1>10 DEF Inv

(* A crash ends every operation, and the driver.                           *)
LEMMA CrashKeeps ==
    ASSUME Inv, Crash
    PROVE  Inv'
<1> USE DEF Phases, ForwardPhases, CleanupPhases, RestoringPhases
<1>1. /\ pc' = "idle" /\ outcome' = "none" /\ failures' = FALSE
      /\ op' = Unbegun
      /\ seen' = [p \in RoutePhases |-> 0] /\ left' = {}
      /\ UNCHANGED <<route, ledger, host, cut, release, driver, abandoned>>
  BY DEF Crash, diskVars
<1>2. op' \in [Phases -> Steps] /\ \A p \in Phases : op'[p] = "unbegun"
  BY <1>1 DEF Unbegun, Steps
<1>3. route.generation \in Nat /\ seen' \in [RoutePhases -> Nat]
  BY <1>1 DEF Inv, TypeOK
<1>4. TypeOK'
  <2>1. TypeOK /\ pc' \in Phases \cup {"idle", "receipt"} /\ outcome' \in Outcomes \cup {"none"}
    BY <1>1 DEF Inv
  <2> HIDE DEF Phases, ForwardPhases, CleanupPhases, RestoringPhases
  <2> QED BY ONLY <1>1, <1>2, <1>3, <2>1 DEF TypeOK
<1>5. Distinct'
  BY <1>1 DEF Inv, Distinct, NothingBegan
<1>6. Between' /\ Compared'
  BY <1>1, <1>2, <1>3 DEF Inv, Between, Compared, Trusted, OnItsOwn
<1>7. Alone' /\ Unentered' /\ Unsettled' /\ Committing'
  BY <1>1, <1>2 DEF Inv, Alone, Unentered, Unsettled, Committing, IsRunning, Ended
<1>8. CommitStands' /\ Undisturbed'
  BY <1>1, <1>2 DEF Inv, CommitStands, Trusted, OnItsOwn, Committed, Undisturbed, Unharmed,
        IsRunning, Ended
<1>9. Restoring'
  BY <1>1, <1>2 DEF Inv, Restoring, OnItsOwn, Unharmed, Restored, Quiet, IsRunning, Ended
<1>10. Made' /\ Behind'
  BY <1>1 DEF Inv, Made, Behind
<1> QED BY <1>4, <1>5, <1>6, <1>7, <1>8, <1>9, <1>10 DEF Inv

(* Cleaning up begins one restoring phase that is due, or ends without a commit. *)
LEMMA CleanUpBegins ==
    ASSUME NEW these, NEW failed \in BOOLEAN, CleanUp(these, failed)
    PROVE  /\ failures' = failed
           /\ \/ /\ pc' = "receipt" /\ op' = op
                 /\ outcome' \in {"failed", "rolled-back"}
              \/ /\ pc' \in RestoringPhases
                 /\ op' = [op EXCEPT ![pc'] = "begun"]
                 /\ outcome' = "none"
<1>1. NextCleanup(these) \in RestoringPhases \cup {"receipt"} /\ "receipt" \notin RestoringPhases
  BY DEF NextCleanup, RestoringPhases
<1>2. CASE NextCleanup(these) = "receipt"
  <2>1. failed = TRUE \/ failed = FALSE
    OBVIOUS
  <2> QED BY <1>2, <2>1 DEF CleanUp
<1>3. CASE NextCleanup(these) # "receipt"
  BY <1>1, <1>3 DEF CleanUp
<1> QED BY <1>2, <1>3

(* What a step of the coordinator does, whichever it is.                   *)
LEMMA CoordinateMoves ==
    ASSUME TypeOK, Coordinate
    PROVE  /\ failures' \in BOOLEAN /\ abandoned' \in SUBSET Phases
           /\ pc \in Phases /\ op[pc] # "unbegun"
           /\ \/ /\ pc \in ForwardPhases /\ op[pc] = "done" /\ pc' = PhaseAfter(pc)
                 /\ op' = [op EXCEPT ![pc'] = "begun"] /\ outcome' = outcome
              \/ /\ pc # "stop-previous"
                 /\ pc' \in RestoringPhases
                 /\ op' = [op EXCEPT ![pc'] = "begun"] /\ outcome' \in {"none", outcome}
              \/ /\ pc # "stop-previous" /\ pc' = "receipt"
                 /\ op' = op /\ outcome' \in {"failed", "rolled-back"}
              \/ /\ pc = "stop-previous" /\ pc' = "receipt"
                 /\ op' = op /\ outcome' = "committed"
<1> USE DEF Phases, ForwardPhases, CleanupPhases, RestoringPhases
<1>1. CASE Advance
  BY <1>1 DEF Advance, Enter, TypeOK
<1>2. CASE RejectCandidate
  BY <1>2 DEF RejectCandidate, Enter, TypeOK
<1>3. CASE GiveUp
  <2>1. CleanUp(RestoringPhases, FALSE) /\ pc \in ForwardPhases /\ op[pc] # "unbegun"
    BY <1>3 DEF GiveUp, WaitEnds, IsRunning, Ended
  <2>2. abandoned' \in SUBSET Phases
    BY <1>3 DEF GiveUp, TypeOK
  <2> QED BY <2>1, <2>2, CleanUpBegins
<1>4. CASE CleanupEnds
  <2>1. PICK failed \in {failures, TRUE} : CleanUp(CleanupAfter(pc), failed) /\ pc \in RestoringPhases
    BY <1>4 DEF CleanupEnds
  <2>2. op[pc] # "unbegun"
    BY <1>4 DEF CleanupEnds, WaitEnds, IsRunning, Ended
  <2>3. abandoned' \in SUBSET Phases /\ failed \in BOOLEAN
    BY <1>4 DEF CleanupEnds, TypeOK
  <2> QED BY <2>1, <2>2, <2>3, CleanUpBegins
<1>5. CASE Retired
  BY <1>5 DEF Retired, TypeOK, WaitEnds, IsRunning, Ended
<1> QED BY <1>1, <1>2, <1>3, <1>4, <1>5 DEF Coordinate

(* With the candidate not answered, or turned away, nothing but its stop is entered. *)
LEMMA CoordinateEnters ==
    ASSUME TypeOK, Unentered, Coordinate, driver = "cutover", cut' = cut, driver' = driver,
           cut.reused => pc' # "candidate-health"
    PROVE  Unentered'
<1> USE DEF Phases, ForwardPhases, CleanupPhases, RestoringPhases
<1>1. op \in [Phases -> Steps]
  BY DEF TypeOK
<1>2. SUFFICES ASSUME op'["start-candidate"] \in {"begun", "act"} \/ cut.reused
               PROVE  /\ \A p \in Phases \ {"start-candidate", "stop-candidate"} :
                           op'[p] = "unbegun"
                      /\ pc' \in {"start-candidate", "stop-candidate", "receipt", "idle"}
  BY DEF Unentered
<1>3. pc' # "start-candidate"
  BY CoordinateMoves DEF PhaseAfter
<1>4. \/ op' = op
      \/ pc' \in Phases /\ op' = [op EXCEPT ![pc'] = "begun"]
  BY CoordinateMoves DEF PhaseAfter
<1>5. op["start-candidate"] \in {"begun", "act"} \/ cut.reused
  BY <1>1, <1>2, <1>3, <1>4
<1>6. /\ \A p \in Phases \ {"start-candidate", "stop-candidate"} : op[p] = "unbegun"
      /\ pc \in {"start-candidate", "stop-candidate"}
  BY <1>5, CoordinateMoves DEF Unentered
<1>7. \A p \in RestoringPhases : ~Due(p)
  BY <1>6 DEF Due
<1>8. CASE Advance
  BY <1>1, <1>2, <1>4, <1>5, <1>6, <1>8 DEF Advance, Enter, PhaseAfter
<1>9. CASE RejectCandidate
  BY <1>1, <1>6, <1>9 DEF RejectCandidate, Enter
<1>10. CASE GiveUp
  <2>1. NextCleanup(RestoringPhases) = "receipt"
    BY <1>7 DEF NextCleanup
  <2> QED BY <1>6, <1>10, <2>1 DEF GiveUp, CleanUp
<1>11. CASE CleanupEnds
  <2>1. NextCleanup(CleanupAfter(pc)) = "receipt"
    BY <1>6, <1>7, <1>11 DEF CleanupEnds, CleanupAfter, NextCleanup
  <2> QED BY <1>6, <1>11, <2>1 DEF CleanupEnds, CleanUp
<1>12. CASE Retired
  BY <1>6, <1>12 DEF Retired
<1> QED BY <1>8, <1>9, <1>10, <1>11, <1>12 DEF Coordinate

(* The coordinator goes on, or cleans up.                                  *)
LEMMA CoordinateKeeps ==
    ASSUME Inv, CoordinatorStep
    PROVE  Inv'
<1>1. /\ driver = "cutover" /\ Coordinate
      /\ UNCHANGED <<route, ledger, cut, release, host, driver, seen, left>>
      /\ cut.reused => pc' # "candidate-health"
  BY DEF CoordinatorStep, ownVars
<1>2. TypeOK /\ op \in [Phases -> Steps] /\ outcome \in Outcomes \cup {"none"}
  BY DEF Inv, TypeOK
<1>3. /\ failures' \in BOOLEAN /\ abandoned' \in SUBSET Phases
      /\ pc \in Phases /\ op[pc] # "unbegun"
  BY <1>1, <1>2, CoordinateMoves
<1>4. /\ cut.active # cut.candidate /\ release[cut.active] # release[cut.candidate]
      /\ ledger.receipt = "none"
  BY <1>3, UnderWay DEF Inv, Unsettled
<1>5. ASSUME pc' \in (Phases \cup {"receipt"}) \ {"start-candidate"},
             op' = op \/ (pc' \in Phases /\ op' = [op EXCEPT ![pc'] = "begun"]),
             outcome' \in Outcomes \cup {"none"}
      PROVE  TypeOK' /\ Distinct' /\ Between' /\ Compared' /\ Made' /\ Behind'
  <2>1. op' \in [Phases -> Steps]
    BY <1>2, <1>5 DEF Steps
  <2>2. TypeOK'
    BY <1>1, <1>3, <1>5, <2>1 DEF Inv, TypeOK
  <2>3. Distinct' /\ Between'
    BY <1>1, <1>4 DEF Inv, Distinct, Between, OnItsOwn
  <2>4. \A p \in RoutePhases : op'[p] = op[p] \/ op'[p] = "begun"
    BY <1>2, <1>5 DEF RoutePhases, Phases, ForwardPhases, CleanupPhases, RestoringPhases
  <2>5. Compared'
    BY <1>1, <2>4 DEF Inv, Compared, Trusted, OnItsOwn, RoutePhases
  <2>6. Made' /\ Behind'
    BY <1>1 DEF Inv, Made, Behind, MayWrite
  <2> QED BY <2>2, <2>3, <2>5, <2>6
<1>10. Unentered'
  BY <1>1, <1>2, <1>3, CoordinateEnters DEF Inv
<1> USE DEF Phases, ForwardPhases, CleanupPhases, RestoringPhases
<1>6. CASE /\ pc \in ForwardPhases /\ op[pc] = "done" /\ pc' = PhaseAfter(pc)
           /\ op' = [op EXCEPT ![pc'] = "begun"] /\ outcome' = outcome
  <2>1. pc' \in Phases \ {"start-candidate"}
    BY <1>6 DEF PhaseAfter
  <2>2. TypeOK' /\ Distinct' /\ Between' /\ Compared' /\ Made' /\ Behind'
    BY <1>2, <1>5, <1>6, <2>1
  <2>3. Alone' /\ Unsettled'
    BY <1>1, <1>2, <1>4, <1>6, <2>1 DEF Inv, Alone, Unsettled, PhaseAfter, IsRunning, Ended
  <2>4. Committing' /\ Restoring'
    BY <1>1, <1>2, <1>6, <2>1 DEF Inv, Committing, Committed, PhaseAfter, Restoring
  <2>5. CommitStands'
    BY <1>1, <1>2, <1>4, <1>6, <2>1
       DEF Inv, Alone, Committing, CommitStands, Committed, PhaseAfter, IsRunning, Ended
  <2>6. Undisturbed'
    BY <1>1, <1>2, <1>3, <1>4, <1>6, <2>1 DEF Inv, Undisturbed, Unharmed, OnItsOwn, PhaseAfter, Early
  <2> QED BY <1>10, <2>2, <2>3, <2>4, <2>5, <2>6 DEF Inv
<1>7. CASE /\ pc # "stop-previous"
           /\ pc' \in RestoringPhases
           /\ op' = [op EXCEPT ![pc'] = "begun"] /\ outcome' \in {"none", outcome}
  <2>1. TypeOK' /\ Distinct' /\ Between' /\ Compared' /\ Made' /\ Behind'
    BY <1>2, <1>5, <1>7
  <2>2. Alone' /\ Unsettled' /\ Committing' /\ CommitStands' /\ Restoring'
    BY <1>1, <1>2, <1>4, <1>7 DEF Inv, Alone, Unsettled, Committing, CommitStands, Restoring
  <2>3. Undisturbed'
    BY <1>1, <1>2, <1>3, <1>4, <1>7 DEF Inv, Undisturbed, Unharmed, OnItsOwn, Early
  <2> QED BY <1>10, <2>1, <2>2, <2>3 DEF Inv
<1>8. CASE /\ pc # "stop-previous" /\ pc' = "receipt"
           /\ op' = op /\ outcome' \in {"failed", "rolled-back"}
  <2>1. TypeOK' /\ Distinct' /\ Between' /\ Compared' /\ Made' /\ Behind'
    BY <1>5, <1>8 DEF Outcomes
  <2>2. Alone' /\ Unsettled' /\ Committing' /\ CommitStands' /\ Restoring'
    BY <1>1, <1>2, <1>4, <1>8
       DEF Inv, Alone, Unsettled, Committing, CommitStands, Restoring, Outcomes
  <2>3. Undisturbed'
    BY <1>1, <1>2, <1>3, <1>4, <1>8 DEF Inv, Undisturbed, Unharmed, OnItsOwn, Early
  <2> QED BY <1>10, <2>1, <2>2, <2>3 DEF Inv
<1>9. CASE /\ pc = "stop-previous" /\ pc' = "receipt"
           /\ op' = op /\ outcome' = "committed"
  <2>1. TypeOK' /\ Distinct' /\ Between' /\ Compared' /\ Made' /\ Behind'
    BY <1>5, <1>9 DEF Outcomes
  <2>2. Alone' /\ Unsettled' /\ Committing' /\ Restoring'
    BY <1>1, <1>2, <1>4, <1>9 DEF Inv, Alone, Unsettled, Committing, Restoring, Outcomes
  <2>3. CommitStands'
    BY <1>1, <1>9 DEF Inv, CommitStands, Trusted, Committed, IsRunning
  <2>4. Undisturbed'
    BY <1>1, <1>2, <1>3, <1>4, <1>9 DEF Inv, Undisturbed, Unharmed, OnItsOwn, Early
  <2> QED BY <1>10, <2>1, <2>2, <2>3, <2>4 DEF Inv
<1> HIDE DEF Phases, ForwardPhases, CleanupPhases, RestoringPhases
<1> QED BY <1>1, <1>2, <1>6, <1>7, <1>8, <1>9, CoordinateMoves

(* The receipt is written, or fails to be.                                 *)
LEMMA ReceiptKeeps ==
    ASSUME Inv, WriteReceipt
    PROVE  Inv'
<1> USE DEF Phases, ForwardPhases, CleanupPhases, RestoringPhases
<1>1. /\ pc = "receipt" /\ pc' = "idle" /\ outcome' = "none"
      /\ UNCHANGED <<op, failures, abandoned, route, host, seen, cut, release, driver, left>>
      /\ \/ ledger.receipt = "none" /\ ledger' = [ledger EXCEPT !.receipt = outcome]
         \/ ledger' = ledger
  BY DEF WriteReceipt, ReceiptWritten
<1>2. /\ ledger \in [phase : Phases \cup {"none"}, known : BOOLEAN, receipt : Outcomes \cup {"none"}]
      /\ outcome \in Outcomes
  BY <1>1 DEF Inv, TypeOK, Unsettled
<1>3. /\ ledger' \in [phase : Phases \cup {"none"}, known : BOOLEAN, receipt : Outcomes \cup {"none"}]
      /\ ledger'.phase = ledger.phase
      /\ ledger'.receipt = ledger.receipt \/ ledger'.receipt = outcome
  BY <1>1, <1>2
<1>4. TypeOK'
  BY <1>1, <1>3 DEF Inv, TypeOK
<1>5. Distinct' /\ Between' /\ Compared'
  BY <1>1 DEF Inv, Distinct, NothingBegan, Between, Compared, Trusted, OnItsOwn
<1>6. Alone' /\ Unentered' /\ Unsettled' /\ Committing'
  BY <1>1 DEF Inv, Alone, Unentered, Unsettled, Committing, Committed, OnItsOwn, IsRunning
<1>7. CommitStands'
  BY <1>1, <1>3 DEF Inv, CommitStands, Trusted, OnItsOwn, Committed, IsRunning
<1>8. Undisturbed'
  BY <1>1, <1>2, <1>3 DEF Inv, Undisturbed, OnItsOwn, Unharmed, Outcomes
<1>9. Restoring'
  BY <1>1, <1>3 DEF Inv, Restoring, OnItsOwn, Unharmed, Restored, Quiet, IsRunning
<1>10. Made' /\ Behind'
  BY <1>1 DEF Inv, Made, Behind, MayWrite
<1> QED BY <1>4, <1>5, <1>6, <1>7, <1>8, <1>9, <1>10 DEF Inv

-----------------------------------------------------------------------------
(* Recovery.                                                               *)

(* What the route, compared by releases, says of the two hosts.            *)
LEMMA ResolutionIsSound ==
    ASSUME Inv, IsOpen, Resolution # "manual"
    PROVE  /\ cut.active # cut.candidate /\ release[cut.active] # release[cut.candidate]
           /\ \/ Resolution = "stop-candidate" /\ ledger.phase \in Early
              \/ /\ Resolution \in {"resume-active", "rollback-traffic", "commit-candidate"}
                 /\ ledger.phase \notin Early
           /\ OnItsOwn =>
                IF Resolution \in {"stop-candidate", "resume-active"}
                THEN route.active = cut.active ELSE route.active = cut.candidate
<1>1. cut.active # cut.candidate /\ release[cut.active] # release[cut.candidate]
  BY DEF Inv, Distinct, NothingBegan, IsOpen
<1>2. OnItsOwn =>
        /\ route.active \in {cut.active, cut.candidate}
        /\ ReleaseIs(route.active, cut.active) => route.active = cut.active
        /\ ReleaseIs(route.active, cut.candidate) => route.active = cut.candidate
  BY <1>1 DEF Inv, Between, ReleaseIs
<1>3. \/ RecoveryAction = "stop" /\ ledger.phase \in {"start-candidate", "candidate-health"}
      \/ /\ RecoveryAction \in {"resume", "rollback", "finish", "verify"}
         /\ ledger.phase \notin {"start-candidate", "candidate-health"}
  BY DEF RecoveryAction
<1>4. \/ /\ Resolution = "stop-candidate"
         /\ RecoveryAction = "stop" /\ ReleaseIs(route.active, cut.active)
      \/ /\ Resolution = "resume-active"
         /\ RecoveryAction \in {"resume", "rollback"} /\ ReleaseIs(route.active, cut.active)
      \/ /\ Resolution = "rollback-traffic"
         /\ RecoveryAction = "rollback" /\ ReleaseIs(route.active, cut.candidate)
      \/ /\ Resolution = "commit-candidate"
         /\ RecoveryAction = "finish" /\ ReleaseIs(route.active, cut.candidate)
  BY DEF Resolution
<1>5. ledger.phase # "none"
  BY DEF IsOpen
<1> QED BY <1>1, <1>2, <1>3, <1>4, <1>5 DEF Early

(* A recovery begins from what the route says, perhaps beside what was given up. *)
LEMMA RecoverKeeps ==
    ASSUME Inv, Recover
    PROVE  Inv'
<1> DEFINE R == Resolution
<1>1. /\ pc = "idle" /\ IsOpen /\ R # "manual"
      /\ driver' = "recovery" /\ pc' = R
      /\ op' = [Unbegun EXCEPT ![R] = IF R = "commit-candidate" THEN "verify" ELSE "begun"]
      /\ seen' = [p \in RoutePhases |-> route.generation]
      /\ failures' = FALSE
      /\ left' = LeftBehind /\ cut' = [cut EXCEPT !.beside = @ \/ left' # {}]
      /\ UNCHANGED <<route, ledger, host, release, outcome, abandoned>>
  BY DEF Recover, diskVars
<1>2. /\ cut.active # cut.candidate /\ release[cut.active] # release[cut.candidate]
      /\ \/ R = "stop-candidate" /\ ledger.phase \in Early
         \/ /\ R \in {"resume-active", "rollback-traffic", "commit-candidate"}
            /\ ledger.phase \notin Early
      /\ OnItsOwn => IF R \in {"stop-candidate", "resume-active"}
                     THEN route.active = cut.active ELSE route.active = cut.candidate
  BY <1>1, ResolutionIsSound
<1> HIDE DEF R
<1> USE DEF Phases, ForwardPhases, CleanupPhases, RestoringPhases
<1>3. R \in Phases
  BY <1>2
<1>4. /\ op' \in [Phases -> Steps]
      /\ \A p \in Phases \ {R} : op'[p] = "unbegun"
      /\ op'[R] = IF R = "commit-candidate" THEN "verify" ELSE "begun"
  BY <1>1, <1>3 DEF Unbegun, Steps
<1>5. route.generation \in Nat /\ seen' \in [RoutePhases -> Nat] /\ ledger.receipt = "none"
  BY <1>1 DEF Inv, TypeOK, IsOpen
<1>6. /\ cut'.active = cut.active /\ cut'.candidate = cut.candidate /\ cut'.ran = cut.ran
      /\ cut'.reused = cut.reused /\ (cut'.beside <=> cut.beside \/ left' # {})
      /\ cut' \in [active : Hosts, ran : BOOLEAN, candidate : Hosts, reused : BOOLEAN,
                   beside : BOOLEAN]
  <2>1. cut \in [active : Hosts, ran : BOOLEAN, candidate : Hosts, reused : BOOLEAN,
                 beside : BOOLEAN]
    BY DEF Inv, TypeOK
  <2> QED BY <1>1, <2>1
<1>7. TypeOK'
  <2> HIDE DEF Phases, ForwardPhases, CleanupPhases, RestoringPhases
  <2>1. TypeOK
    BY DEF Inv
  <2>2. left' \subseteq [phase : EffectPhases, step : Steps, by : {"cutover", "recovery"},
                         active : Hosts, candidate : Hosts, seen : Nat]
    BY <1>1, LeftBehindIsMade
  <2> QED BY <1>1, <1>3, <1>4, <1>5, <1>6, <2>1, <2>2 DEF TypeOK
<1>8. OnItsOwn' => OnItsOwn
  BY <1>6 DEF OnItsOwn
<1>9. Distinct' /\ Between' /\ Unsettled' /\ Unentered'
  BY <1>1, <1>2, <1>3, <1>5, <1>6, <1>8 DEF Inv, Distinct, Between, Unsettled, Unentered
<1>10. Compared'
  BY <1>1, <1>2, <1>4, <1>5, <1>6, <1>8 DEF Compared, Trusted, RoutePhases
<1>11. Alone'
  BY <1>1, <1>2, <1>4 DEF Alone, IsRunning, Ended
<1>12. Committing'
  BY <1>1, <1>2, <1>4, <1>6, <1>8 DEF Committing
<1>13. CommitStands'
  BY <1>1, <1>2, <1>5 DEF CommitStands
<1>14. Undisturbed' /\ Restoring'
  BY <1>1, <1>2, <1>4, <1>5, <1>6, <1>8 DEF Inv, Undisturbed, Restoring, Early, Unharmed
<1>15. Made' /\ Behind'
  BY <1>1, <1>2, <1>6, LeftBehindIsMade DEF Inv, Made, Behind
<1> QED BY <1>7, <1>9, <1>10, <1>11, <1>12, <1>13, <1>14, <1>15 DEF Inv

(* The executor goes on when its operation has succeeded.                  *)
LEMMA RecoveryAdvanceKeeps ==
    ASSUME Inv, RecoveryAdvance
    PROVE  Inv'
<1> USE DEF Phases, ForwardPhases, CleanupPhases, RestoringPhases
<1>1. /\ driver = "recovery" /\ pc \in Phases /\ op[pc] = "done"
      /\ UNCHANGED <<route, ledger, host, seen, cut, release, driver, failures, abandoned, left>>
      /\ \/ pc = "rollback-traffic" /\ pc' = "resume-active" /\ outcome' = "none"
            /\ op' = [op EXCEPT !["resume-active"] = "begun"]
         \/ pc = "resume-active" /\ pc' = "stop-candidate" /\ outcome' = "none"
            /\ op' = [op EXCEPT !["stop-candidate"] = "begun"]
         \/ pc = "commit-candidate" /\ pc' = "stop-previous" /\ outcome' = "none"
            /\ op' = [op EXCEPT !["stop-previous"] = "begun"]
         \/ pc = "stop-previous" /\ pc' = "receipt" /\ op' = op /\ outcome' = "committed"
         \/ pc \notin {"rollback-traffic", "resume-active", "commit-candidate", "stop-previous"}
            /\ pc' = "receipt" /\ op' = op /\ outcome' = "rolled-back"
  BY DEF RecoveryAdvance, RecoveryAfter, diskVars
<1>2. op' \in [Phases -> Steps] /\ op \in [Phases -> Steps]
  BY <1>1 DEF Inv, TypeOK, Steps
<1>3. /\ cut.active # cut.candidate /\ release[cut.active] # release[cut.candidate]
      /\ cut.active \in Hosts /\ cut.candidate \in Hosts
      /\ ledger.receipt = "none"
  BY <1>1, UnderWay DEF Inv, Unsettled
<1>4. /\ \A p \in Phases : ~IsRunning(p)
      /\ pc \in {"stop-candidate", "resume-active", "rollback-traffic", "commit-candidate",
                 "stop-previous"}
  BY <1>1 DEF Inv, Alone, IsRunning, Ended
<1>5. TypeOK'
  BY <1>1, <1>2 DEF Inv, TypeOK, Outcomes
<1>6. Distinct' /\ Between' /\ Unentered' /\ Made' /\ Behind'
  BY <1>1, <1>3 DEF Inv, Distinct, Between, OnItsOwn, Unentered, Made, Behind, MayWrite
<1>7. Compared'
  BY <1>1, <1>2 DEF Inv, Compared, Trusted, OnItsOwn, RoutePhases
<1>8. pc' \in Phases => op'[pc'] = "begun" /\ \A p \in Phases \ {pc'} : op'[p] = op[p]
  BY <1>1, <1>2
<1>9. Alone'
  BY <1>1, <1>2, <1>4, <1>8 DEF Inv, Alone, IsRunning
<1>10. Unsettled' /\ Committing'
  BY <1>1, <1>2, <1>3 DEF Inv, Unsettled, Committing, OnItsOwn, Committed, Outcomes
<1>11. CommitStands'
  BY <1>1, <1>2, <1>3, <1>4 DEF Inv, Committing, CommitStands, Trusted, OnItsOwn, Committed, IsRunning
<1>12. Undisturbed'
  <2>1. OnItsOwn /\ ledger.phase \in Early => pc # "commit-candidate"
    BY <1>1 DEF Inv, Undisturbed
  <2> QED BY <1>1, <1>2, <1>3, <2>1 DEF Inv, Undisturbed, Unharmed, OnItsOwn, Early
<1>13. Restoring'
  BY <1>1, <1>2, <1>3, <1>4 DEF Inv, Restoring, OnItsOwn, Unharmed, Restored, Quiet, IsRunning
<1> QED BY <1>5, <1>6, <1>7, <1>9, <1>10, <1>11, <1>12, <1>13 DEF Inv

(* The executor gives up; what it began may run on.                        *)
LEMMA RecoveryFailsKeeps ==
    ASSUME Inv, RecoveryFails
    PROVE  Inv'
<1>1. /\ driver = "recovery" /\ pc \in Phases /\ pc' = "idle"
      /\ op[pc] # "unbegun"
      /\ UNCHANGED <<route, ledger, host, seen, op, cut, release, driver, failures, outcome,
                     abandoned, left>>
  BY DEF RecoveryFails, diskVars, WaitEnds, IsRunning, Ended
<1>2. /\ cut.active # cut.candidate /\ release[cut.active] # release[cut.candidate]
      /\ ledger.receipt = "none"
  BY <1>1, UnderWay DEF Inv, Unsettled
<1> USE DEF Phases, ForwardPhases, CleanupPhases, RestoringPhases
<1>3. TypeOK' /\ Distinct' /\ Between' /\ Compared'
  BY <1>1, <1>2 DEF Inv, TypeOK, Distinct, Between, Compared, Trusted, OnItsOwn
<1>4. Alone' /\ Unentered' /\ Unsettled' /\ Committing' /\ CommitStands'
  BY <1>1, <1>2 DEF Inv, Alone, Unentered, Unsettled, Committing, Committed, CommitStands,
        Trusted, OnItsOwn, IsRunning
<1>5. Undisturbed' /\ Restoring' /\ Made' /\ Behind'
  BY <1>1, <1>2 DEF Inv, Undisturbed, Restoring, OnItsOwn, Unharmed, Made, Behind, MayWrite
<1> QED BY <1>3, <1>4, <1>5 DEF Inv

-----------------------------------------------------------------------------
(* Every step keeps the invariant.                                         *)
LEMMA StepKeeps ==
    ASSUME Inv, [Next]_vars
    PROVE  Inv'
<1>1. CASE Operation
  BY <1>1, RecordKeeps, ThrowKeeps, ActKeeps, CheckKeeps, PersistKeeps, ApplyKeeps, VerifyKeeps,
     UndoKeeps, ReuseKeeps DEF Operation
<1>2. CASE Driver
  BY <1>2, StartKeeps, CoordinateKeeps, ReceiptKeeps, RecoverKeeps, RecoveryAdvanceKeeps,
     RecoveryFailsKeeps DEF Driver
<1>3. CASE Crash
  BY <1>3, CrashKeeps
<1>4. CASE LateOperation
  BY <1>4, LateKeeps
<1>5. CASE UNCHANGED vars
  <2>1. UNCHANGED <<route, ledger, cut, release, host, driver, seen, pc, op, failures, outcome,
                    abandoned, left>>
    BY <1>5 DEF vars, coordinatorVars
  <2> QED BY <2>1 DEF Inv, TypeOK, Distinct, NothingBegan, Between, Compared, Alone, Unentered,
          Unsettled, Committing, Committed, CommitStands, Trusted, OnItsOwn, Made, Behind,
          MayWrite, Undisturbed, Unharmed, Restoring, Restored, Quiet, IsRunning
<1> QED BY <1>1, <1>2, <1>3, <1>4, <1>5 DEF Next

LEMMA Invariance == Spec => []Inv
<1>1. Init => Inv
  BY InitInv
<1>2. Inv /\ [Next]_vars => Inv'
  BY StepKeeps
<1> QED BY <1>1, <1>2, PTL DEF Spec

-----------------------------------------------------------------------------
(* What a cutover that is given up leaves behind, as long as it left no    *)
(* loose end: every operation that began has ended, and is undone.         *)

(* An instance that has not been made does not run.                        *)
Unmade == \A h \in Hosts : release[h] = None => host[h] = "absent"

(* The phases whose effect the coordinator must know of to take it back.   *)
Disturbing == {"start-candidate", "quiesce-active", "switch-traffic"}

InOrder ==
    /\ op["switch-traffic"] # "unbegun" => op["quiesce-active"] = "done"
    /\ op["rollback-traffic"] # "unbegun" \/ op["commit-candidate"] # "unbegun"
         => op["switch-traffic"] = "done"
    /\ op["resume-active"] # "unbegun"
         => op["quiesce-active"] = "done" /\ op["stop-previous"] = "unbegun"
    /\ op["stop-candidate"] # "unbegun" => op["start-candidate"] = "done"
    /\ op["stop-previous"] # "unbegun"
         => pc = "stop-previous" \/ (pc = "receipt" /\ outcome = "committed")
    /\ pc \in Disturbing \cup {"candidate-health"} => op[pc] # "unbegun"
    /\ pc \in ForwardPhases => \A p \in CleanupPhases : op[p] = "unbegun"
    /\ pc \in ForwardPhases \ {"switch-traffic", "candidate-canary", "commit-candidate"}
         => op["switch-traffic"] = "unbegun"
    /\ pc \in {"candidate-canary", "commit-candidate", "stop-previous"}
         => op["switch-traffic"] = "done"
    /\ \A p \in Disturbing : IsRunning(p) => pc = p

NotActed == {"unbegun", "begun", "act", "failed"}

(* What the progress of an operation says of its effect.                   *)
Effects ==
    /\ \A p \in {"start-candidate", "quiesce-active"} : op[p] \in NotActed \cup {"done"}
    /\ op["switch-traffic"] \notin {"act", "verify"}
    /\ op["start-candidate"] \in NotActed => host[cut.candidate] # "running"
    /\ op["quiesce-active"] \in NotActed /\ op["stop-previous"] = "unbegun" => Unharmed
    /\ op["switch-traffic"] \in {"unbegun", "begun", "check", "persist", "failed"}
         => route.active = cut.active
    /\ op["rollback-traffic"] \in {"apply", "done"} => route.active = cut.active
    /\ op["resume-active"] = "done" => Unharmed
    /\ op["stop-candidate"] = "done" => host[cut.candidate] = "stopped"

(* A cleanup without a failure so far has undone what it went over.        *)
Undone ==
    failures = FALSE =>
      /\ pc \in {"resume-active", "stop-candidate"} /\ op["switch-traffic"] = "done"
           => op["rollback-traffic"] = "done"
      /\ pc = "stop-candidate" /\ op["quiesce-active"] = "done" => op["resume-active"] = "done"

(* Nothing that would disturb a restored host is under way.                *)
AtRest == \A p \in Disturbing \cup {"stop-previous"} : ~IsRunning(p)

RolledBack == (pc = "receipt" /\ outcome = "rolled-back") \/ ledger.receipt = "rolled-back"

Tidy ==
    driver = "cutover" /\ OnItsOwn /\ LooseEnds = {} =>
      /\ pc # "idle" => InOrder /\ Effects /\ Undone
      /\ RolledBack => Restored /\ AtRest

TidyInv == Inv /\ Unmade /\ Tidy

(* A loose end is never tied up.                                           *)
LEMMA LooseEndsStay ==
    ASSUME abandoned \subseteq abandoned', LooseEnds' = {}
    PROVE  LooseEnds = {}
BY DEF LooseEnds

(* A phase is written to the ledger.                                       *)
LEMMA RecordTidies ==
    ASSUME TidyInv, NEW p \in Phases, Record(p)
    PROVE  Unmade' /\ Tidy'
<1> USE DEF Phases, ForwardPhases, CleanupPhases, RestoringPhases
<1>1. /\ op[p] = "begun" /\ ledger.receipt = "none" /\ ledger'.receipt = "none"
      /\ op' = [op EXCEPT ![p] = Recorded(p)] \/ op' = [op EXCEPT ![p] = Thrown(p)]
      /\ UNCHANGED <<route, host, seen, cut, release, driver, pc, failures, outcome, abandoned>>
  <2>1. ledger \in [phase : Phases \cup {"none"}, known : BOOLEAN, receipt : Outcomes \cup {"none"}]
    BY DEF TidyInv, Inv, TypeOK
  <2> QED BY <2>1 DEF Record, driverVars
<1>2. op \in [Phases -> Steps]
  BY DEF TidyInv, Inv, TypeOK
<1>3. /\ p \in {"switch-traffic"} => Recorded(p) = "check"
      /\ p \notin {"rollback-traffic", "commit-candidate", "switch-traffic"} => Recorded(p) = "act"
      /\ Thrown(p) \in {Recorded(p), "failed"}
      /\ Recorded(p) \in {"check", "persist", "act"}
  BY <1>1, RecordedIsStep DEF Recorded, RecordedBy
<1>4. Unmade'
  BY <1>1 DEF TidyInv, Unmade
<1>5. Tidy'
  <2> SUFFICES ASSUME driver = "cutover", OnItsOwn, LooseEnds = {} PROVE Tidy'
    BY <1>1 DEF Tidy, LooseEnds, OnItsOwn
  <2>1. Tidy
    BY DEF TidyInv
  <2>2. ASSUME pc # "idle" PROVE InOrder'
    BY <1>1, <1>2, <1>3, <2>1, <2>2 DEF Tidy, InOrder, Disturbing, IsRunning, Ended
  <2>3. ASSUME pc # "idle" PROVE Effects'
    BY <1>1, <1>2, <1>3, <2>1, <2>3 DEF Tidy, Effects, Unharmed, NotActed
  <2>4. ASSUME pc # "idle" PROVE Undone'
    BY <1>1, <1>2, <1>3, <2>1, <2>4 DEF Tidy, Undone
  <2>5. ASSUME RolledBack' PROVE Restored' /\ AtRest'
    BY <1>1, <1>2, <1>3, <2>1, <2>5 DEF Tidy, RolledBack, Restored, AtRest, Disturbing,
          IsRunning, Ended
  <2> QED BY <1>1, <2>2, <2>3, <2>4, <2>5 DEF Tidy
<1> QED BY <1>4, <1>5

(* A step throws.  A switch that could not be taken back is a loose end.   *)
LEMMA ThrowTidies ==
    ASSUME TidyInv, NEW p \in Phases, Throw(p)
    PROVE  Unmade' /\ Tidy'
<1> USE DEF Phases, ForwardPhases, CleanupPhases, RestoringPhases
<1>1. /\ IsRunning(p)
      /\ op' = [op EXCEPT ![p] = Thrown(p)]
      /\ abandoned' = IF op[p] = "undo" THEN abandoned \cup {p} ELSE abandoned
      /\ UNCHANGED <<route, ledger, host, seen, cut, release, driver, pc, failures, outcome>>
  BY DEF Throw, driverVars, diskVars
<1>2. op \in [Phases -> Steps]
  BY DEF TidyInv, Inv, TypeOK
<1>3. \/ /\ op[p] = "begun" /\ p \in CleanupPhases
         /\ Thrown(p) = Recorded(p) /\ Recorded(p) \in {"check", "persist", "act"}
      \/ op[p] = "apply" /\ p = "switch-traffic" /\ Thrown(p) = "undo"
      \/ Thrown(p) = "failed" /\ ~(op[p] = "apply" /\ p = "switch-traffic")
  BY RecordedIsStep DEF Thrown
<1>4. Unmade'
  BY <1>1 DEF TidyInv, Unmade
<1>5. Tidy'
  <2> SUFFICES ASSUME driver = "cutover", OnItsOwn, LooseEnds' = {} PROVE Tidy'
    BY <1>1 DEF Tidy, LooseEnds, OnItsOwn
  <2>1. Tidy /\ LooseEnds = {} /\ (p = "switch-traffic" => op[p] # "undo")
    BY <1>1, LooseEndsStay DEF TidyInv, LooseEnds
  <2>2. ASSUME pc # "idle" PROVE InOrder'
    BY <1>1, <1>2, <1>3, <2>1, <2>2 DEF Tidy, InOrder, Disturbing, IsRunning, Ended
  <2>3. ASSUME pc # "idle" PROVE Effects'
    <3>1. Effects
      BY <2>1, <2>3 DEF Tidy
    <3>2. op[p] \notin Ended /\ op'[p] = Thrown(p) /\ \A q \in Phases \ {p} : op'[q] = op[q]
      BY <1>1, <1>2 DEF IsRunning
    <3>3. \A q \in Phases : q \in Disturbing => op'[q] \in {op[q], "failed"} \/ (op'[q] = "undo" /\ op[q] = "apply")
      BY <1>3, <3>2 DEF Disturbing
    <3>4. /\ op'["start-candidate"] \in {op["start-candidate"], "failed"}
          /\ op'["quiesce-active"] \in {op["quiesce-active"], "failed"}
          /\ op'["start-candidate"] = "failed" => op["start-candidate"] \in NotActed
          /\ op'["quiesce-active"] = "failed" => op["quiesce-active"] \in NotActed
      BY <3>1, <3>2, <3>3 DEF Effects, Unharmed, NotActed, Disturbing, Ended
    <3>5. /\ \/ op'["switch-traffic"] \in {op["switch-traffic"], "failed"}
             \/ op'["switch-traffic"] = "undo" /\ op["switch-traffic"] = "apply"
          /\ op["switch-traffic"] \in {"apply", "undo", "done"} => op'["switch-traffic"] # "failed"
      BY <1>3, <2>1, <3>2, <3>3 DEF Disturbing, Ended
    <3>6. /\ op'["stop-previous"] = "unbegun" => op["stop-previous"] = "unbegun"
          /\ op'["rollback-traffic"] \in {"apply", "done"} => op'["rollback-traffic"] = op["rollback-traffic"]
          /\ op'["resume-active"] = "done" => op["resume-active"] = "done"
          /\ op'["stop-candidate"] = "done" => op["stop-candidate"] = "done"
      BY <1>3, <3>2 DEF Ended
    <3> QED BY <1>1, <1>2, <3>1, <3>4, <3>5, <3>6 DEF Effects, Unharmed, NotActed, Steps
  <2>4. ASSUME pc # "idle" PROVE Undone'
    BY <1>1, <1>2, <1>3, <2>1, <2>4 DEF Tidy, Undone, IsRunning, Ended
  <2>5. ASSUME RolledBack' PROVE Restored' /\ AtRest'
    BY <1>1, <1>2, <1>3, <2>1, <2>5 DEF Tidy, RolledBack, Restored, AtRest, Disturbing,
          IsRunning, Ended
  <2> QED BY <1>1, <2>2, <2>3, <2>4, <2>5 DEF Tidy
<1> QED BY <1>4, <1>5

(* The platform adapter acts for the operation of a phase.                 *)
LEMMA ActTidies ==
    ASSUME TidyInv, NEW p \in Phases, Act(p)
    PROVE  Unmade' /\ Tidy'
<1> USE DEF Phases, ForwardPhases, CleanupPhases, RestoringPhases
<1>1. /\ op[p] = "act" /\ Platform(p, driver, cut.active, Candidate)
      /\ p = "commit-candidate" => op' = [op EXCEPT ![p] = "check"]
      /\ p # "commit-candidate" => op' = [op EXCEPT ![p] = "done"]
      /\ UNCHANGED <<route, ledger, seen, cut, release, driver, pc, failures, outcome, abandoned>>
  BY DEF Act, Acted, driverVars, diskVars
<1>2. /\ op \in [Phases -> Steps]
      /\ host \in [Hosts -> {"absent", "running", "quiesced", "stopped"}]
  BY DEF TidyInv, Inv, TypeOK
<1>3. /\ cut.active # cut.candidate
      /\ cut.active \in Hosts /\ cut.candidate \in Hosts
      /\ release[cut.active] # None /\ release[cut.candidate] # None
  BY <1>1, UnderWay DEF TidyInv, Inv, Distinct
<1>7. Candidate \in {cut.active, cut.candidate} /\ (OnItsOwn => Candidate = cut.candidate)
  BY DEF Candidate, OnItsOwn
<1>4. \/ p = "start-candidate" /\ host' = [host EXCEPT ![Candidate] = "running"]
      \/ p = "quiesce-active" /\ host' = [host EXCEPT ![cut.active] = "quiesced"]
      \/ p = "resume-active" /\ host' = [host EXCEPT ![cut.active] = "running"]
      \/ p = "stop-candidate" /\ host' = [host EXCEPT ![Candidate] = "stopped"]
      \/ p = "stop-previous" /\ host' = [host EXCEPT ![cut.active] = "stopped"]
      \/ p \notin {"start-candidate", "quiesce-active", "resume-active", "stop-candidate",
                   "stop-previous", "switch-traffic", "rollback-traffic"} /\ host' = host
  BY <1>1 DEF Platform, SetHost
<1>5. Unmade'
  BY <1>1, <1>2, <1>3, <1>4, <1>7 DEF TidyInv, Unmade
<1>6. Tidy'
  <2> SUFFICES ASSUME driver = "cutover", OnItsOwn, LooseEnds = {} PROVE Tidy'
    BY <1>1 DEF Tidy, LooseEnds, OnItsOwn
  <2>1. Tidy
    BY DEF TidyInv
  <2>2. ASSUME pc # "idle" PROVE InOrder'
    BY <1>1, <1>2, <2>1, <2>2 DEF Tidy, InOrder, Disturbing, IsRunning, Ended
  <2>3. ASSUME pc # "idle" PROVE Effects'
    <3>1. InOrder /\ Effects
      BY <2>1, <2>3 DEF Tidy
    <3> QED BY <1>1, <1>2, <1>3, <1>4, <1>7, <3>1 DEF InOrder, Effects, Unharmed, NotActed, Disturbing,
                  IsRunning, Ended
  <2>4. ASSUME pc # "idle" PROVE Undone'
    BY <1>1, <1>2, <2>1, <2>4 DEF Tidy, InOrder, Undone, Disturbing, IsRunning, Ended
  <2>5. ASSUME RolledBack' PROVE Restored' /\ AtRest'
    <3>1. Restored /\ AtRest
      BY <1>1, <2>1, <2>5 DEF Tidy, RolledBack
    <3>2. p \notin Disturbing \cup {"stop-previous"}
      BY <1>1, <3>1 DEF AtRest, IsRunning, Ended
    <3> QED BY <1>1, <1>2, <1>3, <1>4, <1>7, <3>1, <3>2 DEF Restored, AtRest, Disturbing, IsRunning, Ended
  <2> QED BY <1>1, <2>2, <2>3, <2>4, <2>5 DEF Tidy
<1> QED BY <1>5, <1>6

(* The route is compared, or applied: neither changes it.                  *)
LEMMA RouteTidies ==
    ASSUME TidyInv, NEW p \in RoutePhases, Check(p) \/ Apply(p)
    PROVE  Unmade' /\ Tidy'
<1> USE DEF Phases, ForwardPhases, CleanupPhases, RestoringPhases
<1>1. /\ p \in Phases
      /\ \/ op[p] = "check" /\ op' = [op EXCEPT ![p] = "persist"] /\ route.active = ExpectedActive(p)
         \/ op[p] = "apply" /\ op' = [op EXCEPT ![p] = "done"]
      /\ UNCHANGED <<route, ledger, host, cut, release, driver, pc, failures, outcome, abandoned>>
  BY DEF Check, Apply, driverVars, diskVars, RoutePhases
<1>2. op \in [Phases -> Steps]
  BY DEF TidyInv, Inv, TypeOK
<1>3. Unmade'
  BY <1>1 DEF TidyInv, Unmade
<1>4. Tidy'
  <2> SUFFICES ASSUME driver = "cutover", OnItsOwn, LooseEnds = {} PROVE Tidy'
    BY <1>1 DEF Tidy, LooseEnds, OnItsOwn
  <2>1. Tidy
    BY DEF TidyInv
  <2>2. ASSUME pc # "idle" PROVE InOrder'
    BY <1>1, <1>2, <2>1, <2>2 DEF Tidy, InOrder, Disturbing, IsRunning, Ended, RoutePhases
  <2>3. ASSUME pc # "idle" PROVE Effects'
    BY <1>1, <1>2, <2>1, <2>3 DEF Tidy, Effects, Unharmed, NotActed, RoutePhases, ExpectedActive
  <2>4. ASSUME pc # "idle" PROVE Undone'
    BY <1>1, <1>2, <2>1, <2>4 DEF Tidy, InOrder, Undone, Disturbing, IsRunning, Ended, RoutePhases
  <2>5. ASSUME RolledBack' PROVE Restored' /\ AtRest'
    BY <1>1, <1>2, <2>1, <2>5 DEF Tidy, RolledBack, Restored, AtRest, Disturbing, IsRunning, Ended
  <2> QED BY <1>1, <2>2, <2>3, <2>4, <2>5 DEF Tidy
<1> QED BY <1>3, <1>4

(* Only the executor asks the platform who is authoritative.               *)
LEMMA VerifyTidies ==
    ASSUME TidyInv, Verify
    PROVE  Unmade' /\ Tidy'
<1>1. driver' = "recovery" /\ UNCHANGED <<host, release>>
  BY DEF Verify, TidyInv, Inv, TypeOK, Committing, driverVars
<1> QED BY <1>1 DEF TidyInv, Unmade, Tidy

(* A mutation of the route is written.  A commit keeps the authority where it is, and a *)
(* rollback gives it back.                                                 *)
LEMMA PersistTidies ==
    ASSUME TidyInv, NEW p \in RoutePhases, Persist(p)
    PROVE  Unmade' /\ Tidy'
<1> USE DEF Phases, ForwardPhases, CleanupPhases, RestoringPhases
<1>1. /\ p \in Phases /\ op[p] = "persist"
      /\ op' = [op EXCEPT ![p] = "done"] \/ op' = [op EXCEPT ![p] = "apply"]
      /\ p # "commit-candidate" => op' = [op EXCEPT ![p] = "apply"]
      /\ route.generation = seen[p]
      /\ UNCHANGED <<ledger, host, cut, release, driver, pc, failures, outcome, abandoned>>
  BY DEF Persist, Fresh, driverVars, RoutePhases
<1>2. op \in [Phases -> Steps]
  BY DEF TidyInv, Inv, TypeOK
<1>3. cut.active # cut.candidate
  BY <1>1, UnderWay DEF TidyInv
<1>4. driver = "cutover" =>
        /\ p = "switch-traffic" => route.active = cut.active
        /\ p # "switch-traffic" => route.active = cut.candidate
  BY <1>1 DEF TidyInv, Inv, Compared, Trusted, RoutePhases
<1>5. /\ p = "rollback-traffic" /\ driver = "cutover" /\ OnItsOwn => route'.active = cut.active
      /\ p = "commit-candidate" => route'.active = route.active
  <2>1. p = "commit-candidate" => route' = Commit
    BY DEF Persist, Mutated
  <2>2. p = "rollback-traffic" => route' = Rollback /\ route.previous # None
    BY DEF Persist, Fresh, Mutated, HasPrevious
  <2> QED BY <1>4, <2>1, <2>2 DEF Commit, Rollback, Revision, TidyInv, Inv, Between
<1>6. Unmade'
  BY <1>1 DEF TidyInv, Unmade
<1>7. Tidy'
  <2> SUFFICES ASSUME driver = "cutover", OnItsOwn, LooseEnds = {} PROVE Tidy'
    BY <1>1 DEF Tidy, LooseEnds, OnItsOwn
  <2>1. Tidy
    BY DEF TidyInv
  <2>2. ASSUME pc # "idle" PROVE InOrder'
    BY <1>1, <1>2, <2>1, <2>2 DEF Tidy, InOrder, Disturbing, IsRunning, Ended, RoutePhases
  <2>3. ASSUME pc # "idle" PROVE Effects'
    <3>1. InOrder /\ Effects
      BY <2>1, <2>3 DEF Tidy
    <3> QED BY <1>1, <1>2, <1>3, <1>4, <1>5, <3>1 DEF InOrder, Effects, Unharmed, NotActed, RoutePhases
  <2>4. ASSUME pc # "idle" PROVE Undone'
    BY <1>1, <1>2, <2>1, <2>4 DEF Tidy, InOrder, Undone, Disturbing, IsRunning, Ended, RoutePhases
  <2>5. ~RolledBack'
    BY <1>1, <1>2, <1>3, <1>4, <2>1 DEF Tidy, RolledBack, Restored, AtRest, Disturbing,
          IsRunning, Ended, RoutePhases
  <2> QED BY <1>1, <2>2, <2>3, <2>4, <2>5 DEF Tidy
<1> QED BY <1>6, <1>7

(* A switch is taken back in time.                                         *)
LEMMA UndoTidies ==
    ASSUME TidyInv, Undo
    PROVE  Unmade' /\ Tidy'
<1> USE DEF Phases, ForwardPhases, CleanupPhases, RestoringPhases
<1>1. /\ op["switch-traffic"] = "undo" /\ op' = [op EXCEPT !["switch-traffic"] = "failed"]
      /\ route.generation = seen["switch-traffic"] /\ route.previous # None
      /\ route' = Rollback
      /\ UNCHANGED <<ledger, host, seen, cut, release, driver, pc, failures, outcome, abandoned>>
  BY DEF Undo, Fresh, driverVars, diskVars, HasPrevious
<1>2. op \in [Phases -> Steps]
  BY DEF TidyInv, Inv, TypeOK
<1>3. driver = "cutover" /\ OnItsOwn => route'.active = cut.active
  <2>1. driver = "cutover" /\ OnItsOwn => route.active = cut.candidate /\ route.previous = cut.active
    BY <1>1 DEF TidyInv, Inv, Compared, Trusted, Between
  <2> QED BY <1>1, <2>1 DEF Rollback, Revision
<1>4. Unmade'
  BY <1>1 DEF TidyInv, Unmade
<1>5. Tidy'
  <2> SUFFICES ASSUME driver = "cutover", OnItsOwn, LooseEnds = {} PROVE Tidy'
    BY <1>1 DEF Tidy, LooseEnds, OnItsOwn
  <2>1. Tidy
    BY DEF TidyInv
  <2>2. ASSUME pc # "idle" PROVE InOrder'
    BY <1>1, <1>2, <2>1, <2>2 DEF Tidy, InOrder, Disturbing, IsRunning, Ended
  <2>3. ASSUME pc # "idle" PROVE Effects'
    BY <1>1, <1>2, <1>3, <2>1, <2>3 DEF Tidy, Effects, Unharmed, NotActed
  <2>4. ASSUME pc # "idle" PROVE Undone'
    BY <1>1, <1>2, <2>1, <2>4 DEF Tidy, InOrder, Undone, Disturbing, IsRunning, Ended
  <2>5. ~RolledBack'
    BY <1>1, <2>1 DEF Tidy, RolledBack, AtRest, Disturbing, IsRunning, Ended
  <2> QED BY <1>1, <2>2, <2>3, <2>4, <2>5 DEF Tidy
<1> QED BY <1>4, <1>5

(* Of a candidate that is the active host nothing is said.                 *)
LEMMA ReuseTidies ==
    ASSUME TidyInv, Reuse
    PROVE  Unmade' /\ Tidy'
<1>1. ~OnItsOwn' /\ UNCHANGED <<host, release>>
  BY DEF Reuse, TidyInv, Inv, TypeOK, OnItsOwn
<1> QED BY <1>1 DEF TidyInv, Unmade, Tidy

(* Nor of a cutover that began beside others; and these harm no instance to be made. *)
LEMMA LateTidies ==
    ASSUME TidyInv, LateOperation
    PROVE  Unmade' /\ Tidy'
<1>1. PICK l \in left : LateMove(l)
  BY LateMoves DEF LateOperation, TidyInv
<1>2. /\ release' = release /\ cut' = cut
      /\ \A h \in Hosts \ {l.active, l.candidate} : host'[h] = host[h]
      /\ release[l.active] # None /\ release[l.candidate] # None
      /\ ~OnItsOwn
  BY <1>1 DEF LateMove, TidyInv, Inv, Made, Behind, OnItsOwn
<1>3. Unmade'
  BY <1>2 DEF TidyInv, Unmade
<1> QED BY <1>2, <1>3 DEF Tidy, OnItsOwn

(* A cutover begins with an instance that was never made.                  *)
LEMMA StartTidies ==
    ASSUME TidyInv, NEW h \in Hosts, NEW r \in Releases, Start(h, r)
    PROVE  Unmade' /\ Tidy'
<1> USE DEF Phases, ForwardPhases, CleanupPhases, RestoringPhases
<1>1. /\ release[h] = None
      /\ pc' = "start-candidate" /\ failures' = FALSE /\ outcome' = "none"
      /\ op' = [Unbegun EXCEPT !["start-candidate"] = "begun"]
      /\ cut' = [active |-> route.active, ran |-> host[route.active] = "running", candidate |-> h,
                 reused |-> FALSE, beside |-> left' # {}]
      /\ release' = [release EXCEPT ![h] = r]
      /\ ledger' = [phase |-> "none", known |-> FALSE, receipt |-> "none"]
      /\ UNCHANGED <<route, host>>
  BY DEF Start, BeginCutover
<1>2. /\ op'["start-candidate"] = "begun"
      /\ \A p \in Phases \ {"start-candidate"} : op'[p] = "unbegun"
  BY <1>1 DEF Unbegun
<1>3. release \in [Hosts -> Releases \cup {None}]
  BY DEF TidyInv, Inv, TypeOK
<1>4. Unmade'
  BY <1>1, <1>3, ReleasesAssumption DEF TidyInv, Unmade
<1>5. host[h] = "absent"
  BY <1>1 DEF TidyInv, Unmade
<1>6. InOrder' /\ Effects' /\ Undone' /\ ~RolledBack'
  BY <1>1, <1>2, <1>5 DEF InOrder, Effects, Unharmed, Undone, RolledBack, AtRest, Disturbing, NotActed,
        IsRunning, Ended
<1> QED BY <1>4, <1>6 DEF Tidy

(* After a crash nothing is under way.                                     *)
LEMMA CrashTidies ==
    ASSUME TidyInv, Crash
    PROVE  Unmade' /\ Tidy'
<1>1. /\ pc' = "idle" /\ op' = Unbegun
      /\ UNCHANGED <<route, ledger, host, cut, release, driver, abandoned>>
  BY DEF Crash, diskVars
<1>2. Unmade'
  BY <1>1 DEF TidyInv, Unmade
<1>3. AtRest'
  BY <1>1 DEF AtRest, Disturbing, IsRunning, Ended, Unbegun, Phases, ForwardPhases, CleanupPhases
<1>4. Tidy'
  BY <1>1, <1>3 DEF TidyInv, Tidy, RolledBack, Restored, LooseEnds, OnItsOwn
<1> QED BY <1>2, <1>4

(* A recovery is not spoken of here.                                       *)
LEMMA RecoveryTidies ==
    ASSUME TidyInv, Recover \/ RecoveryAdvance \/ RecoveryFails
    PROVE  Unmade' /\ Tidy'
<1>1. driver' = "recovery" /\ UNCHANGED <<host, release>>
  BY DEF Recover, RecoveryAdvance, RecoveryFails
<1> QED BY <1>1 DEF TidyInv, Unmade, Tidy

(* The receipt says what the coordinator came to.                          *)
LEMMA ReceiptTidies ==
    ASSUME TidyInv, WriteReceipt
    PROVE  Unmade' /\ Tidy'
<1>1. /\ pc = "receipt" /\ pc' = "idle"
      /\ UNCHANGED <<op, abandoned, route, host, cut, release, driver>>
      /\ ledger'.receipt = outcome \/ ledger' = ledger
  <2>1. ledger \in [phase : Phases \cup {"none"}, known : BOOLEAN, receipt : Outcomes \cup {"none"}]
    BY DEF TidyInv, Inv, TypeOK
  <2> QED BY <2>1 DEF WriteReceipt, ReceiptWritten
<1>2. Unmade'
  BY <1>1 DEF TidyInv, Unmade
<1>3. Tidy'
  BY <1>1 DEF TidyInv, Tidy, RolledBack, Restored, AtRest, LooseEnds, OnItsOwn, IsRunning
<1> QED BY <1>2, <1>3

(* The coordinator goes on with the next phase, or turns the candidate away. *)
LEMMA GoingOnTidies ==
    ASSUME TidyInv, driver = "cutover", OnItsOwn, LooseEnds = {}, Advance \/ RejectCandidate,
           UNCHANGED <<route, host, cut, ledger>>
    PROVE  InOrder' /\ Effects' /\ Undone' /\ ~RolledBack'
<1> USE DEF Phases, ForwardPhases, CleanupPhases, RestoringPhases
<1>1. /\ pc \in ForwardPhases /\ op[pc] = "done"
      /\ op' = [op EXCEPT ![pc'] = "begun"]
      /\ \/ pc' = PhaseAfter(pc)
         \/ pc = "start-candidate" /\ pc' = "stop-candidate"
      /\ UNCHANGED <<failures, outcome, abandoned>>
  BY DEF Advance, RejectCandidate, Enter
<1>2. op \in [Phases -> Steps] /\ ledger.receipt = "none" /\ Undisturbed
  BY <1>1 DEF TidyInv, Inv, TypeOK, Unsettled
<1>3. InOrder /\ Effects
  BY <1>1 DEF TidyInv, Tidy
<1>4. \/ pc = "start-candidate" /\ pc' = "stop-candidate"
      \/ pc = "start-candidate" /\ pc' = "candidate-health"
      \/ pc = "candidate-health" /\ pc' = "quiesce-active"
      \/ pc = "quiesce-active" /\ pc' = "drain-active"
      \/ pc = "drain-active" /\ pc' = "checkpoint-active"
      \/ pc = "checkpoint-active" /\ pc' = "switch-traffic"
      \/ pc = "switch-traffic" /\ pc' = "candidate-canary"
      \/ pc = "candidate-canary" /\ pc' = "commit-candidate"
      \/ pc = "commit-candidate" /\ pc' = "stop-previous"
  BY <1>1 DEF PhaseAfter
<1>5. pc' \in Phases /\ op'[pc'] = "begun" /\ \A p \in Phases \ {pc'} : op'[p] = op[p]
  BY <1>1, <1>2, <1>4
<1>6. InOrder'
  BY <1>1, <1>2, <1>3, <1>4, <1>5 DEF InOrder, Undisturbed, Disturbing, IsRunning, Ended
<1>7. Effects'
  BY <1>1, <1>2, <1>3, <1>4, <1>5 DEF InOrder, Effects, Unharmed, Undisturbed, NotActed
<1>8. Undone'
  BY <1>1, <1>2, <1>3, <1>4, <1>5 DEF InOrder, Undone, Undisturbed
<1>9. ~RolledBack'
  BY <1>2, <1>4 DEF RolledBack
<1> QED BY <1>6, <1>7, <1>8, <1>9

(* Which cleanup is next, of those that are left.                          *)
LEMMA NextIsDue ==
    ASSUME NEW these \in SUBSET RestoringPhases
    PROVE  \/ NextCleanup(these) = "rollback-traffic" /\ op["switch-traffic"] = "done"
           \/ /\ NextCleanup(these) = "resume-active" /\ op["quiesce-active"] = "done"
              /\ "rollback-traffic" \in these => op["switch-traffic"] # "done"
           \/ /\ NextCleanup(these) = "stop-candidate" /\ op["candidate-health"] # "unbegun"
              /\ "rollback-traffic" \in these => op["switch-traffic"] # "done"
              /\ "resume-active" \in these => op["quiesce-active"] # "done"
           \/ /\ NextCleanup(these) = "receipt"
              /\ "rollback-traffic" \in these => op["switch-traffic"] # "done"
              /\ "resume-active" \in these => op["quiesce-active"] # "done"
              /\ "stop-candidate" \in these => op["candidate-health"] = "unbegun"
<1>1. \A p \in these : p \in {"rollback-traffic", "resume-active", "stop-candidate"}
  BY DEF RestoringPhases
<1>2. /\ Due("rollback-traffic") <=> op["switch-traffic"] = "done"
      /\ Due("resume-active") <=> op["quiesce-active"] = "done"
      /\ Due("stop-candidate") <=> op["candidate-health"] # "unbegun"
  BY DEF Due
<1> QED BY <1>1, <1>2 DEF NextCleanup

(* The coordinator gives up and begins to clean up.                        *)
LEMMA GivingUpTidies ==
    ASSUME TidyInv, driver = "cutover", OnItsOwn, LooseEnds' = {}, GiveUp,
           UNCHANGED <<route, host, cut, ledger>>
    PROVE  /\ InOrder' /\ Effects' /\ Undone'
           /\ RolledBack' => Restored' /\ AtRest'
<1> USE DEF Phases, ForwardPhases, CleanupPhases, RestoringPhases
<1> DEFINE next == NextCleanup(RestoringPhases)
<1>1. /\ pc \in ForwardPhases /\ op[pc] # "unbegun"
      /\ pc = "start-candidate" => op[pc] = "failed" \/ IsRunning(pc)
      /\ pc' = next /\ failures' = FALSE
      /\ op' = IF next = "receipt" THEN op ELSE [op EXCEPT ![next] = "begun"]
      /\ next = "receipt" \/ outcome' = "none"
      /\ abandoned \subseteq abandoned' /\ (IsRunning(pc) => pc \in abandoned')
  BY StartAssumption DEF GiveUp, CleanUp, WaitEnds, IsRunning, Ended
<1>2. /\ op \in [Phases -> Steps] /\ ledger.receipt = "none" /\ Undisturbed
      /\ pc # "idle" /\ LooseEnds = {}
  BY <1>1, LooseEndsStay DEF TidyInv, Inv, TypeOK, Unsettled
<1>3. InOrder /\ Effects
  BY <1>2 DEF TidyInv, Tidy
<1>4. pc \in Disturbing => ~IsRunning(pc)
  BY <1>1 DEF LooseEnds, Disturbing
<1>5. /\ \A p \in Disturbing : op[p] \in {"unbegun", "failed", "done"}
      /\ \A p \in CleanupPhases : op[p] = "unbegun"
  BY <1>1, <1>3, <1>4 DEF InOrder, Disturbing, IsRunning, Ended
<1>6. \/ next = "rollback-traffic" /\ op["switch-traffic"] = "done"
      \/ next = "resume-active" /\ op["quiesce-active"] = "done" /\ op["switch-traffic"] # "done"
      \/ /\ next = "stop-candidate" /\ op["candidate-health"] # "unbegun"
         /\ op["switch-traffic"] # "done" /\ op["quiesce-active"] # "done"
      \/ /\ next = "receipt" /\ op["candidate-health"] = "unbegun"
         /\ op["switch-traffic"] # "done" /\ op["quiesce-active"] # "done"
  BY NextIsDue
<1> HIDE DEF next
<1>7. InOrder'
  BY <1>1, <1>2, <1>3, <1>5, <1>6 DEF InOrder, Undisturbed, Disturbing, IsRunning, Ended
<1>8. Effects'
  BY <1>1, <1>2, <1>3, <1>5, <1>6 DEF Effects, Unharmed, NotActed
<1>9. Undone'
  BY <1>1, <1>2, <1>5, <1>6 DEF Undone
<1>10. ASSUME RolledBack'
       PROVE  Restored' /\ AtRest'
  <2>1. next = "receipt" /\ op' = op
    BY <1>1, <1>2, <1>6, <1>10 DEF RolledBack
  <2>2. op["start-candidate"] = "failed"
    BY <1>1, <1>2, <1>3, <1>4, <1>6, <2>1 DEF InOrder, Undisturbed, Disturbing
  <2> QED BY <1>3, <1>5, <1>6, <2>1, <2>2 DEF Effects, Unharmed, NotActed, Restored, AtRest, Disturbing,
                IsRunning, Ended
<1> QED BY <1>7, <1>8, <1>9, <1>10

(* The coordinator has waited for a cleanup phase.                         *)
LEMMA CleaningTidies ==
    ASSUME TidyInv, driver = "cutover", OnItsOwn, LooseEnds = {}, CleanupEnds,
           UNCHANGED <<route, host, cut, ledger>>
    PROVE  /\ InOrder' /\ Effects' /\ Undone'
           /\ RolledBack' => Restored' /\ AtRest'
<1> USE DEF Phases, ForwardPhases, CleanupPhases, RestoringPhases
<1> DEFINE next == NextCleanup(CleanupAfter(pc))
<1>1. /\ pc \in RestoringPhases
      /\ pc' = next
      /\ op' = IF next = "receipt" THEN op ELSE [op EXCEPT ![next] = "begun"]
      /\ next # "receipt" => outcome' = "none"
      /\ \/ op[pc] = "done" /\ failures' = failures
         \/ op[pc] # "unbegun" /\ failures' = TRUE
      /\ next = "receipt" => outcome' = IF failures' THEN "failed" ELSE "rolled-back"
  BY DEF CleanupEnds, CleanUp, WaitEnds, IsRunning, Ended
<1>2. /\ op \in [Phases -> Steps] /\ ledger.receipt = "none" /\ Undisturbed
      /\ pc # "idle" /\ failures \in BOOLEAN
  BY <1>1 DEF TidyInv, Inv, TypeOK, Unsettled
<1>3. InOrder /\ Effects /\ Undone
  BY <1>2 DEF TidyInv, Tidy
<1>4. /\ \A p \in Disturbing : op[p] \in {"unbegun", "failed", "done"}
      /\ op["stop-previous"] = "unbegun"
  BY <1>1, <1>3 DEF InOrder, Disturbing, IsRunning, Ended
<1>5. /\ pc = "rollback-traffic" =>
           \/ next = "resume-active" /\ op["quiesce-active"] = "done"
           \/ next \in {"stop-candidate", "receipt"} /\ op["quiesce-active"] # "done"
      /\ pc = "resume-active" =>
           \/ next = "stop-candidate" /\ op["candidate-health"] # "unbegun"
           \/ next = "receipt" /\ op["candidate-health"] = "unbegun"
      /\ pc = "stop-candidate" => next = "receipt"
  <2>1. pc = "rollback-traffic" => CleanupAfter(pc) = {"resume-active", "stop-candidate"}
    BY DEF CleanupAfter
  <2>2. pc = "resume-active" => CleanupAfter(pc) = {"stop-candidate"}
    BY DEF CleanupAfter
  <2>3. pc = "stop-candidate" => CleanupAfter(pc) = {}
    BY DEF CleanupAfter
  <2> QED BY <2>1, <2>2, <2>3 DEF NextCleanup, Due
<1> HIDE DEF next
<1>6. /\ pc = "rollback-traffic" => next = "resume-active" /\ op["quiesce-active"] = "done"
      /\ pc = "resume-active" => next = "stop-candidate" /\ op["quiesce-active"] = "done"
      /\ pc = "stop-candidate" => next = "receipt"
      /\ op[pc] # "unbegun"
  BY <1>1, <1>2, <1>3, <1>5 DEF InOrder, Undisturbed
<1>7. InOrder'
  BY <1>1, <1>2, <1>3, <1>4, <1>6 DEF InOrder, Undisturbed, Disturbing, IsRunning, Ended
<1>8. Effects'
  BY <1>1, <1>2, <1>3, <1>4, <1>6 DEF Effects, Unharmed, NotActed
<1>9. Undone'
  BY <1>1, <1>2, <1>3, <1>4, <1>6 DEF Undone
<1>10. ASSUME RolledBack'
       PROVE  Restored' /\ AtRest'
  <2>1. /\ pc = "stop-candidate" /\ op' = op
        /\ op[pc] = "done" /\ failures = FALSE
    BY <1>1, <1>2, <1>6, <1>10 DEF RolledBack
  <2> QED BY <1>3, <1>4, <2>1
          DEF Undone, Effects, Unharmed, NotActed, Restored, AtRest, Disturbing, IsRunning, Ended
<1> QED BY <1>7, <1>8, <1>9, <1>10

(* Whatever the coordinator does next.                                     *)
LEMMA CoordinateTidies ==
    ASSUME TidyInv, CoordinatorStep
    PROVE  Unmade' /\ Tidy'
<1>1. Coordinate /\ UNCHANGED <<route, ledger, cut, release, host, driver>>
  BY DEF CoordinatorStep, ownVars
<1>2. Unmade'
  BY <1>1 DEF TidyInv, Unmade
<1>3. Tidy'
  <2> SUFFICES ASSUME driver = "cutover", OnItsOwn, LooseEnds' = {}
               PROVE  /\ InOrder' /\ Effects' /\ Undone'
                      /\ RolledBack' => Restored' /\ AtRest'
    BY <1>1 DEF Tidy, OnItsOwn
  <2>1. CASE Advance \/ RejectCandidate
    <3>1. LooseEnds = {}
      BY <2>1 DEF Advance, RejectCandidate, LooseEnds
    <3> QED BY <1>1, <2>1, <3>1, GoingOnTidies
  <2>2. CASE GiveUp
    BY <1>1, <2>2, GivingUpTidies
  <2>3. CASE CleanupEnds
    <3>1. LooseEnds = {}
      BY <2>3 DEF CleanupEnds, LooseEnds
    <3> QED BY <1>1, <2>3, <3>1, CleaningTidies
  <2>4. CASE Retired
    <3>1. /\ pc = "stop-previous" /\ pc' = "receipt" /\ outcome' = "committed"
          /\ UNCHANGED <<op, failures, abandoned>>
      BY <2>4 DEF Retired
    <3>2. /\ LooseEnds = {} /\ ledger.receipt = "none" /\ pc \in Phases /\ pc # "idle"
      BY <3>1 DEF TidyInv, Inv, Unsettled, LooseEnds, Phases, ForwardPhases, CleanupPhases
    <3>3. InOrder /\ Effects
      BY <3>2 DEF TidyInv, Tidy
    <3>4. InOrder'
      BY <3>1, <3>3 DEF InOrder, Disturbing, IsRunning, Phases, ForwardPhases, CleanupPhases,
            RestoringPhases
    <3>5. Effects' /\ Undone' /\ ~RolledBack'
      BY <1>1, <3>1, <3>2, <3>3 DEF Effects, Unharmed, Undone, RolledBack
    <3> QED BY <3>4, <3>5
  <2> QED BY <1>1, <2>1, <2>2, <2>3, <2>4 DEF Coordinate
<1> QED BY <1>2, <1>3

(* Every step keeps the whole invariant.                                   *)
LEMMA TidyStep ==
    ASSUME TidyInv, [Next]_vars
    PROVE  TidyInv'
<1>1. Inv'
  BY StepKeeps DEF TidyInv
<1>2. CASE Operation
  BY <1>1, <1>2, RecordTidies, ThrowTidies, ActTidies, RouteTidies, PersistTidies, VerifyTidies,
     UndoTidies, ReuseTidies DEF Operation, TidyInv
<1>3. CASE Driver
  BY <1>1, <1>3, StartTidies, CoordinateTidies, ReceiptTidies, RecoveryTidies DEF Driver, TidyInv
<1>4. CASE Crash
  BY <1>1, <1>4, CrashTidies DEF TidyInv
<1>5. CASE LateOperation
  BY <1>1, <1>5, LateTidies DEF TidyInv
<1>6. CASE UNCHANGED vars
  <2>1. UNCHANGED <<route, ledger, cut, release, host, driver, pc, op, failures, outcome,
                    abandoned, left>>
    BY <1>6 DEF vars, coordinatorVars
  <2> QED BY <1>1, <2>1 DEF TidyInv, Unmade, Tidy, OnItsOwn, InOrder, Effects, Unharmed, Undone,
          RolledBack, Restored, AtRest, LooseEnds, IsRunning
<1> QED BY <1>2, <1>3, <1>4, <1>5, <1>6 DEF Next

-----------------------------------------------------------------------------
(* The ledger, the route and the progress of every operation always have a value of their *)
(* kind.                                                                   *)
THEOREM TypeCorrect == Spec => []TypeOK
<1>1. Inv => TypeOK
  BY DEF Inv
<1> QED BY <1>1, Invariance, PTL

(* A receipt "committed" of the coordinator is true for as long as it stands, whatever *)
(* earlier cutovers left running: the candidate runs and no previous route is left.  So *)
(* is one of the recovery, unless it began beside an operation that was given up.      *)
THEOREM CommitIsFinal == Spec => []CommittedIsAuthoritative
<1>1. Inv => CommittedIsAuthoritative
  BY DEF Inv, CommitStands, Trusted, Committed, CommittedIsAuthoritative, HasPrevious
<1> QED BY <1>1, Invariance, PTL

(* What the recovery closes as rolled back is restored, wherever the cutover was          *)
(* interrupted and whatever it had given up, if nothing given up still ran when it began. *)
THEOREM RecoveryRestores == Spec => []RecoveredIsRestored
<1>1. Inv => RecoveredIsRestored
  BY DEF Inv, Restoring, RecoveredIsRestored
<1> QED BY <1>1, Invariance, PTL

(* A receipt "rolled-back" means that everything is as it was before the cutover, unless the *)
(* start, the quiescence or the switch was given up at its deadline or a switch could not   *)
(* be taken back: whatever else was given up and however long it runs on.  It is said of a  *)
(* cutover that began when nothing of an earlier one ran, with a candidate of its own.      *)
THEOREM RolledBackIsRestored == Spec => []RolledBackUnlessLoose
<1>1. Init => TidyInv
  <2> SUFFICES ASSUME Init PROVE TidyInv
    OBVIOUS
  <2>1. Unmade
    BY HostsAssumption, ReleasesAssumption DEF Init, Unmade
  <2>2. Tidy
    BY DEF Init, CoordinatorInit, Tidy, RolledBack
  <2> QED BY <2>1, <2>2, InitInv DEF TidyInv
<1>2. TidyInv /\ [Next]_vars => TidyInv'
  BY TidyStep
<1>3. TidyInv => RolledBackUnlessLoose
  <2> SUFFICES ASSUME TidyInv, ledger.receipt = "rolled-back", OnItsOwn, LooseEnds = {}
               PROVE  Restored
    BY DEF RolledBackUnlessLoose
  <2>1. driver \in {"cutover", "recovery"}
    BY DEF TidyInv, Inv, TypeOK
  <2> QED BY <2>1 DEF TidyInv, Tidy, RolledBack, Inv, Restoring
<1> QED BY <1>1, <1>2, <1>3, PTL DEF Spec
=============================================================================
