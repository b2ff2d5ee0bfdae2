---------------------------- MODULE RuntimeHostProofs ----------------------------
(***************************************************************************)
(* Proofs about two parts of the Runtime Host.  The first is ManagedRuns,  *)
(* for any number of runs, restarts and retained rows: the ledger always   *)
(* says what is so, and its outcomes are final.  The second is Approvals,  *)
(* for any number of requests and any queue: whatever the windows, pages   *)
(* and threads of the shell still do, a call is allowed by hand only.      *)
(***************************************************************************)
EXTENDS ManagedRuns, Approvals, SequenceTheorems, TLAPS

RowState == Outcome \cup Unfinished \cup {"absent", "pruned"}

(* What makes the invariants inductive: a Gateway that is down follows     *)
(* nothing, and a run that was never created has no process.               *)
DownFollowsNothing == mode = "down" => active = {}

AbsentHasNoProcess == \A r \in Runs : row[r] = "absent" => proc[r] = "none"

Inv ==
    /\ TypeOK
    /\ LedgerIsTruthful
    /\ LedgerIsFollowed
    /\ DownFollowsNothing
    /\ AbsentHasNoProcess

-----------------------------------------------------------------------------
(* An outcome that is written reaches the runs it is written for, unless   *)
(* their rows are pruned; the rows of other runs are kept, or pruned if    *)
(* they had an outcome.                                                    *)
LEMMA RecordedRows ==
    ASSUME row \in [Runs -> RowState], NEW R, NEW o \in Outcome
    PROVE  /\ Recorded(R, o) \in [Runs -> RowState]
           /\ \A r \in Runs :
                /\ r \in R => Recorded(R, o)[r] \in {o, "pruned"}
                /\ r \notin R => \/ Recorded(R, o)[r] = row[r]
                                 \/ row[r] \in Outcome /\ Recorded(R, o)[r] = "pruned"
<1> DEFINE ledger == [r \in Runs |-> IF r \in R THEN o ELSE row[r]]
<1>1. Recorded(R, o) = Pruned(ledger)
  BY DEF Recorded
<1>2. \A r \in Runs : ledger[r] = IF r \in R THEN o ELSE row[r]
  OBVIOUS
<1>3. \A r \in Runs : /\ Pruned(ledger)[r] \in {ledger[r], "pruned"}
                      /\ Pruned(ledger)[r] # ledger[r] => ledger[r] \in Outcome
  BY DEF Pruned, Finished
<1>4. Pruned(ledger) = [r \in Runs |-> Pruned(ledger)[r]]
  BY DEF Pruned
<1> HIDE DEF ledger
<1>5. \A r \in Runs : Pruned(ledger)[r] \in RowState
  BY <1>2, <1>3 DEF RowState, Outcome
<1>6. Pruned(ledger) \in [Runs -> RowState]
  BY <1>4, <1>5
<1> QED BY <1>1, <1>2, <1>3, <1>6

-----------------------------------------------------------------------------
(* Before anything is started the invariant holds.                         *)
LEMMA InitInv == Init => Inv
BY RunsAssumption DEF Init, Inv, TypeOK, LedgerIsTruthful, LedgerIsFollowed,
   DownFollowsNothing, AbsentHasNoProcess, Outcome, Unfinished, Exited

\* What the actions that finish the runs of R have in common.
Finishes(R, o) == o \in Outcome /\ R \subseteq active /\ Finalize(R, o)

(* Finalizing runs whose processes are as the outcome says keeps all parts *)
(* of the invariant that do not speak of the manager's mode.               *)
LEMMA FinalizeKeeps ==
    ASSUME Inv, NEW R, NEW o, Finishes(R, o), mode # "down",
           proc' \in [Runs -> Exited \cup {"none", "alive"}],
           kill' \in [Runs -> {"none", "asked", "refused"}],
           receipts' = receipts, proc' = proc,
           \A r \in Runs : kill[r] = "refused" => kill'[r] = "refused",
           \A r \in R : /\ o \in {"cancelled", "timed-out"} => proc[r] \in Exited
                        /\ o = "succeeded" => proc[r] = "zero"
                        /\ o = "failed" /\ proc[r] = "alive" => kill'[r] = "refused"
    PROVE  /\ row' \in [Runs -> RowState]
           /\ active' \subseteq Runs /\ cancelled' \subseteq Runs /\ timedOut' \subseteq Runs
           /\ handling' \subseteq Runs /\ receipts' \subseteq Runs
           /\ LedgerIsTruthful'
           /\ active' = {r \in Runs : row'[r] \in Unfinished}
           /\ AbsentHasNoProcess'
<1>1. row \in [Runs -> RowState] /\ R \subseteq Runs
  BY DEF Inv, TypeOK, RowState, Finishes
<1>2. row' = Recorded(R, o)
  BY DEF Finishes, Finalize
<1>3. /\ row' \in [Runs -> RowState]
      /\ \A r \in Runs :
           /\ r \in R => row'[r] \in {o, "pruned"}
           /\ r \notin R => row'[r] = row[r] \/ (row[r] \in Outcome /\ row'[r] = "pruned")
  BY <1>1, <1>2, RecordedRows DEF Finishes
<1>4. /\ active' = active \ R /\ cancelled' = cancelled \ R
      /\ timedOut' = timedOut \ R /\ handling' = handling \cup R
  BY DEF Finishes, Finalize
<1>5. active = {r \in Runs : row[r] \in Unfinished}
  BY DEF Inv, LedgerIsFollowed
<1>6. active' = {r \in Runs : row'[r] \in Unfinished}
  BY <1>1, <1>3, <1>4, <1>5 DEF Outcome, Unfinished, Finishes
<1>7. LedgerIsTruthful'
  BY <1>1, <1>3, <1>4 DEF Inv, LedgerIsTruthful, Outcome, Finishes
<1>8. AbsentHasNoProcess'
  BY <1>1, <1>3 DEF Inv, AbsentHasNoProcess, Outcome, Finishes
<1> QED BY <1>1, <1>3, <1>4, <1>6, <1>7, <1>8 DEF Inv, TypeOK

-----------------------------------------------------------------------------
(* A Gateway that vanishes leaves the ledger as it is, and processes that  *)
(* live on or not; what the ledger says of them stays so.                  *)
LEMMA SurvivorsKeep ==
    ASSUME NEW p \in [Runs -> Exited \cup {"none", "alive"}], NEW q \in Survivors(p)
    PROVE  /\ q \in [Runs -> Exited \cup {"none", "alive"}]
           /\ \A r \in Runs : q[r] = p[r] \/ (p[r] = "alive" /\ q[r] = "nonzero")
BY DEF Survivors, Exited

(* Every step keeps the invariant.                                         *)
LEMMA Steps ==
    ASSUME Inv, [Next]_vars
    PROVE  Inv'
<1> USE DEF Inv
<1>0. row \in [Runs -> RowState]
  BY DEF TypeOK, RowState
<1>1. ASSUME NEW r \in Runs, Start(r)
      PROVE  Inv'
  BY <1>1, <1>0 DEF Start, IsNew, TypeOK, LedgerIsTruthful, LedgerIsFollowed,
     DownFollowsNothing, AbsentHasNoProcess, Outcome, Unfinished, Exited
<1>2. ASSUME NEW r \in Runs, StartThrows(r)
      PROVE  Inv'
  <2>1. /\ row' \in [Runs -> RowState]
        /\ row'[r] \in {"failed", "pruned"}
        /\ \A q \in Runs \ {r} : row'[q] = row[q] \/ (row[q] \in Outcome /\ row'[q] = "pruned")
    BY <1>2, <1>0, RecordedRows DEF StartThrows, Outcome
  <2>2. proc[r] = "none" /\ r \notin active
    BY <1>2 DEF StartThrows, IsNew, AbsentHasNoProcess, LedgerIsFollowed, Unfinished
  <2>3. TypeOK'
    BY <1>2, <2>1 DEF StartThrows, TypeOK, RowState
  <2>4. LedgerIsTruthful'
    BY <1>2, <2>1, <2>2 DEF StartThrows, LedgerIsTruthful, Outcome
  <2>5. LedgerIsFollowed'
    BY <1>2, <2>1, <2>2 DEF StartThrows, LedgerIsFollowed, Outcome, Unfinished
  <2>6. DownFollowsNothing' /\ AbsentHasNoProcess'
    BY <1>2, <2>1, <2>2 DEF StartThrows, DownFollowsNothing, AbsentHasNoProcess, Outcome
  <2> QED BY <2>3, <2>4, <2>5, <2>6
<1>3. ASSUME NEW r \in Runs, CrashInStart(r)
      PROVE  Inv'
  <2>1. PICK p \in {"alive", "none"} : proc' \in Survivors([proc EXCEPT ![r] = p])
    BY <1>3 DEF CrashInStart
  <2>2. [proc EXCEPT ![r] = p] \in [Runs -> Exited \cup {"none", "alive"}]
    BY DEF TypeOK
  <2>3. /\ proc' \in [Runs -> Exited \cup {"none", "alive"}]
        /\ \A q \in Runs : \/ q = r
                           \/ proc'[q] = proc[q]
                           \/ proc[q] = "alive" /\ proc'[q] = "nonzero"
    <3> DEFINE begun == [proc EXCEPT ![r] = p]
    <3>1. /\ proc' \in [Runs -> Exited \cup {"none", "alive"}]
          /\ \A q \in Runs : \/ proc'[q] = begun[q]
                             \/ begun[q] = "alive" /\ proc'[q] = "nonzero"
      BY <2>1, <2>2, SurvivorsKeep
    <3>2. \A q \in Runs : q # r => begun[q] = proc[q]
      BY DEF TypeOK
    <3> QED BY <3>1, <3>2
  <2>4. /\ row[r] = "absent" /\ row' = [row EXCEPT ![r] = "queued"]
        /\ mode' = "down" /\ active' = {} /\ cancelled' = {} /\ timedOut' = {}
        /\ held' = {} /\ handling' = {} /\ receipts' = receipts /\ restarts' = restarts
        /\ kill' = [q \in Runs |-> IF kill[q] = "asked" THEN "none" ELSE kill[q]]
    BY <1>3 DEF CrashInStart, IsNew, Vanish
  <2>5. TypeOK'
    BY <2>3, <2>4 DEF TypeOK, Unfinished
  <2>6. \A q \in Runs : q # r => row'[q] = row[q]
    BY <2>4, <1>0
  <2>7. row'[r] = "queued"
    BY <2>4, <1>0
  <2>8. \A q \in Runs : kill[q] = "refused" => kill'[q] = "refused"
    BY <2>4
  <2>9. r \notin receipts
    BY <2>4 DEF LedgerIsTruthful, Outcome
  <2>10. LedgerIsTruthful'
    BY <2>3, <2>4, <2>6, <2>7, <2>8, <2>9 DEF LedgerIsTruthful, Outcome, Exited
  <2>11. AbsentHasNoProcess'
    BY <2>3, <2>6, <2>7 DEF AbsentHasNoProcess
  <2>12. LedgerIsFollowed' /\ DownFollowsNothing'
    BY <2>4 DEF LedgerIsFollowed, DownFollowsNothing
  <2> QED BY <2>5, <2>10, <2>11, <2>12
<1>4. ASSUME NEW r \in Runs, Exit(r) \/ Die(r) \/ LetGo(r)
      PROVE  Inv'
  BY <1>4, <1>0 DEF Exit, Die, Ends, LetGo, manager, TypeOK, LedgerIsTruthful, LedgerIsFollowed,
     DownFollowsNothing, AbsentHasNoProcess, Exited
<1>5. ASSUME NEW r \in Runs, Close(r)
      PROVE  Inv'
  <2>1. /\ OutcomeOf(r) \in Outcome
        /\ OutcomeOf(r) = "succeeded" => proc[r] = "zero"
    BY DEF OutcomeOf, Outcome
  <2>2. Finishes({r}, OutcomeOf(r)) /\ mode # "down"
    BY <1>5, <2>1 DEF Close, IsOpen, Finishes, DownFollowsNothing
  <2>3. proc[r] \in Exited /\ proc[r] # "alive" /\ UNCHANGED <<proc, kill, held, receipts,
                                                               mode, restarts>>
    BY <1>5 DEF Close, Exited
  <2>4. /\ row' \in [Runs -> RowState]
        /\ active' \subseteq Runs /\ cancelled' \subseteq Runs /\ timedOut' \subseteq Runs
        /\ handling' \subseteq Runs /\ receipts' \subseteq Runs
        /\ LedgerIsTruthful' /\ active' = {q \in Runs : row'[q] \in Unfinished}
        /\ AbsentHasNoProcess'
    BY <2>1, <2>2, <2>3, FinalizeKeeps DEF TypeOK
  <2>5. active' \subseteq active
    BY <2>2 DEF Finishes, Finalize
  <2> QED BY <2>2, <2>3, <2>4, <2>5 DEF TypeOK, RowState, LedgerIsFollowed, DownFollowsNothing
<1>6. ASSUME NEW r \in Runs, SpawnError(r)
      PROVE  Inv'
  <2>1. Finishes({r}, "failed") /\ mode # "down"
    BY <1>6 DEF SpawnError, IsOpen, Finishes, DownFollowsNothing, Outcome
  <2>2. proc[r] = "none" /\ UNCHANGED <<proc, kill, held, receipts, mode, restarts>>
    BY <1>6 DEF SpawnError
  <2>3. /\ row' \in [Runs -> RowState]
        /\ active' \subseteq Runs /\ cancelled' \subseteq Runs /\ timedOut' \subseteq Runs
        /\ handling' \subseteq Runs /\ receipts' \subseteq Runs
        /\ LedgerIsTruthful' /\ active' = {q \in Runs : row'[q] \in Unfinished}
        /\ AbsentHasNoProcess'
    BY <2>1, <2>2, FinalizeKeeps DEF TypeOK
  <2>4. active' \subseteq active
    BY <2>1 DEF Finishes, Finalize
  <2> QED BY <2>1, <2>2, <2>3, <2>4 DEF TypeOK, RowState, LedgerIsFollowed, DownFollowsNothing
<1>7. ASSUME NEW r \in Runs, KillError(r)
      PROVE  Inv'
  <2>1. CASE IsOpen(r)
    <3>1. Finishes({r}, "failed") /\ mode # "down"
      BY <1>7, <2>1 DEF KillError, IsOpen, Finishes, DownFollowsNothing, Outcome
    <3>2. /\ kill' = [kill EXCEPT ![r] = "refused"]
          /\ UNCHANGED <<proc, held, receipts, mode, restarts>>
      BY <1>7 DEF KillError
    <3>3. /\ kill' \in [Runs -> {"none", "asked", "refused"}] /\ kill'[r] = "refused"
          /\ \A q \in Runs : kill[q] = "refused" => kill'[q] = "refused"
      BY <3>2 DEF TypeOK
    <3>4. /\ row' \in [Runs -> RowState]
          /\ active' \subseteq Runs /\ cancelled' \subseteq Runs /\ timedOut' \subseteq Runs
          /\ handling' \subseteq Runs /\ receipts' \subseteq Runs
          /\ LedgerIsTruthful' /\ active' = {q \in Runs : row'[q] \in Unfinished}
          /\ AbsentHasNoProcess'
      BY <3>1, <3>2, <3>3, FinalizeKeeps DEF TypeOK
    <3>5. active' \subseteq active
      BY <3>1 DEF Finishes, Finalize
    <3> QED BY <3>1, <3>2, <3>3, <3>4, <3>5 DEF TypeOK, RowState, LedgerIsFollowed,
                  DownFollowsNothing
  <2>2. CASE ~IsOpen(r)
    BY <1>7, <2>2 DEF KillError, manager, TypeOK, LedgerIsTruthful, LedgerIsFollowed,
       DownFollowsNothing, AbsentHasNoProcess
  <2> QED BY <2>1, <2>2
<1>8. ASSUME NEW r \in Runs, TimeOut(r) \/ Cancel(r)
      PROVE  Inv'
  <2>1. row[r] \in Unfinished
    BY <1>8 DEF TimeOut, Cancel, IsOpen, LedgerIsFollowed, DownFollowsNothing
  <2> QED BY <1>8, <2>1 DEF TimeOut, Cancel, TypeOK, LedgerIsTruthful, LedgerIsFollowed,
             DownFollowsNothing, AbsentHasNoProcess, Unfinished
<1>9. ASSUME NEW r \in Runs, Handled(r)
      PROVE  Inv'
  BY <1>9 DEF Handled, TypeOK, LedgerIsTruthful, LedgerIsFollowed,
     DownFollowsNothing, AbsentHasNoProcess
<1>10. CASE Shutdown
  <2>1. \A r \in active : row[r] \in Unfinished
    BY <1>10 DEF Shutdown, LedgerIsFollowed
  <2> QED BY <1>10, <2>1 DEF Shutdown, TypeOK, LedgerIsTruthful, LedgerIsFollowed,
             DownFollowsNothing, AbsentHasNoProcess, Unfinished
<1>11. CASE GiveUp
  <2>1. Finishes(active, "interrupted") /\ mode # "down"
    BY <1>11 DEF GiveUp, Finishes, Outcome
  <2>2. UNCHANGED <<proc, kill, held, receipts, restarts>> /\ mode' = "draining"
    BY <1>11 DEF GiveUp
  <2>3. /\ row' \in [Runs -> RowState]
        /\ active' \subseteq Runs /\ cancelled' \subseteq Runs /\ timedOut' \subseteq Runs
        /\ handling' \subseteq Runs /\ receipts' \subseteq Runs
        /\ LedgerIsTruthful' /\ active' = {q \in Runs : row'[q] \in Unfinished}
        /\ AbsentHasNoProcess'
    BY <2>1, <2>2, FinalizeKeeps DEF TypeOK
  <2>4. active' = {}
    BY <2>1 DEF Finishes, Finalize
  <2> QED BY <2>2, <2>3, <2>4 DEF TypeOK, RowState, LedgerIsFollowed, DownFollowsNothing
<1>12. CASE CloseStore
  BY <1>12 DEF CloseStore, manager, TypeOK, LedgerIsTruthful, LedgerIsFollowed,
     DownFollowsNothing, AbsentHasNoProcess
<1>13. CASE Restart
  <2> DEFINE left == {r \in Runs : row[r] \in Unfinished}
  <2>1. /\ row' \in [Runs -> RowState]
        /\ \A r \in Runs :
             /\ r \in left => row'[r] \in {"interrupted", "pruned"}
             /\ r \notin left => row'[r] = row[r] \/ (row[r] \in Outcome /\ row'[r] = "pruned")
    BY <1>13, <1>0, RecordedRows DEF Restart, InterruptActive, Outcome
  <2>2. active = {} /\ mode' = "open" /\ UNCHANGED <<proc, kill, held, manager, receipts>>
    BY <1>13 DEF Restart, LedgerIsFollowed, DownFollowsNothing
  <2>3. restarts' \in 0..MaxRestarts
    BY <1>13, RunsAssumption DEF Restart, TypeOK
  <2>4. TypeOK'
    BY <2>1, <2>2, <2>3 DEF TypeOK, RowState, manager
  <2>5. LedgerIsTruthful'
    BY <2>1, <2>2 DEF LedgerIsTruthful, Outcome, Unfinished, manager
  <2>6. LedgerIsFollowed' /\ DownFollowsNothing' /\ AbsentHasNoProcess'
    BY <2>1, <2>2 DEF LedgerIsFollowed, DownFollowsNothing, AbsentHasNoProcess, Outcome,
       Unfinished, manager
  <2> QED BY <2>4, <2>5, <2>6
<1>14. CASE Crash
  <2>1. /\ proc' \in [Runs -> Exited \cup {"none", "alive"}]
        /\ \A r \in Runs : proc'[r] = proc[r] \/ (proc[r] = "alive" /\ proc'[r] = "nonzero")
    BY <1>14, SurvivorsKeep DEF Crash, TypeOK
  <2>2. /\ mode' = "down" /\ active' = {} /\ cancelled' = {} /\ timedOut' = {} /\ handling' = {}
        /\ kill' = [r \in Runs |-> IF kill[r] = "asked" THEN "none" ELSE kill[r]]
        /\ held' = {} /\ UNCHANGED <<row, receipts, restarts>>
    BY <1>14 DEF Crash, Vanish
  <2>3. TypeOK'
    BY <2>1, <2>2 DEF TypeOK
  <2>4. \A r \in Runs : kill[r] = "refused" => kill'[r] = "refused"
    BY <2>2
  <2>5. LedgerIsTruthful'
    BY <2>1, <2>2, <2>4 DEF LedgerIsTruthful, Exited
  <2>6. AbsentHasNoProcess'
    BY <2>1, <2>2 DEF AbsentHasNoProcess
  <2>7. LedgerIsFollowed' /\ DownFollowsNothing'
    BY <2>2 DEF LedgerIsFollowed, DownFollowsNothing
  <2> QED BY <2>3, <2>5, <2>6, <2>7
<1>15. CASE UNCHANGED vars
  <2>1. UNCHANGED <<row, proc, kill, held, active, cancelled, timedOut, handling, receipts,
                    mode, restarts>>
    BY <1>15 DEF vars, manager
  <2> QED BY <2>1 DEF TypeOK, LedgerIsTruthful, LedgerIsFollowed, DownFollowsNothing,
             AbsentHasNoProcess
<1> QED BY <1>1, <1>2, <1>3, <1>4, <1>5, <1>6, <1>7, <1>8, <1>9, <1>10, <1>11, <1>12,
           <1>13, <1>14, <1>15 DEF Next

(* The types of the variables, for any bounds.                             *)
THEOREM TypeCorrect == Spec => []TypeOK
<1>1. Inv => TypeOK
  BY DEF Inv
<1> QED BY InitInv, Steps, <1>1, PTL DEF Spec

(* What the ledger says of a process is so, and only what it says has      *)
(* ended is told to have ended.                                            *)
THEOREM Truthful == Spec => []LedgerIsTruthful
<1>1. Inv => LedgerIsTruthful
  BY DEF Inv
<1> QED BY InitInv, Steps, <1>1, PTL DEF Spec

(* No run is in progress in the ledger that nobody follows.                *)
THEOREM Followed == Spec => []LedgerIsFollowed
<1>1. Inv => LedgerIsFollowed
  BY DEF Inv
<1> QED BY InitInv, Steps, <1>1, PTL DEF Spec

-----------------------------------------------------------------------------
(* One step keeps every outcome: only a run that is followed is finalized, *)
(* and it is in progress.                                                  *)
LEMMA StepKeepsOutcomes ==
    ASSUME Inv, [Next]_vars, NEW r \in Runs, row[r] \in Outcome \cup {"pruned"}
    PROVE  row'[r] \in {row[r], "pruned"}
<1>0. row \in [Runs -> RowState]
  BY DEF Inv, TypeOK, RowState
<1>1. r \notin active /\ row[r] \notin Unfinished /\ row[r] # "absent"
  BY DEF Inv, LedgerIsFollowed, DownFollowsNothing, Outcome, Unfinished
<1>2. ASSUME NEW R, NEW o \in Outcome, r \notin R, row' = Recorded(R, o)
      PROVE  row'[r] \in {row[r], "pruned"}
  BY <1>0, <1>2, RecordedRows
<1>3. ASSUME NEW q \in Runs, Start(q) \/ CrashInStart(q)
      PROVE  row'[r] \in {row[r], "pruned"}
  BY <1>0, <1>1, <1>3 DEF Start, CrashInStart, IsNew
<1>4. ASSUME NEW q \in Runs, StartThrows(q)
      PROVE  row'[r] \in {row[r], "pruned"}
  <2>1. r \notin {q}
    BY <1>1, <1>4 DEF StartThrows, IsNew
  <2> QED BY <1>2, <1>4, <2>1 DEF StartThrows, Outcome
<1>5. ASSUME NEW q \in Runs, Close(q) \/ SpawnError(q) \/ KillError(q)
      PROVE  row'[r] \in {row[r], "pruned"}
  <2>1. CASE IsOpen(q)
    <3>1. r \notin {q}
      BY <1>1, <2>1 DEF IsOpen
    <3>2. OutcomeOf(q) \in Outcome /\ "failed" \in Outcome
      BY DEF OutcomeOf, Outcome
    <3>3. \E o \in Outcome : row' = Recorded({q}, o)
      BY <1>5, <2>1, <3>2 DEF Close, SpawnError, KillError, Finalize
    <3> QED BY <1>2, <3>1, <3>3
  <2>2. CASE ~IsOpen(q)
    BY <1>5, <2>2 DEF Close, SpawnError, KillError
  <2> QED BY <2>1, <2>2
<1>6. CASE GiveUp
  BY <1>1, <1>2, <1>6 DEF GiveUp, Finalize, Outcome
<1>7. CASE Restart
  <2>1. r \notin {q \in Runs : row[q] \in Unfinished}
    BY <1>1
  <2> QED BY <1>2, <1>7, <2>1 DEF Restart, InterruptActive, Outcome
<1>8. CASE \/ \E q \in Runs : Exit(q) \/ Die(q) \/ LetGo(q) \/ TimeOut(q) \/ Cancel(q) \/ Handled(q)
           \/ Shutdown \/ CloseStore \/ Crash \/ UNCHANGED vars
  BY <1>8 DEF Exit, Die, Ends, LetGo, TimeOut, Cancel, Handled, Shutdown, CloseStore, Crash, vars
<1> QED BY <1>3, <1>4, <1>5, <1>6, <1>7, <1>8 DEF Next

(* Once a run has an outcome it keeps it, whatever comes late.             *)
THEOREM Final == Spec => OutcomeIsFinal
<1>1. Inv /\ [Next]_vars =>
        [\A r \in Runs : row[r] \in Outcome \cup {"pruned"} => row'[r] \in {row[r], "pruned"}]_vars
  BY StepKeepsOutcomes
<1> QED BY InitInv, Steps, <1>1, PTL DEF Spec, OutcomeIsFinal

-----------------------------------------------------------------------------
(* The approvals, which share no state with the runs.                      *)
(* The broker's queue: those that wait, each once.                         *)
QueueIsWaiting ==
    /\ queue \in Seq(Requests)
    /\ \A i \in DOMAIN queue : life[queue[i]] = "queued"
    /\ \A i, j \in DOMAIN queue : queue[i] = queue[j] => i = j

(* One request at most is active, and the answer and the cancellation that *)
(* are kept are those of the active one.                                   *)
OneIsActive ==
    /\ \A r, s \in Active : r = s
    /\ Active = {} => came = "none" /\ ~withdrawn

(* What is given up was active or waiting before; an active one only if it *)
(* was withdrawn before an answer came.                                    *)
GivenUpIsOver ==
    /\ \A r \in givenUp : life[r] \notin {"new", "queued", "allow"}
    /\ \A r \in Active : r \in givenUp => withdrawn /\ came = "none"

(* An allowance that is under way is of a request whose page was answered. *)
AllowanceIsByHand ==
    /\ \A r \in Requests : sent[r] = "allow" => r \in byHand
    /\ came = "allow" => Active \subseteq byHand
    /\ \A r \in Requests : life[r] = "allow" => r \in byHand

AInv == ApprovalsTypeOK /\ QueueIsWaiting /\ OneIsActive /\ GivenUpIsOver /\ AllowanceIsByHand

-----------------------------------------------------------------------------
(* Before the first call nothing is asked.                                 *)
LEMMA AInit == ApprovalsInit => AInv
<1> SUFFICES ASSUME ApprovalsInit PROVE AInv
  OBVIOUS
<1>1. queue \in Seq(Requests) /\ pipe \in Seq([kind : {"present", "cancel"}, of : Requests])
  BY EmptySeq DEF ApprovalsInit
<1>2. ApprovalsTypeOK
  BY <1>1 DEF ApprovalsInit, ApprovalsTypeOK
<1>3. QueueIsWaiting
  BY <1>1 DEF ApprovalsInit, QueueIsWaiting
<1>4. OneIsActive /\ GivenUpIsOver /\ AllowanceIsByHand
  BY DEF ApprovalsInit, OneIsActive, GivenUpIsOver, AllowanceIsByHand, Active
<1> QED BY <1>2, <1>3, <1>4 DEF AInv

Decisions == {"none", "allow", "deny"}

\* Taking the slot of r sends r, and nobody else, the decision.
LEMMA TakeSends ==
    ASSUME ApprovalsTypeOK, NEW r \in Requests \cup {None}, NEW decision \in {"allow", "deny"},
           Take(r, decision)
    PROVE  /\ sent' \in [Requests -> Decisions] /\ slot' \in Requests \cup {None}
           /\ \A q \in Requests : sent'[q] = sent[q] \/ (q = r /\ sent'[q] = decision)
BY DEF Take, ApprovalsTypeOK, Decisions

(* What happens in the shell keeps to the types ...                        *)
ShellStep ==
    \/ \E r \in Requests : Reader(r) \/ Thread(r) \/ ResolveCloses(r)
    \/ PageLoads \/ CloseByHand
    \/ \E decision \in {"allow", "deny"} : Decide(decision)

LEMMA ShellTypes ==
    ASSUME ApprovalsTypeOK, ShellStep
    PROVE  ApprovalsTypeOK'
<1> USE DEF brokerVars, shellVars, windowVars, history
<1>1. ASSUME NEW r \in Requests, Reader(r)
      PROVE  ApprovalsTypeOK'
  <2>1. pipe \in Seq([kind : {"present", "cancel"}, of : Requests]) /\ pipe # <<>>
        /\ pipe' = Tail(pipe)
    BY <1>1 DEF Reader, ReadPresent, ReadCancel, ApprovalsTypeOK
  <2>2. pipe' \in Seq([kind : {"present", "cancel"}, of : Requests])
    BY <2>1
  <2> QED BY <1>1, <2>2 DEF Reader, ReadPresent, ReadCancel, ApprovalsTypeOK
<1>2. ASSUME NEW r \in Requests, Claim(r) \/ Finish(r)
      PROVE  ApprovalsTypeOK'
  BY <1>2 DEF Claim, Finish, ApprovalsTypeOK
<1>3. ASSUME NEW r \in Requests, Open(r)
      PROVE  ApprovalsTypeOK'
  BY <1>3, TakeSends DEF Open, ApprovalsTypeOK, Decisions
<1>4. ASSUME NEW r \in Requests, OpenFails(r)
      PROVE  ApprovalsTypeOK'
  BY <1>4 DEF OpenFails, ApprovalsTypeOK
<1>5. ASSUME NEW r \in Requests, CloseFinished(r) \/ ResolveCloses(r)
      PROVE  ApprovalsTypeOK'
  BY <1>5, TakeSends DEF CloseFinished, ResolveCloses, CloseWindow, ApprovalsTypeOK, Decisions
<1>6. CASE PageLoads
  BY <1>6 DEF PageLoads, ApprovalsTypeOK
<1>7. CASE CloseByHand
  BY <1>7, TakeSends DEF CloseByHand, CloseWindow, ApprovalsTypeOK, Decisions
<1>8. ASSUME NEW decision \in {"allow", "deny"}, Decide(decision)
      PROVE  ApprovalsTypeOK'
  <2>1. shown \in Requests
    BY <1>8 DEF Decide, ApprovalsTypeOK
  <2> QED BY <1>8, <2>1, TakeSends DEF Decide, ApprovalsTypeOK, Decisions
<1> QED BY <1>1, <1>2, <1>3, <1>4, <1>5, <1>6, <1>7, <1>8 DEF ShellStep, Thread

(* ... and changes nothing that the broker knows; whichever windows and pages there are,  *)
(* an allowance is sent for no request but the one whose page was answered. *)
LEMMA ShellSends ==
    ASSUME ApprovalsTypeOK, ShellStep
    PROVE  /\ UNCHANGED <<life, queue, came, withdrawn, givenUp>>
           /\ byHand \subseteq byHand'
           /\ \A q \in Requests : sent'[q] = "allow" => sent[q] = "allow" \/ q \in byHand'
<1> USE DEF brokerVars, shellVars, windowVars, history
<1> DEFINE Sends == \A q \in Requests : sent'[q] = "allow" => sent[q] = "allow" \/ q \in byHand'
<1>0. /\ sent \in [Requests -> Decisions]
      /\ window \in Requests \cup {None} /\ shown \in Requests \cup {None}
  BY DEF ApprovalsTypeOK, Decisions
<1>1. UNCHANGED <<life, queue, came, withdrawn, givenUp>> /\ byHand \subseteq byHand'
  BY DEF ShellStep, Reader, ReadPresent, ReadCancel, Thread, Claim, Open,
        OpenFails, Finish, CloseFinished,
     ResolveCloses, PageLoads, CloseByHand, Decide
<1>2. ASSUME NEW r \in Requests, Reader(r) \/ Claim(r) \/ OpenFails(r) \/ Finish(r)
      PROVE  Sends
  BY <1>0, <1>2 DEF Reader, ReadPresent, ReadCancel, Claim, OpenFails, Finish
<1>3. ASSUME NEW r \in Requests, Open(r) \/ CloseFinished(r) \/ ResolveCloses(r)
      PROVE  Sends
  <2>1. Take(window, "deny")
    BY <1>3 DEF Open, CloseFinished, ResolveCloses, CloseWindow
  <2> QED BY <1>0, <2>1, TakeSends
<1>4. CASE PageLoads
  BY <1>4 DEF PageLoads
<1>5. CASE CloseByHand
  <2>1. Take(window, "deny")
    BY <1>5 DEF CloseByHand, CloseWindow
  <2>2. \A q \in Requests : sent'[q] = sent[q] \/ (q = window /\ sent'[q] = "deny")
    BY <1>0, <2>1, TakeSends
  <2> QED BY <1>1, <2>2
<1>6. ASSUME NEW decision \in {"allow", "deny"}, Decide(decision)
      PROVE  Sends
  <2>1. Take(shown, decision) /\ (decision = "allow" => shown \in byHand')
    BY <1>6 DEF Decide
  <2>2. \A q \in Requests : sent'[q] = sent[q] \/ (q = shown /\ sent'[q] = decision)
    BY <1>0, <2>1, TakeSends
  <2> QED BY <2>1, <2>2
<1> QED BY <1>1, <1>2, <1>3, <1>4, <1>5, <1>6 DEF ShellStep, Thread

LEMMA ShellKeeps ==
    ASSUME AInv, ShellStep
    PROVE  AInv'
<1>1. ApprovalsTypeOK' /\ ApprovalsTypeOK
  BY ShellTypes DEF AInv
<1>2. /\ UNCHANGED <<life, queue, came, withdrawn, givenUp>>
      /\ byHand \subseteq byHand'
      /\ \A q \in Requests : sent'[q] = "allow" => sent[q] = "allow" \/ q \in byHand'
  BY <1>1, ShellSends
<1> QED BY <1>1, <1>2 DEF AInv, QueueIsWaiting, OneIsActive, GivenUpIsOver, AllowanceIsByHand,
        Active

-----------------------------------------------------------------------------
(* The broker.                                                             *)

\* A message written to the shell.
LEMMA PipeTypes ==
    ASSUME ApprovalsTypeOK, NEW kind \in {"present", "cancel"}, NEW r \in Requests
    PROVE  Append(pipe, Message(kind, r)) \in Seq([kind : {"present", "cancel"}, of : Requests])
BY DEF ApprovalsTypeOK, Message

\* A request is refused, waits, or is presented at once.
LEMMA AskKeeps ==
    ASSUME AInv, NEW r \in Requests, Ask(r)
    PROVE  AInv'
<1> USE DEF Active, shellVars, windowVars, history
<1>1. /\ life[r] = "new" /\ life \in [Requests -> {"new", "queued", "active", "allow", "deny"}]
      /\ queue \in Seq(Requests)
      /\ UNCHANGED <<came, withdrawn, thread, sent, slot, window, shown, closers, byHand, givenUp>>
  BY DEF Ask, AInv, ApprovalsTypeOK
<1>2. CASE life' = [life EXCEPT ![r] = "deny"] /\ UNCHANGED <<queue, pipe>>
  BY <1>1, <1>2 DEF AInv, ApprovalsTypeOK, QueueIsWaiting, OneIsActive, GivenUpIsOver, AllowanceIsByHand
<1>3. CASE /\ Active # {} /\ life' = [life EXCEPT ![r] = "queued"]
           /\ queue' = Append(queue, r) /\ UNCHANGED pipe
  <2>1. /\ queue' \in Seq(Requests) /\ Len(queue') = Len(queue) + 1 /\ Len(queue) \in Nat
        /\ DOMAIN queue' = 1..Len(queue) + 1 /\ DOMAIN queue = 1..Len(queue)
        /\ \A i \in DOMAIN queue : queue'[i] = queue[i]
        /\ queue'[Len(queue) + 1] = r
    BY <1>1, <1>3
  <2>2. QueueIsWaiting'
    BY <1>1, <1>3, <2>1 DEF AInv, QueueIsWaiting
  <2>3. ApprovalsTypeOK'
    BY <1>1, <1>3, <2>1 DEF AInv, ApprovalsTypeOK
  <2> QED BY <1>1, <1>3, <2>2, <2>3 DEF AInv, OneIsActive, GivenUpIsOver, AllowanceIsByHand
<1>4. CASE /\ Active = {} /\ life' = [life EXCEPT ![r] = "active"]
           /\ pipe' = Append(pipe, Message("present", r)) /\ UNCHANGED queue
  <2>1. ApprovalsTypeOK'
    BY <1>1, <1>4, PipeTypes DEF AInv, ApprovalsTypeOK
  <2> QED BY <1>1, <1>4, <2>1 DEF AInv, QueueIsWaiting, OneIsActive, GivenUpIsOver,
                AllowanceIsByHand
<1> QED BY <1>2, <1>3, <1>4 DEF Ask

\* What is active is given up, unless its answer is there.
LEMMA CancelKeeps ==
    ASSUME AInv, Timeout \/ CancelAll
    PROVE  AInv'
<1> USE DEF Active, shellVars, windowVars, history
<1>1. life \in [Requests -> {"new", "queued", "active", "allow", "deny"}]
  BY DEF AInv, ApprovalsTypeOK
<1>2. CASE Timeout
  <2>1. PICK r \in Requests : pipe' = Append(pipe, Message("cancel", r))
    BY <1>2 DEF Timeout
  <2>2. /\ withdrawn' = TRUE /\ came = "none" /\ givenUp' = givenUp \cup Active /\ Active # {}
        /\ UNCHANGED <<life, queue, came, thread, sent, slot, window, shown, closers, byHand>>
    BY <1>2 DEF Timeout, IsPending
  <2>3. ApprovalsTypeOK'
    BY <2>1, <2>2, PipeTypes DEF AInv, ApprovalsTypeOK
  <2> QED BY <1>1, <2>2, <2>3 DEF AInv, QueueIsWaiting, OneIsActive, GivenUpIsOver,
                AllowanceIsByHand
<1>3. CASE CancelAll
  <2>1. PICK r \in Requests : pipe' = IF IsPending THEN Append(pipe, Message("cancel", r)) ELSE pipe
    BY <1>3 DEF CancelAll
  <2>2. /\ withdrawn' = TRUE /\ Active # {}
        /\ queue' = <<>>
        /\ life' = [s \in Requests |-> IF life[s] = "queued" THEN "deny" ELSE life[s]]
        /\ givenUp' = givenUp \cup {s \in Requests : life[s] = "queued"}
                              \cup (IF came = "none" THEN Active ELSE {})
        /\ UNCHANGED <<came, thread, sent, slot, window, shown, closers, byHand>>
    BY <1>3 DEF CancelAll, Waiting
  <2>3. pipe' \in Seq([kind : {"present", "cancel"}, of : Requests])
    BY <2>1, PipeTypes DEF AInv, ApprovalsTypeOK
  <2>4. ApprovalsTypeOK'
    BY <1>1, <2>2, <2>3 DEF AInv, ApprovalsTypeOK
  <2>5. Active' = Active
    BY <1>1, <2>2
  <2>6. QueueIsWaiting'
    BY <2>2, EmptySeq DEF QueueIsWaiting
  <2>7. OneIsActive' /\ AllowanceIsByHand'
    BY <1>1, <2>2, <2>5 DEF AInv, OneIsActive, AllowanceIsByHand
  <2>8. GivenUpIsOver'
    BY <1>1, <2>2, <2>5 DEF AInv, ApprovalsTypeOK, GivenUpIsOver
  <2> QED BY <2>4, <2>6, <2>7, <2>8 DEF AInv
<1> QED BY <1>2, <1>3

\* The answer that arrives is that of the request itself.
LEMMA AnswerKeeps ==
    ASSUME AInv, NEW r \in Requests, Answer(r)
    PROVE  AInv'
<1> USE DEF Active, shellVars, windowVars, history
<1>1. /\ thread' = [thread EXCEPT ![r] = "done"]
      /\ came' = IF life[r] = "active" /\ IsPending THEN sent[r] ELSE came
      /\ UNCHANGED <<life, queue, withdrawn, pipe, sent, slot, window, shown, closers, byHand,
                     givenUp>>
  BY DEF Answer
<1>2. ApprovalsTypeOK'
  BY <1>1 DEF AInv, ApprovalsTypeOK
<1>3. CASE life[r] = "active" /\ IsPending
  BY <1>1, <1>2, <1>3 DEF AInv, IsPending, QueueIsWaiting, OneIsActive, GivenUpIsOver,
        AllowanceIsByHand
<1>4. CASE ~(life[r] = "active" /\ IsPending)
  BY <1>1, <1>2, <1>4 DEF AInv, QueueIsWaiting, OneIsActive, GivenUpIsOver, AllowanceIsByHand
<1> QED BY <1>3, <1>4

\* The active request is settled, and the first that waits becomes the active one.
LEMMA SettleKeeps ==
    ASSUME AInv, NEW r \in Requests, Settle(r)
    PROVE  AInv'
<1> USE DEF Active, shellVars, windowVars, history
<1>1. /\ life \in [Requests -> {"new", "queued", "active", "allow", "deny"}]
      /\ queue \in Seq(Requests) /\ life[r] = "active" /\ came \in {"none", "allow", "deny"}
      /\ \A s \in Requests : life[s] = "active" => s = r
  BY DEF Settle, AInv, ApprovalsTypeOK, OneIsActive
<1>2. PICK decision \in {came} \cup (IF withdrawn THEN {"deny"} ELSE {}) :
         /\ decision # "none"
         /\ IF queue = <<>>
            THEN life' = [life EXCEPT ![r] = decision] /\ UNCHANGED <<queue, pipe>>
            ELSE /\ life' = [life EXCEPT ![r] = decision, ![Head(queue)] = "active"]
                 /\ queue' = Tail(queue)
                 /\ pipe' = Append(pipe, Message("present", Head(queue)))
  BY DEF Settle
<1>3. /\ came' = "none" /\ withdrawn' = FALSE
      /\ UNCHANGED <<thread, sent, slot, window, shown, closers, byHand, givenUp>>
  BY DEF Settle
<1>4. /\ decision \in {"allow", "deny"}
      /\ decision = "allow" => r \in byHand /\ r \notin givenUp
  BY <1>1, <1>2 DEF AInv, GivenUpIsOver, AllowanceIsByHand
<1>5. CASE queue = <<>>
  <2>1. life' = [life EXCEPT ![r] = decision] /\ UNCHANGED <<queue, pipe>>
    BY <1>2, <1>5
  <2>2. ApprovalsTypeOK'
    BY <1>1, <1>3, <1>4, <2>1 DEF AInv, ApprovalsTypeOK
  <2> QED BY <1>1, <1>3, <1>4, <1>5, <2>1, <2>2
      DEF AInv, QueueIsWaiting, OneIsActive, GivenUpIsOver, AllowanceIsByHand
<1>6. CASE queue # <<>>
  <2> DEFINE next == Head(queue)
  <2>1. /\ next \in Requests /\ next = queue[1] /\ 1 \in DOMAIN queue
        /\ queue' = Tail(queue) /\ queue' \in Seq(Requests)
        /\ DOMAIN queue = 1..Len(queue) /\ DOMAIN queue' = 1..Len(queue) - 1 /\ Len(queue) \in Nat
        /\ \A i \in DOMAIN queue' : i + 1 \in DOMAIN queue /\ queue'[i] = queue[i + 1]
    <3>1. queue' = Tail(queue)
      BY <1>2, <1>6
    <3>2. Len(queue) \in Nat /\ Len(queue) # 0 /\ DOMAIN queue = 1..Len(queue)
      BY <1>1, <1>6, LenProperties, EmptySeq
    <3>3. /\ next \in Requests /\ next = queue[1] /\ Tail(queue) \in Seq(Requests)
          /\ Len(Tail(queue)) = Len(queue) - 1
          /\ \A i \in 1..Len(Tail(queue)) : Tail(queue)[i] = queue[i + 1]
      BY <1>1, <1>6, HeadTailProperties
    <3>4. DOMAIN queue' = 1..Len(queue) - 1
      BY <3>1, <3>3, LenProperties
    <3> HIDE DEF next
    <3> QED BY <3>1, <3>2, <3>3, <3>4
  <2>2. life' = [life EXCEPT ![r] = decision, ![next] = "active"]
        /\ pipe' = Append(pipe, Message("present", next))
    BY <1>2, <1>6
  <2>3. life[next] = "queued" /\ next # r
    BY <1>1, <2>1 DEF AInv, QueueIsWaiting
  <2>4. \A i \in DOMAIN queue' : life[queue'[i]] = "queued" /\ queue'[i] # next /\ queue'[i] # r
    BY <1>1, <2>1 DEF AInv, QueueIsWaiting
  <2>5. \A i, j \in DOMAIN queue' : queue'[i] = queue'[j] => i = j
    BY <2>1 DEF AInv, QueueIsWaiting
  <2> HIDE DEF next
  <2>6. /\ life' \in [Requests -> {"new", "queued", "active", "allow", "deny"}]
        /\ life'[r] = decision /\ life'[next] = "active"
        /\ \A s \in Requests : s \notin {r, next} => life'[s] = life[s]
    BY <1>1, <1>4, <2>1, <2>2, <2>3
  <2>7. ApprovalsTypeOK'
    BY <1>3, <2>1, <2>2, <2>6, PipeTypes DEF AInv, ApprovalsTypeOK
  <2>8. QueueIsWaiting'
    BY <2>1, <2>4, <2>5, <2>6, ElementOfSeq DEF QueueIsWaiting
  <2>9. OneIsActive'
    BY <1>1, <1>3, <1>4, <2>1, <2>6 DEF OneIsActive
  <2>10. GivenUpIsOver' /\ AllowanceIsByHand'
    BY <1>1, <1>3, <1>4, <2>1, <2>3, <2>6 DEF AInv, ApprovalsTypeOK, GivenUpIsOver, AllowanceIsByHand
  <2> QED BY <2>7, <2>8, <2>9, <2>10 DEF AInv
<1> QED BY <1>5, <1>6

-----------------------------------------------------------------------------
LEMMA ApprovalsInvariance == ApprovalsSpec => []AInv
<1>1. ApprovalsInit => AInv
  BY AInit
<1>2. ASSUME AInv, [ApprovalsNext]_approvalVars
      PROVE  AInv'
  <2>1. CASE UNCHANGED approvalVars
    BY <1>2, <2>1 DEF approvalVars, brokerVars, shellVars, windowVars, history, AInv, ApprovalsTypeOK,
       QueueIsWaiting, OneIsActive, GivenUpIsOver, AllowanceIsByHand, Active
  <2> QED BY <1>2, <2>1, AskKeeps, CancelKeeps, AnswerKeeps, SettleKeeps, ShellKeeps
      DEF ApprovalsNext, ShellStep
<1> QED BY <1>1, <1>2, PTL DEF ApprovalsSpec

(* The types of the variables of the broker, of the pipe and of the shell. *)
THEOREM ApprovalsTypeCorrect == ApprovalsSpec => []ApprovalsTypeOK
<1>1. AInv => ApprovalsTypeOK
  BY DEF AInv
<1> QED BY <1>1, ApprovalsInvariance, PTL

(* A call is allowed only by a press of Allow on a page that showed this   *)
(* very call, and never after it was cancelled or had timed out.           *)
THEOREM AllowancesAreByHand == ApprovalsSpec => []AllowedByHand
<1>1. AInv => AllowedByHand
  BY DEF AInv, GivenUpIsOver, AllowanceIsByHand, AllowedByHand
<1> QED BY <1>1, ApprovalsInvariance, PTL
=============================================================================
