-------------------------- MODULE CutoverCoordinator --------------------------
(***************************************************************************)
(* RuntimeCutoverCoordinator of packages/update-core/src/runtime-cutover.ts *)
(* : the phases of a Runtime Host cutover, each the wait for an operation  *)
(* of an adapter.  The wait is bounded by a deadline and by the caller's   *)
(* abort; both end the wait only, and an operation given up runs on.  When *)
(* a phase fails, the operations known to have succeeded are undone.       *)
(*                                                                         *)
(* What the operations do is left to the modules that extend this one:     *)
(* DurableRuntimeCutover and RuntimeTraffic.  The actions here change the  *)
(* variables of this module only.                                          *)
(***************************************************************************)
EXTENDS Naturals, FiniteSets

CONSTANT Prompt     \* the phases whose operation awaits nothing, so cannot be given up

VARIABLES
    pc,         \* the phase that is awaited, "receipt" before it is written, or "idle"
    op,         \* how far the operation of every phase is
    failures,   \* whether a cleanup phase failed
    outcome,    \* the outcome the receipt will state
    abandoned   \* the phases of the cutover whose operation was given up

coordinatorVars == <<pc, op, failures, outcome, abandoned>>

ForwardPhases == {"start-candidate", "candidate-health", "quiesce-active", "drain-active",
                  "checkpoint-active", "switch-traffic", "candidate-canary",
                  "commit-candidate"}
RestoringPhases == {"rollback-traffic", "resume-active", "stop-candidate"}
CleanupPhases == RestoringPhases \cup {"stop-previous"}
Phases == ForwardPhases \cup CleanupPhases

ASSUME PromptAssumption == Prompt \subseteq Phases

Outcomes == {"committed", "rolled-back", "failed"}

\* Between them an operation is at a step of its own; the first one is "begun".
Ended == {"unbegun", "done", "failed"}
IsRunning(p) == op[p] \notin Ended

\* Nothing given up is still running.
Quiet == \A p \in Phases : ~IsRunning(p)

Unbegun == [p \in Phases |-> "unbegun"]

CoordinatorInit ==
    /\ pc = "idle" /\ op = Unbegun
    /\ failures = FALSE /\ outcome = "none" /\ abandoned = {}

-----------------------------------------------------------------------------
Enter(p) == pc' = p /\ op' = [op EXCEPT ![p] = "begun"]

BeginCutover ==
    /\ pc = "idle"
    /\ pc' = "start-candidate" /\ op' = [Unbegun EXCEPT !["start-candidate"] = "begun"]
    /\ failures' = FALSE /\ outcome' = "none" /\ abandoned' = {}

PhaseAfter(p) ==
    CASE p = "start-candidate" -> "candidate-health"
      [] p = "candidate-health" -> "quiesce-active"
      [] p = "quiesce-active" -> "drain-active"
      [] p = "drain-active" -> "checkpoint-active"
      [] p = "checkpoint-active" -> "switch-traffic"
      [] p = "switch-traffic" -> "candidate-canary"
      [] p = "candidate-canary" -> "commit-candidate"
      [] p = "commit-candidate" -> "stop-previous"

\* The awaited operation has returned in time.
Advance ==
    /\ pc \in ForwardPhases /\ op[pc] = "done"
    /\ Enter(PhaseAfter(pc))
    /\ UNCHANGED <<failures, outcome, abandoned>>

\* A candidate of the wrong release, or one that is the active host itself, is turned away;
\* the instance that its handle names is stopped all the same.
RejectCandidate ==
    /\ pc = "start-candidate" /\ op[pc] = "done"
    /\ Enter("stop-candidate")
    /\ UNCHANGED <<failures, outcome, abandoned>>

\* Mutant: a host is resumed only after the traffic was switched.
DueAfterSwitch(p) ==
    CASE p \in {"rollback-traffic", "resume-active"} -> op["switch-traffic"] = "done"
      [] p = "stop-candidate" -> op["candidate-health"] # "unbegun"
\* What the operations that have returned, in time or not, ask to be undone.
Due(p) ==
    CASE p = "rollback-traffic" -> op["switch-traffic"] = "done"
      [] p = "resume-active" -> op["quiesce-active"] = "done"
      [] p = "stop-candidate" -> op["candidate-health"] # "unbegun"

\* The next of the cleanup phases that are left; without one the receipt is due.
NextCleanup(left) ==
    LET due == {p \in left : Due(p)} IN
    IF "rollback-traffic" \in due THEN "rollback-traffic"
    ELSE IF "resume-active" \in due THEN "resume-active"
    ELSE IF "stop-candidate" \in due THEN "stop-candidate"
    ELSE "receipt"

CleanUp(left, failed) ==
    LET next == NextCleanup(left)
    IN /\ pc' = next
       /\ op' = IF next = "receipt" THEN op ELSE [op EXCEPT ![next] = "begun"]
       /\ failures' = failed
       /\ outcome' = IF next # "receipt" THEN "none"
                     ELSE IF failed THEN "failed" ELSE "rolled-back"

\* Mutant: the wait has no deadline.
WaitForever == op[pc] = "failed"
\* The wait for the operation ends: it threw, or the deadline passed or the caller
\* aborted, and it runs on.
WaitEnds ==
    \/ op[pc] = "failed"
    \/ IsRunning(pc) /\ pc \notin Prompt

\* An abort from before a prompt operation is noticed when it has returned.
GiveUp ==
    /\ pc \in ForwardPhases
    /\ WaitEnds \/ (pc \in Prompt /\ op[pc] = "done")
    /\ CleanUp(RestoringPhases, FALSE)
    /\ abandoned' = IF IsRunning(pc) THEN abandoned \cup {pc} ELSE abandoned

CleanupAfter(p) ==
    CASE p = "rollback-traffic" -> {"resume-active", "stop-candidate"}
      [] p = "resume-active" -> {"stop-candidate"}
      [] p = "stop-candidate" -> {}

CleanupEnds ==
    /\ pc \in RestoringPhases
    /\ \/ op[pc] = "done" /\ CleanUp(CleanupAfter(pc), failures)
       \/ WaitEnds /\ CleanUp(CleanupAfter(pc), TRUE)
    /\ UNCHANGED abandoned

\* A candidate that was committed stays so, although its predecessor could not be stopped.
Retired ==
    /\ pc = "stop-previous"
    /\ op[pc] = "done" \/ WaitEnds
    /\ pc' = "receipt" /\ outcome' = "committed"
    /\ UNCHANGED <<op, failures, abandoned>>

Coordinate == Advance \/ RejectCandidate \/ GiveUp \/ CleanupEnds \/ Retired

ReceiptWritten ==
    /\ pc = "receipt"
    /\ pc' = "idle" /\ outcome' = "none"
    /\ UNCHANGED <<op, failures, abandoned>>
=============================================================================
