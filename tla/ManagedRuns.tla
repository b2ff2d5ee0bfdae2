------------------------------ MODULE ManagedRuns ------------------------------
(***************************************************************************)
(* The processes that a Gateway runs in the background, and the ledger of  *)
(* what became of them: ManagedRunManager of packages/windows-adapter/src/ *)
(* run-manager.ts, SqliteRunStore of packages/runtime-core/src/runs.ts and *)
(* RunCompletionNotifier of run-completion-notifier.ts.                    *)
(*                                                                         *)
(* The manager is one JavaScript thread: the events of a child process,    *)
(* its timer, a cancellation and the shutdown come in any order, each is   *)
(* one action.  The store is a file: it survives a crash, which can fall   *)
(* between two of its writes.  Output and waiting callers only read.       *)
(***************************************************************************)
EXTENDS Naturals, FiniteSets

CONSTANTS
    MaxRuns,        \* bound: the runs that are ever created
    Retention,      \* completedRetentionLimit
    MaxRestarts     \* bound: how often the Gateway comes back

ASSUME RunsAssumption ==
    /\ MaxRuns \in Nat
    /\ Retention \in Nat \ {0}
    /\ MaxRestarts \in Nat

\* In the order of their creation.
Runs == 1..MaxRuns

VARIABLES
    row,        \* the state that the ledger gives a run
    proc,       \* its process: "none", "alive", or how it exited
    kill,       \* "none", "asked" (terminateProcessTree is at work) or "refused"
    held,       \* the runs whose output a descendant of an exited process keeps open
    active,     \* the runs the manager follows
    cancelled,  \* those of them with cancelRequested
    timedOut,   \* those of them whose timer has fired
    handling,   \* the runs whose completion handler has not returned
    receipts,   \* the runs with an audit receipt of their completion
    mode,       \* the manager: "open", "stopping", "draining", "closed" or "down"
    restarts

manager == <<active, cancelled, timedOut, handling>>
vars == <<row, proc, kill, held, manager, receipts, mode, restarts>>

Outcome == {"succeeded", "failed", "cancelled", "timed-out", "interrupted"}
Unfinished == {"queued", "running"}
Exited == {"zero", "nonzero"}

TypeOK ==
    /\ row \in [Runs -> Outcome \cup Unfinished \cup {"absent", "pruned"}]
    /\ proc \in [Runs -> Exited \cup {"none", "alive"}]
    /\ kill \in [Runs -> {"none", "asked", "refused"}]
    /\ held \subseteq Runs
    /\ active \subseteq Runs /\ cancelled \subseteq Runs /\ timedOut \subseteq Runs
    /\ handling \subseteq Runs /\ receipts \subseteq Runs
    /\ mode \in {"open", "stopping", "draining", "closed", "down"}
    /\ restarts \in 0..MaxRestarts

Init ==
    /\ row = [r \in Runs |-> "absent"]
    /\ proc = [r \in Runs |-> "none"]
    /\ kill = [r \in Runs |-> "none"]
    /\ held = {}
    /\ active = {} /\ cancelled = {} /\ timedOut = {}
    /\ handling = {} /\ receipts = {}
    /\ mode = "open"
    /\ restarts = 0

-----------------------------------------------------------------------------
(* The ledger.  A row that is written with an outcome may push out the     *)
(* oldest finished rows, itself included.                                  *)
Finished(ledger) == {r \in Runs : ledger[r] \in Outcome}

Pruned(ledger) ==
    [r \in Runs |->
        IF /\ r \in Finished(ledger)
           /\ Cardinality({q \in Finished(ledger) : q > r}) >= Retention
        THEN "pruned" ELSE ledger[r]]

\* SqliteRunStore.update with an outcome for each run of R
Recorded(R, outcome) == Pruned([r \in Runs |-> IF r \in R THEN outcome ELSE row[r]])

-----------------------------------------------------------------------------
\* The next run.
IsNew(r) == row[r] = "absent" /\ \A q \in Runs : q < r => row[q] # "absent"

(* start, when the process is spawned; whether the program could be        *)
(* started at all is only known later.                                     *)
Start(r) ==
    /\ mode = "open"
    /\ IsNew(r)
    /\ row' = [row EXCEPT ![r] = "running"]
    /\ \E p \in {"alive", "none"} : proc' = [proc EXCEPT ![r] = p]
    /\ active' = active \cup {r}
    /\ UNCHANGED <<kill, held, cancelled, timedOut, handling, receipts, mode, restarts>>

\* start, when spawn throws
StartThrows(r) ==
    /\ mode = "open"
    /\ IsNew(r)
    /\ row' = Recorded({r}, "failed")
    /\ handling' = handling \cup {r}
    /\ UNCHANGED <<proc, kill, held, active, cancelled, timedOut, receipts, mode, restarts>>

\* Mutant: an event is acted on although the run has an outcome.
IsAwaited(r) == mode # "down"

\* The run is not settled.
IsOpen(r) == r \in active

\* #finalize
Finalize(R, outcome) ==
    /\ row' = Recorded(R, outcome)
    /\ active' = active \ R
    /\ cancelled' = cancelled \ R
    /\ timedOut' = timedOut \ R
    /\ handling' = handling \cup R

(* The process ends, by itself or because it was killed.  Its "close" event*)
(* comes later, once its output is closed as well, and a descendant that   *)
(* has inherited it may keep it open: one that outlives the process, or    *)
(* that the kill of its tree does not find.                                *)
Ends(r, code) ==
    /\ proc[r] = "alive"
    /\ proc' = [proc EXCEPT ![r] = code]
    /\ held' \in {held, held \cup {r}}
    /\ UNCHANGED <<row, kill, manager, receipts, mode, restarts>>

Exit(r) == \E code \in Exited : Ends(r, code)
Die(r) == kill[r] = "asked" /\ Ends(r, "nonzero")

\* The descendant closes the output, or ends.
LetGo(r) ==
    /\ r \in held
    /\ held' = held \ {r}
    /\ UNCHANGED <<row, proc, kill, manager, receipts, mode, restarts>>

OutcomeOf(r) ==
    IF r \in timedOut THEN "timed-out"
    ELSE IF r \in cancelled THEN "cancelled"
    ELSE IF proc[r] = "zero" THEN "succeeded" ELSE "failed"

\* the listener of "close"
Close(r) ==
    /\ IsOpen(r) /\ proc[r] \in Exited /\ r \notin held
    /\ Finalize({r}, OutcomeOf(r))
    /\ UNCHANGED <<proc, kill, held, receipts, mode, restarts>>

\* the listener of "error": the program could not be started ...
SpawnError(r) ==
    /\ IsOpen(r) /\ proc[r] = "none"
    /\ Finalize({r}, "failed")
    /\ UNCHANGED <<proc, kill, held, receipts, mode, restarts>>

(* ... or all attempts to kill it were refused.  The timer and a           *)
(* cancellation each make their own attempts: what a second one does later *)
(* is an Exit, or, as nobody listens to a second "error", a Crash.         *)
KillError(r) ==
    /\ proc[r] = "alive" /\ kill[r] = "asked"
    /\ kill' = [kill EXCEPT ![r] = "refused"]
    /\ IF IsOpen(r) THEN Finalize({r}, "failed") ELSE UNCHANGED <<row, manager>>
    /\ UNCHANGED <<proc, held, receipts, mode, restarts>>

\* Mutant: the timer marks the run and leaves the process alone.
MarkTimedOut(r) ==
    /\ IsOpen(r) /\ r \notin timedOut
    /\ timedOut' = timedOut \cup {r}
    /\ UNCHANGED <<row, proc, kill, held, active, cancelled, handling, receipts, mode, restarts>>

\* the timer of start
TimeOut(r) ==
    /\ IsOpen(r) /\ r \notin timedOut
    /\ timedOut' = timedOut \cup {r}
    /\ kill' = [kill EXCEPT ![r] = "asked"]
    /\ UNCHANGED <<row, proc, held, active, cancelled, handling, receipts, mode, restarts>>

\* Mutant: a cancelled run is recorded before its process has ended.
CancelNow(r) ==
    /\ mode \in {"open", "stopping"}
    /\ IsOpen(r) /\ r \notin cancelled
    /\ kill' = [kill EXCEPT ![r] = "asked"]
    /\ Finalize({r}, "cancelled")
    /\ UNCHANGED <<proc, held, receipts, mode, restarts>>

(* cancel; terminateProcessTree may be delayed, up to PROCESS_TREE_STARTUP_ *)
(* GRACE_MS after the start.                                               *)
Cancel(r) ==
    /\ mode \in {"open", "stopping"}
    /\ IsOpen(r) /\ r \notin cancelled
    /\ cancelled' = cancelled \cup {r}
    /\ kill' = [kill EXCEPT ![r] = "asked"]
    /\ UNCHANGED <<row, proc, held, active, timedOut, handling, receipts, mode, restarts>>

\* RunCompletionNotifier.handle, which fails without a receipt when the audit does
Handled(r) ==
    /\ r \in handling
    /\ handling' = handling \ {r}
    /\ receipts' \in {receipts, receipts \cup {r}}
    /\ UNCHANGED <<row, proc, kill, held, active, cancelled, timedOut, mode, restarts>>

-----------------------------------------------------------------------------
(* shutdown: it asks every process to end, waits up to five seconds for    *)
(* their completions, gives up on the rest, waits up to ten seconds for    *)
(* the handlers and closes the store.                                      *)
Shutdown ==
    /\ mode = "open"
    /\ mode' = "stopping"
    /\ cancelled' = active
    /\ kill' = [r \in Runs |-> IF r \in active THEN "asked" ELSE kill[r]]
    /\ UNCHANGED <<row, proc, held, active, timedOut, handling, receipts, restarts>>

\* Mutant: the shutdown does not record what it gives up on.
StopWaiting ==
    /\ mode = "stopping"
    /\ mode' = "draining"
    /\ UNCHANGED <<row, proc, kill, held, manager, receipts, restarts>>

GiveUp ==
    /\ mode = "stopping"
    /\ mode' = "draining"
    /\ Finalize(active, "interrupted")
    /\ UNCHANGED <<proc, kill, held, receipts, restarts>>

CloseStore ==
    /\ mode = "draining"
    /\ mode' = "closed"
    /\ UNCHANGED <<row, proc, kill, held, manager, receipts, restarts>>

\* interruptActive
InterruptActive == Recorded({r \in Runs : row[r] \in Unfinished}, "interrupted")

\* The constructor of the manager, in a new process.
Restart ==
    /\ mode \in {"closed", "down"}
    /\ restarts < MaxRestarts
    /\ restarts' = restarts + 1
    /\ mode' = "open"
    /\ row' = InterruptActive
    /\ UNCHANGED <<proc, kill, held, manager, receipts>>

(* The Gateway's process ends, and with it the output it reads.  A child   *)
(* may or may not end with it: that is the operating system's choice.      *)
Vanish ==
    /\ mode' = "down"
    /\ active' = {} /\ cancelled' = {} /\ timedOut' = {} /\ handling' = {}
    /\ kill' = [r \in Runs |-> IF kill[r] = "asked" THEN "none" ELSE kill[r]]
    /\ held' = {}
    /\ UNCHANGED <<receipts, restarts>>

Survivors(p) ==
    {q \in [Runs -> Exited \cup {"none", "alive"}] :
        \A r \in Runs : q[r] = p[r] \/ (p[r] = "alive" /\ q[r] = "nonzero")}

Crash ==
    /\ mode # "down"
    /\ Vanish
    /\ proc' \in Survivors(proc)
    /\ UNCHANGED row

\* A crash between the two writes of start, before or after the process is spawned.
CrashInStart(r) ==
    /\ mode = "open"
    /\ IsNew(r)
    /\ Vanish
    /\ row' = [row EXCEPT ![r] = "queued"]
    /\ \E p \in {"alive", "none"} : proc' \in Survivors([proc EXCEPT ![r] = p])

Next ==
    \/ \E r \in Runs :
         \/ Start(r) \/ StartThrows(r) \/ CrashInStart(r)
         \/ Exit(r) \/ Die(r) \/ LetGo(r) \/ Close(r) \/ SpawnError(r) \/ KillError(r)
         \/ TimeOut(r) \/ Cancel(r) \/ Handled(r)
    \/ Shutdown \/ GiveUp \/ CloseStore \/ Restart \/ Crash

Spec == Init /\ [][Next]_vars

(* A timer fires, an event that is due is delivered, and Windows kills a   *)
(* process or refuses to.  A descendant need never let go.                 *)
Fairness ==
    \A r \in Runs :
        /\ WF_vars(TimeOut(r))
        /\ WF_vars(Die(r) \/ KillError(r))
        /\ WF_vars(Close(r) \/ SpawnError(r))

FairSpec == Spec /\ Fairness

-----------------------------------------------------------------------------
(* What the ledger says of a process is so: one that it calls ended has    *)
(* ended, and with the exit code it implies, whatever the order of the     *)
(* events, cancellations and timeouts; a run is "failed" with a live       *)
(* process only if that could not be killed.  And its completion is only   *)
(* told, and audited, once it has an outcome.                              *)
LedgerIsTruthful ==
    \A r \in Runs :
        /\ row[r] \in {"cancelled", "timed-out"} => proc[r] \in Exited
        /\ row[r] = "succeeded" => proc[r] = "zero"
        /\ row[r] = "failed" /\ proc[r] = "alive" => kill[r] = "refused"
        /\ r \in handling \cup receipts => row[r] \in Outcome \cup {"pruned"}

(* The ledger has a run in progress exactly as long as the manager follows *)
(* it: after a crash, a restart or a shutdown none is left behind that     *)
(* would be in progress for ever.                                          *)
LedgerIsFollowed ==
    /\ mode # "down" => active = {r \in Runs : row[r] \in Unfinished}
    /\ mode \in {"draining", "closed"} => active = {}

(* An outcome is final: a late event, a second timer, a cancellation, a    *)
(* shutdown or a restart changes none.                                     *)
OutcomeIsFinal ==
    [][\A r \in Runs : row[r] \in Outcome \cup {"pruned"} => row'[r] \in {row[r], "pruned"}]_vars

(* Every run comes to an end, as long as the Gateway lives: its timer kills*)
(* the process, or gives the run up when it cannot.  Only a descendant that*)
(* keeps the output of an exited process open leaves it in progress, past  *)
(* its timeout and every cancellation: "close" is all that is listened to. *)
EveryRunEnds ==
    \A r \in Runs : row[r] = "running" ~> (row[r] # "running" \/ mode = "down" \/ r \in held)
=============================================================================
