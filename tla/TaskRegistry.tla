---------------------------- MODULE TaskRegistry ----------------------------
(***************************************************************************)
(* The Task registry: who owns each Task, which sessions hold a lease on   *)
(* it, what its workflow status is and what the last terminal.exec run for *)
(* it left as evidence.  One action per operation of TaskRegistry, each a  *)
(* single SQLite transaction; an operation the code refuses or rolls back  *)
(* is no step.  The Gateway's callbacks (session activity, session closed, *)
(* tool activity) are actions of the environment that run the code they    *)
(* reach in the registry and in the controller.                            *)
(*                                                                         *)
(* Statuses that the code treats alike are one value: "running" stands for *)
(* queued, planning, running and waiting-user, "failed" for failed and     *)
(* cancelled.  Titles, progress, steps and Agent names are left out, and   *)
(* so is the conversation.                                                 *)
(***************************************************************************)
EXTENDS TaskSessionLeases

CONSTANTS
  Task,           \* Task ids
  Activity,       \* tool activities that can be in flight
  MaxNow,         \* bound of the wall clock
  MaxSetBacks     \* how often the wall clock may be set back

ASSUME ClockAssumption == MaxNow \in Nat /\ MaxSetBacks \in Nat

(* An inferred Task is owned by the Agent whose id is its principal's.     *)
ASSUME PrincipalsAreAgents == Principal \subseteq Agent

CONSTANTS
  NoAgent,        \* agent_id NULL
  NoTask,         \* the Task of an activity that is not attributed to one
  NoActivity      \* the activity of a Task that has no evidence row

ASSUME NoValuesAssumption ==
  NoAgent \notin Agent /\ NoTask \notin Task /\ NoActivity \notin Activity

VARIABLES
  hostUp,       \* the Runtime Host runs, with the database open
  now,          \* Date.now()
  setBacks,     \* how often the clock was set back
  status,       \* tasks.status, "absent" where there is no row
  formal,       \* source is not "inferred"
  principal,    \* tasks.principal_id
  owner,        \* tasks.agent_id
  heartbeatAt,  \* tasks.last_heartbeat_at
  lease,        \* task_agent_session_leases_v1
  evidence,     \* task_tool_execution_evidence_v1
  attributed,   \* the controller's #activityTaskIds, with each event's session
  lastExec      \* history: the terminal.exec last started for a Task

hostVars == <<hostUp, now, setBacks>>
ownership == <<formal, principal, owner>>
execVars  == <<evidence, attributed, lastExec>>
vars == <<hostUp, now, setBacks, status, formal, principal, owner, heartbeatAt, lease,
          evidence, attributed, lastExec>>

Never == -1
LiveStatus == {"running", "blocked"}
Terminal == {"succeeded", "failed"}
Status == LiveStatus \cup Terminal
Outcome == {"none", "pending", "succeeded", "failed"}

(* A terminal.exec and how it ended; it succeeded iff it has a receipt.    *)
Exec == [activity : Activity \cup {NoActivity}, outcome : Outcome]
NoExec == [activity |-> NoActivity, outcome |-> "none"]

(* A row of the evidence table: the exec, and when the row was written.    *)
Evidence == [exec : Exec, at : Nat]
NoEvidence == [exec |-> NoExec, at |-> 0]

(* A tool activity has a fresh id: it starts once and ends at most once.   *)
Phase == {"new", "started", "ended"}
Event == [phase : Phase, task : Task \cup {NoTask}, session : Session \cup {NoSession},
          isExec : BOOLEAN]
NewEvent == [phase |-> "new", task |-> NoTask, session |-> NoSession, isExec |-> FALSE]
Ended(event) == [event EXCEPT !.phase = "ended"]

TypeOK ==
  /\ hostUp \in BOOLEAN
  /\ now \in 0 .. MaxNow
  /\ setBacks \in 0 .. MaxSetBacks
  /\ status \in [Task -> Status \cup {"absent"}]
  /\ formal \in [Task -> BOOLEAN]
  /\ principal \in [Task -> Principal]
  /\ owner \in [Task -> Agent \cup {NoAgent}]
  /\ heartbeatAt \in [Task -> Nat \cup {Never}]
  /\ lease \in [Task -> LeaseTable]
  /\ evidence \in [Task -> Evidence]
  /\ attributed \in [Activity -> Event]
  /\ lastExec \in [Task -> Exec]

Exists(t) == status[t] # "absent"
IsTerminal(t) == status[t] \in Terminal
Owned(t) == Exists(t) /\ owner[t] # NoAgent

-----------------------------------------------------------------------------
(* #touchTaskSession: nothing for an unowned or a terminal Task.           *)
MayTouch(t, s) == IsTerminal(t) \/ CanTouch(lease[t], s, owner[t], principal[t])

TouchedLease(t, s) ==
  IF IsTerminal(t) THEN lease
  ELSE [lease EXCEPT ![t] = Touched(lease[t], s, owner[t], principal[t], now)]

(* touchSession: every lease that session s of p holds as a current owner. *)
SessionRenewed(p, s) ==
  [t \in Task |-> IF Owned(t) /\ principal[t] = p
                  THEN Renewed(lease[t], s, owner[t], p, now) ELSE lease[t]]

-----------------------------------------------------------------------------
(* createTask from a tool: a new formal Task in any status, owned by the   *)
(* caller; a terminal one takes no lease.                                  *)
CreateTask(t, a, p, s, st) ==
  /\ ~Exists(t)
  /\ status' = [status EXCEPT ![t] = st]
  /\ formal' = [formal EXCEPT ![t] = TRUE]
  /\ principal' = [principal EXCEPT ![t] = p]
  /\ owner' = [owner EXCEPT ![t] = a]
  /\ heartbeatAt' = [heartbeatAt EXCEPT ![t] = now]
  /\ lease' = IF st \in Terminal THEN lease
              ELSE [lease EXCEPT ![t] = Touched(lease[t], s, a, p, now)]
  /\ UNCHANGED <<hostVars, execVars>>

(* createTask repeated with the idempotency key of an existing Task.       *)
ReplayCreate(t, a, s) ==
  /\ Exists(t) /\ owner[t] = a
  /\ MayTouch(t, s)
  /\ lease' = TouchedLease(t, s)
  /\ UNCHANGED <<hostVars, status, ownership, heartbeatAt, execVars>>

(* assertTaskTerminalExecutionSucceeded                                    *)
ExecutionAllowsSuccess(t) == evidence[t].exec.outcome \in {"none", "succeeded"}

UpdateTask(t, a, s, st) ==
  /\ Exists(t) /\ owner[t] = a
  /\ st = "succeeded" => ExecutionAllowsSuccess(t)
  /\ MayTouch(t, s)
  /\ lease' = TouchedLease(t, s)
  /\ status' = [status EXCEPT ![t] = st]
  /\ UNCHANGED <<hostVars, ownership, heartbeatAt, execVars>>

(* heartbeat: the tool's schema admits the live statuses, or none.         *)
Heartbeat(t, a, s, st) ==
  /\ Exists(t) /\ owner[t] = a
  /\ st \in LiveStatus \cup {status[t]}
  /\ MayTouch(t, s)
  /\ lease' = TouchedLease(t, s)
  /\ status' = [status EXCEPT ![t] = st]
  /\ heartbeatAt' = [heartbeatAt EXCEPT ![t] = now]
  /\ UNCHANGED <<hostVars, ownership, execVars>>

(* Mutant: the owner is cleared, its leases are left open.                 *)
UnassignKeepsLeases(t, a) ==
  /\ Exists(t) /\ owner[t] = a
  /\ formal[t] /\ ~IsTerminal(t)
  /\ owner' = [owner EXCEPT ![t] = NoAgent]
  /\ heartbeatAt' = [heartbeatAt EXCEPT ![t] = Never]
  /\ UNCHANGED <<hostVars, status, formal, principal, lease, execVars>>

(* unassignTask carries no session: the current owner's leases are closed. *)
UnassignTask(t, a) ==
  /\ Exists(t) /\ owner[t] = a
  /\ formal[t] /\ ~IsTerminal(t)
  /\ lease' = [lease EXCEPT ![t] = OwnerClosed(lease[t], a, principal[t], now)]
  /\ owner' = [owner EXCEPT ![t] = NoAgent]
  /\ heartbeatAt' = [heartbeatAt EXCEPT ![t] = Never]
  /\ UNCHANGED <<hostVars, status, formal, principal, execVars>>

(* The guards of claimTask.  A caller may also name the owner it expects   *)
(* to replace; a claim that names another is refused like any other.       *)
CanClaim(t, a) ==
  /\ Exists(t) /\ formal[t] /\ ~IsTerminal(t)
  /\ owner[t] \notin {NoAgent, a} => Presence(lease[t], owner[t], principal[t], now) # "online"

(* A claim by the owner touches its lease (and, under a new name, writes   *)
(* the owner columns again); a claim by another Agent closes the leases of *)
(* the owner it replaces before it binds its own.                          *)
ClaimTask(t, a, s, renamed) ==
  LET held == IF owner[t] \in {NoAgent, a} THEN lease[t]
              ELSE OwnerClosed(lease[t], owner[t], principal[t], now)
  IN  /\ CanClaim(t, a)
      /\ CanTouch(held, s, a, principal[t])
      /\ lease' = [lease EXCEPT ![t] = Touched(held, s, a, principal[t], now)]
      /\ owner' = [owner EXCEPT ![t] = a]
      /\ heartbeatAt' = IF owner[t] = a /\ ~renamed THEN heartbeatAt
                        ELSE [heartbeatAt EXCEPT ![t] = now]
      /\ UNCHANGED <<hostVars, status, formal, principal, execVars>>

(* addAgentMessage: a transport write to a live Task needs a live session  *)
(* of the owner, or binds a first one.  The message itself is left out.    *)
AddAgentMessage(t, a, s) ==
  /\ Exists(t) /\ owner[t] = a
  /\ ~IsTerminal(t) /\ s # NoSession
  /\ CanObserve(lease[t], s, a, principal[t], now)
  /\ lease' = [lease EXCEPT ![t] = Observed(lease[t], s, a, principal[t], now)]
  /\ UNCHANGED <<hostVars, status, ownership, heartbeatAt, execVars>>

TouchSessionActivity(p, s) ==
  /\ lease' = SessionRenewed(p, s)
  /\ UNCHANGED <<hostVars, status, ownership, heartbeatAt, execVars>>

CloseSession(p, s) ==
  /\ lease' = [t \in Task |-> SessionClosed(lease[t], s, p, now)]
  /\ UNCHANGED <<hostVars, status, ownership, heartbeatAt, execVars>>

-----------------------------------------------------------------------------
(* Mutant: an activity goes to any live formal Task of its principal.      *)
AnyLiveFormal(p, s, ls) ==
  {t \in Task : Exists(t) /\ formal[t] /\ ~IsTerminal(t) /\ principal[t] = p}

(* The Task a started activity of session s is attributed to: the one live *)
(* formal Task where the session has a live lease; with none, the active   *)
(* inferred Task of the principal; otherwise the principal's inferred Task *)
(* is reopened, or created if it has none.                                 *)
LiveFormal(p, s, ls) ==
  {t \in Task : /\ Exists(t) /\ formal[t] /\ ~IsTerminal(t) /\ principal[t] = p
                /\ HasLiveSession(ls[t], s, owner[t], p, now)}

Inferred(p) == {t \in Task : Exists(t) /\ ~formal[t] /\ principal[t] = p}

AttachesTo(p, s, ls) ==
  LET live == LiveFormal(p, s, ls)
      active == {t \in Inferred(p) : ~IsTerminal(t)}
  IN  IF \E t \in live : live = {t} THEN live
      ELSE IF live = {} THEN active ELSE {}

(* recordTaskToolExecutionStart: only terminal.exec of a known session, and *)
(* only if it does not start before the recorded row was last written.     *)
Recorded(s, isExec) == isExec /\ s # NoSession

StartedExec(t, x, s, isExec) ==
  LET started == [activity |-> x, outcome |-> "pending"]
  IN  /\ evidence' = IF Recorded(s, isExec) /\ now >= evidence[t].at
                     THEN [evidence EXCEPT ![t] = [exec |-> started, at |-> now]]
                     ELSE evidence
      /\ lastExec' = IF Recorded(s, isExec) THEN [lastExec EXCEPT ![t] = started] ELSE lastExec
      /\ attributed' = [attributed EXCEPT
           ![x] = [phase |-> "started", task |-> t, session |-> s, isExec |-> isExec]]

(* attachActivity where no Task qualifies: createTask creates the inferred *)
(* Task of the principal, without a lease, or finds it again; either way   *)
(* it is running afterwards.                                               *)
InferTask(t, p) ==
  /\ IF Inferred(p) = {} THEN ~Exists(t) ELSE t \in Inferred(p)
  /\ status' = [status EXCEPT ![t] = "running"]
  /\ formal' = [formal EXCEPT ![t] = FALSE]
  /\ principal' = [principal EXCEPT ![t] = p]
  /\ owner' = [owner EXCEPT ![t] = p]
  /\ heartbeatAt' = IF Exists(t) THEN heartbeatAt ELSE [heartbeatAt EXCEPT ![t] = now]

(* The controller's handler of a started event: it renews the session's    *)
(* leases, then attaches the activity.                                     *)
StartActivity(x, p, s, isExec) ==
  /\ attributed[x].phase = "new"
  /\ lease' = SessionRenewed(p, s)
  /\ \E t \in Task :
       /\ StartedExec(t, x, s, isExec)
       /\ \/ /\ t \in AttachesTo(p, s, lease')
             /\ UNCHANGED <<status, ownership, heartbeatAt>>
          \/ /\ AttachesTo(p, s, lease') = {}
             /\ InferTask(t, p)
  /\ UNCHANGED hostVars

(* Mutant: whichever terminal.exec ends last writes the row.               *)
RowOfLastToEnd(t, x, outcome) == [exec |-> [activity |-> x, outcome |-> outcome], at |-> now]

(* recordTaskToolExecutionCompletion overwrites the row only if it is about *)
(* the same activity, then reports what the row says.                      *)
CompletedRow(t, x, outcome) ==
  IF evidence[t].exec.activity \in {x, NoActivity}
  THEN [exec |-> [activity |-> x, outcome |-> outcome], at |-> now]
  ELSE evidence[t]

VerifiedOutcome(t, x, outcome) ==
  IF ~attributed[x].isExec THEN outcome
  ELSE IF attributed[x].session = NoSession THEN "failed"
  ELSE IF CompletedRow(t, x, outcome).exec.outcome = "succeeded" THEN "succeeded" ELSE "failed"

OthersInFlight(t, x) ==
  \E y \in Activity \ {x} : attributed[y].phase = "started" /\ attributed[y].task = t

(* The controller's handler of a completed event.  An inferred Task takes  *)
(* the outcome of the last activity in flight for it; a formal Task keeps  *)
(* its status.                                                             *)
CompleteActivity(x, outcome) ==
  LET t == attributed[x].task
      s == attributed[x].session
      recorded == Recorded(s, attributed[x].isExec)
  IN  /\ attributed[x].phase = "started"
      /\ attributed' = [attributed EXCEPT ![x] = Ended(@)]
      /\ lease' = SessionRenewed(principal[t], s)
      /\ evidence' = IF recorded THEN [evidence EXCEPT ![t] = CompletedRow(t, x, outcome)]
                     ELSE evidence
      /\ lastExec' = IF recorded /\ lastExec[t].activity = x
                     THEN [lastExec EXCEPT ![t].outcome = outcome] ELSE lastExec
      /\ status' = IF ~formal[t] /\ ~OthersInFlight(t, x)
                   THEN [status EXCEPT ![t] = VerifiedOutcome(t, x, outcome)] ELSE status
      /\ UNCHANGED <<hostVars, ownership, heartbeatAt>>

-----------------------------------------------------------------------------
(* seedLegacyLeases: an owned Task that has a heartbeat and no lease row.  *)
NeedsSeed(t) ==
  /\ Owned(t) /\ heartbeatAt[t] # Never
  /\ \A k \in Key : ~Bound(lease[t], k)

Seeded(t) ==
  [lease[t] EXCEPT ![[agent |-> owner[t], principal |-> principal[t], gen |-> 0]] =
     FreshLease(owner[t], principal[t], heartbeatAt[t])]

(* The Runtime Host stops: close() ends the database handle, the activities *)
(* it was running die and the controller's memory of them is gone.         *)
StopHost ==
  /\ hostUp' = FALSE
  /\ attributed' = [x \in Activity |-> IF attributed[x].phase = "started"
                                      THEN Ended(attributed[x]) ELSE attributed[x]]
  /\ UNCHANGED <<now, setBacks, status, ownership, heartbeatAt, lease, evidence, lastExec>>

(* The next host opens the same database, which seeds missing leases.      *)
StartHost ==
  /\ ~hostUp
  /\ hostUp' = TRUE
  /\ lease' = [t \in Task |-> IF NeedsSeed(t) THEN Seeded(t) ELSE lease[t]]
  /\ UNCHANGED <<now, setBacks, status, ownership, heartbeatAt, execVars>>

(* The wall clock, which may also be set back.                             *)
Tick ==
  /\ now < MaxNow
  /\ now' = now + 1
  /\ UNCHANGED <<hostUp, setBacks, status, ownership, heartbeatAt, lease, execVars>>

SetBackClock ==
  /\ setBacks < MaxSetBacks
  /\ setBacks' = setBacks + 1
  /\ now' \in 0 .. (now - 1)
  /\ UNCHANGED <<hostUp, status, ownership, heartbeatAt, lease, execVars>>

-----------------------------------------------------------------------------
AnySession == Session \cup {NoSession}

Init ==
  /\ hostUp = TRUE /\ now = 0 /\ setBacks = 0
  /\ status = [t \in Task |-> "absent"]
  /\ formal = [t \in Task |-> FALSE]
  /\ principal \in [Task -> Principal]
  /\ owner = [t \in Task |-> NoAgent]
  /\ heartbeatAt = [t \in Task |-> Never]
  /\ lease = [t \in Task |-> EmptyTable]
  /\ evidence = [t \in Task |-> NoEvidence]
  /\ attributed = [x \in Activity |-> NewEvent]
  /\ lastExec = [t \in Task |-> NoExec]

TaskStep(t) ==
  \/ \E a \in Agent, s \in AnySession :
       \/ \E p \in Principal, st \in Status : CreateTask(t, a, p, s, st)
       \/ ReplayCreate(t, a, s)
       \/ \E st \in Status : UpdateTask(t, a, s, st) \/ Heartbeat(t, a, s, st)
       \/ \E renamed \in BOOLEAN : ClaimTask(t, a, s, renamed)
       \/ AddAgentMessage(t, a, s)
  \/ \E a \in Agent : UnassignTask(t, a)

SessionStep(p, s) == TouchSessionActivity(p, s) \/ CloseSession(p, s)

ActivityStep(x) ==
  \/ \E p \in Principal, s \in AnySession, isExec \in BOOLEAN : StartActivity(x, p, s, isExec)
  \/ \E outcome \in {"succeeded", "failed"} : CompleteActivity(x, outcome)

HostStep ==
  \/ \E t \in Task : TaskStep(t)
  \/ \E p \in Principal, s \in Session : SessionStep(p, s)
  \/ \E x \in Activity : ActivityStep(x)
  \/ StopHost

Next ==
  \/ hostUp /\ HostStep
  \/ StartHost
  \/ Tick
  \/ SetBackClock

Spec == Init /\ [][Next]_vars

-----------------------------------------------------------------------------
(* A lease that is open is the current owner's: claim and unassign close   *)
(* what the owner before held, and nothing binds a lease for anyone else.  *)
OpenLeaseIsOwners ==
  \A t \in Task, k \in Key : IsOpen(lease[t][k]) => HeldBy(lease[t][k], owner[t], principal[t])

(* No row ever violates the CHECK constraints of the lease table, under    *)
(* which an operation would fail; an open lease has its whole term.        *)
LeaseRowsValid ==
  \A t \in Task, k \in Key : Bound(lease[t], k) =>
    LET row == lease[t][k]
    IN  /\ row.lastSeen <= row.expires
        /\ IsOpen(row) => row.expires = Expiry(row.lastSeen)
        /\ IsClosed(row) => row.lastSeen <= row.closedAt /\ row.expires <= row.closedAt

(* The calls of an owner that carry no session share one open lease.       *)
OneOpenGeneration ==
  \A t \in Task : \A j, k \in LegacyKey :
    IsOpen(lease[t][j]) /\ IsOpen(lease[t][k]) => j = k

(* A lease row keeps its holder for good, neither an old observation nor a *)
(* clock set back moves its renewal backwards, and once closed it is final.*)
LeasesOnlyAdvance ==
  [][\A t \in Task : lease'[t] # lease[t] => \A k \in Key : Bound(lease[t], k) =>
       /\ HeldBy(lease'[t][k], lease[t][k].agent, lease[t][k].principal)
       /\ lease'[t][k].lastSeen >= lease[t][k].lastSeen
       /\ IsClosed(lease[t][k]) => lease'[t][k] = lease[t][k]]_vars

(* While any lease of the owner is live and was seen within OnlineAfter,   *)
(* no other Agent becomes the owner, whichever row presence is read from.  *)
SeenRecently(t) ==
  \E k \in Key : /\ HeldBy(lease[t][k], owner[t], principal[t])
                 /\ IsLive(lease[t][k], now)
                 /\ now - lease[t][k].lastSeen <= OnlineAfter

OnlineOwnerIsKept ==
  [][\A t \in Task :
       Owned(t) /\ owner'[t] \notin {owner[t], NoAgent} => ~SeenRecently(t)]_vars

(* Generic traffic of a session (its requests, its tool activity, its      *)
(* messages) and a restart never revive a lease that has expired: that     *)
(* takes an explicit operation of the owner.                               *)
TrafficStep ==
  \/ \E p \in Principal, s \in Session : TouchSessionActivity(p, s)
  \/ \E x \in Activity : ActivityStep(x)
  \/ \E t \in Task, a \in Agent, s \in Session : AddAgentMessage(t, a, s)
  \/ StartHost

TrafficNeverRevives ==
  [][(\E t \in Task : \E k \in Key :
         Bound(lease[t], k) /\ ~IsLive(lease[t][k], now) /\ lease'[t][k] # lease[t][k])
       => ~TrafficStep]_vars

(* What the refusal says: a Task is not marked succeeded unless the latest *)
(* terminal.exec of it produced a receipt.  Once the clock has been set    *)
(* back the start of an exec may be dropped, and with it the refusal.      *)
LatestExecSucceeded ==
  [][setBacks = 0 =>
       \A t \in Task : formal[t] /\ status[t] \in LiveStatus /\ status'[t] = "succeeded" =>
          lastExec[t].outcome \in {"none", "succeeded"}]_vars

(* A tool activity in flight for a formal Task came from a session that    *)
(* is bound to this Task, whatever happened to the ownership since.        *)
AttributionIsBound ==
  \A x \in Activity :
    LET e == attributed[x]
    IN  e.phase = "started" /\ formal[e.task] =>
          /\ e.session \in Session
          /\ Bound(lease[e.task], e.session)
          /\ lease[e.task][e.session].principal = principal[e.task]
=============================================================================
