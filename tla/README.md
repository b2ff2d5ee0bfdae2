# A verification project for the Sovereign Code Runtime

The Sovereign Code Runtime lets remote Agents work on a desktop machine. A Gateway serves tools to
them over a tunnel, a control plane keeps their Tasks and supervises the tunnel, and an update core
replaces the running program. This directory holds TLA+ models of parts of it, the TLC
configurations that check them on small instances, and theorems that the TLA+ proof system checks
for every instance. Paths such as `controller.ts` are below `packages/control-plane/src/` of the
repository unless they say otherwise.

Contents: 1 the system, 2 the modules and how they correspond to the code, 3 the runs, 4 the
proofs, 5 what the models show of the code, 6 what is left out, 7 the plan, 8 how to run it.

## 1. The system

### 1.1 Components modelled

**Task registry** (`task-registry.ts`, `task-registry-model.ts`, `task-session-leases.ts`,
`task-agent-ownership.ts`, `task-tool-execution-evidence.ts`).
*State:* one SQLite database with the Tasks (status, source, principal, owning Agent, heartbeat),
the session leases of each Task and the row that records its last `terminal.exec`; in memory, the
controller's map from running tool activities to Tasks.
*Operations:* create (or its replay), update, heartbeat, claim, unassign, Agent messages, and what
the Gateway reports: session activity, session closed, activity started and completed. Each is one
transaction; one that throws is rolled back as a whole.
*Interactions:* Agents call it through tools of the Gateway; the controller calls it from Gateway
callbacks; opening the database seeds leases for Tasks of older versions.
*Hard:* ownership is kept in one table and authority in another; presence is a projection of several
lease rows, by wall-clock times that may go backwards; activities outlive changes of the owner;
a restart loses the memory and keeps the database.
*Correct when:* open leases are the owner's and nobody else's; an owner seen just now is not
displaced; leases only advance; traffic does not revive what has expired; a Task is marked
succeeded only on the receipt of its latest execution; an activity is attributed to a Task its
session is bound to.

**Secure tunnel supervisor** (`secure-tunnel.ts` with `secure-tunnel-support.ts`,
`tunnel-failure-classifier.ts`, `tunnel-readiness-probe.ts`, `tunnel-control-plane-poll.ts`).
*State:* whether the tunnel is wanted, the child process, the attempt generation, the reconnect
timer, the failure diagnostic, the readiness counters, the connector being recycled.
*Operations:* start, stop, refresh (which may report a changed network), the automatic-reconnection
setting, configure, trust the executable. Besides: the timer, the probes, and the callbacks of the
processes.
*Hard:* four kinds of activity interleave at every `await`; callbacks of an old process arrive when
the next one runs; a decision taken before an `await` is carried out after it.
*Correct when:* no process is lost sight of, nothing comes up after a stop (the code keeps neither,
section 5), the timer is armed only when a reconnection is allowed, and a wanted tunnel is tried
again for ever.

**Failover policy** (`control-plane-failover.ts`). *State:* a pure record: lifecycle, active route,
per route its failures and cooldown, the history of switches. *Operations:* one reducer over six
events. *Hard:* counters, delays and budgets that interact. *Correct when:* a route is not taken
again before its cooldown, and the switches of any window stay within their budget.

**Route coordinator** (the part of `controller.ts` around `#routeState`). *State:* the policy's
record, whether a route is wanted, the launch timer, the queue of operations, the generation last
handled and last seen ready. *Operations:* start, stop, refresh, the automation settings, the
evaluation of an attempt, the launch that the timer queues. *Interactions:* it feeds the policy with
what the supervisor reports, and carries out the effects by starting and stopping the supervisor's
connector; with routes configured the supervisor's own reconnection is off. *Hard:* a caller of stop
or of the settings acts at once on the timer and the wish, and only later, through the queue, on the
connector. *Correct when:* a stop holds; a connector runs only under a running policy; a launch
finds no connector; a running policy is never left with nothing that could move it.

**Cutover of a Runtime Host** (`packages/update-core/src/`: `runtime-cutover.ts`,
`durable-runtime-cutover.ts`, `cutover-ledger.ts`, `runtime-route.ts`, `cutover-recovery*.ts`,
`runtime-traffic*.ts`).
*State:* on disk a ledger of phases and the route registry (the authoritative host, its predecessor,
a generation); in memory the coordinator's phase, the calls that are admitted, and the hosts that
are quiesced.
*Operations:* one cutover of eight phases, its cleanup, its receipt; the recovery of one that a crash
interrupted; admission and completion of calls; quiesce, drain, switch, resume.
*Interactions:* each phase awaits an operation of an adapter under a deadline; the durable adapter
writes the ledger and the route around those of a platform adapter, the traffic adapter those of the
traffic registry and of lifecycle callbacks.
*Hard:* the deadline ends the wait and not the operation; a crash falls between any two writes; a
write may fail after it was published; the cleanup undoes only what it knows to have succeeded.
*Correct when:* "committed" means that the candidate is authoritative and runs, "rolled-back" that
the previous host is and admits calls, before and after a recovery; no call is left at a host that is
no longer authoritative, and an outage ends or is reported.

**Runtime supervisor** (`packages/update-core/src/runtime-supervisor*.ts`,
`managed-session-registry.ts`).
*State:* a ledger of the states of a transition, appended to by compare-and-swap; the published
Runtime; the registry of managed sessions and the publication each is bound to.
*Operations:* a recovery: read the head, the inventory and the publication, plan, act through a port
whose actions are fenced, append; and the driver of a transition, which does the same on its own.
*Hard:* the plan is carried out after all it was made from may have changed; an action that fails
may have been done. *Correct when:* what is committed is what is published, with all sessions bound
to it; no recovery stops the published Runtime; recoveries that are repeated come to rest.

**Coordination mailbox** (`task-coordination-store.ts`, `task-coordination-store-core.ts`).
*State:* messages between Tasks, with the times of delivery, acknowledgement, reply and
cancellation, their place in inboxes, outboxes and threads; broadcasts with their keys.
*Operations:* send, broadcast, reply, read, acknowledge, acknowledge through, cancel; each one
transaction. *Hard:* a request repeated with its key long after; expiry at the very instant of an
operation; capacity checked before a batch is inserted; a reply that is a receipt for its parent.
*Correct when:* a repeated request is answered as the first was; readers accept every envelope; a
message has one reply; receipts never change.

**Managed runs** (`packages/windows-adapter/src/run-manager.ts`, `run-completion-notifier.ts`,
`packages/runtime-core/src/runs.ts`).
*State:* a ledger of background runs on disk; in memory the runs that are followed, their timers,
cancellations and completion handlers; the processes.
*Operations:* start, cancel, time out, the exit or error of a process, shutdown, and the restart,
which marks as interrupted what the ledger still has in progress.
*Hard:* exit, error, timer, cancellation and shutdown race for the outcome of a run; the Gateway may
stop between two writes; the ledger is pruned. *Correct when:* the ledger says of a process only
what is so, follows what is in progress, gives each run one outcome, and every run ends unless a
descendant of its process holds its output open.

**Approvals** (`approval-broker.ts`, `apps/runtime-host/src/main.ts`,
`apps/desktop-tauri/src-tauri/src/approval.rs`, `runtime_host.rs`).
*State:* the broker's queue and its active request; the pipe to the shell; the shell's threads, its
slot for the request that is presented, its one window and the page in it.
*Operations:* ask, present, answer, time out, cancel; open, load and close the window; decide.
*Hard:* the shell handles each call on a thread of its own, all of which open and destroy the same
window; a cancellation may overtake the presentation; a page may show what is no longer presented.
*Correct when:* a call is allowed only by the person who saw it and never after it was given up; each
request is answered.

### 1.2 Components not modelled, or not wholly

| Component | State | What is hard | What would make it correct |
|---|---|---|---|
| Message retention (`task-message-retention.ts`) | the conversation of a Task and its acknowledgement cursor | pruning after each append | a message of the user that is not acknowledged is never pruned |
| Update core, the rest | a restart journal, candidate slots, staged releases, the renderer's cutover | a crash between two writes | one release is active after each restart |
| Runtime Host protocol, the rest (`apps/runtime-host/`) | pending calls over a pipe, the gate of a cutover | the wired cutover of the shell, see section 5 | one host has authority at a time |
| Host Guardian and shell (`apps/desktop-tauri/`) | restart times, the shell's process, the Runtime Host's process | intended and unintended exits; a clock set back | five restarts in ten minutes at most; an intended stop is not undone |
| Gateway (`apps/gateway/`) | transport sessions with a capacity, tool packs | idle sessions are reclaimed one `await` at a time | the capacity is kept and a session in use is not reclaimed |
| Windows adapter, the rest | output buffers, terminals, browsers | a bounded buffer that drops its beginning | a cursor never skips output without saying so |
| Desktop controller and settings, the rest | workspaces, settings, snapshots | | settings are stored before they are used |
| Sandbox manager (`sandbox-manager.ts`) | sandbox directories and processes | create, execute, collect, remove | a sandbox is removed once, after its process |
| Credential references (`credential-references.ts`) | one file of encrypted secrets | | mostly a matter of the file system |
| Runtime core, the rest (`packages/runtime-core/`) | policy levels | | pure checks |
| Contracts, toolkit (`packages/toolkit/`, `packages/control-plane-contract/`) | none | | no behaviour to model |
| Android agent (`apps/android-agent/`) | a program of its own | | outside the core |

`PROJECT.json` lists the same components with their files, and the hazards of the code, each at its
line, with the properties that would catch it or the reason why none does yet.

## 2. The modules

```
TaskSessionLeases              the lease table of one Task: pure operators
  TaskRegistry                 the registry, its callers, the host and the clock
    MCTaskRegistry             instances for TLC
    TaskRegistryProofs         lemmas about the table, theorems about the registry

SecureTunnel                   the supervisor of one connector process
  SecureTunnelProofs

ControlPlaneFailover           the reducer: pure operators over a record
  ControlPlaneRouting          the coordinator, which calls it
    MCControlPlaneRouting      an instance for TLC
    ControlPlaneRoutingProofs
RouteSwitching                 what the failover promises about switches (abstract)

CutoverCoordinator             the phases of a cutover, each a wait for an operation
  DurableRuntimeCutover        the operations on disk, crashes and recovery
    MCDurableRuntimeCutover    an instance for TLC
    DurableRuntimeCutoverProofs
  RuntimeTraffic               the operations on calls and processes
    RuntimeTrafficProofs

RuntimeSupervisor              the ledger of Runtime slots and its recovery
  RuntimeSupervisorProofs

CoordinationMailbox            the messages between Tasks
  MCCoordinationMailbox        instances for TLC
  CoordinationMailboxProofs

ManagedRuns                    background runs and their ledger
Approvals                      the broker, the pipe, the shell and its window
  RuntimeHostProofs            theorems about these two
```

`DurableRuntimeCutover` and `RuntimeTraffic` extend the same coordinator and give its operations
their meaning; `ControlPlaneRouting` calls the policy and is shown to implement `RouteSwitching`.

### 2.1 TaskSessionLeases and TaskRegistry

A lease table is a function from session keys to rows. A method of `TaskSessionLeaseStore` that may
throw is a guard and a result: `CanTouch` and `Touched` are `touchTask`, `Renewed` is `renewTask`
and `touchSession`, `CanObserve` and `Observed` are `touchTaskWithoutReopen` behind its liveness
check, `SessionClosed` and `OwnerClosed` are the two closures. Calls without a transport session
share an internal key that the code derives from the owner and numbers by generation; the key is
the record `[agent, principal, gen]`.

`Presence` is `taskSessionPresence`: it takes the row that `taskSessionLeaseProjection` orders first
(open before closed, then the latest seen). `CHOOSE` stands for the code's further order of the rows
that tie. Rows that tie are open together or closed together and were seen at the same time, so
presence does not depend on which one is taken; this also makes the symmetry of the runs sound.

Each operation of the registry is one action named after it. An operation that throws is rolled
back, hence no step. `StartActivity` and `CompleteActivity` are the controller's handlers of the
Gateway's events with everything they call: renewal of the leases, attribution, evidence, the status
of an inferred Task. `StopHost` and `StartHost` are the end of the Runtime and the next opening of
the database (which runs `seedLegacyLeases`). `Tick` and `SetBackClock` move the wall clock.
`lastExec` is a history variable: the `terminal.exec` really started last, whatever the row says.

Statuses that the code treats alike are one value ("running" for queued, planning, running and
waiting-user; "failed" for failed and cancelled). Titles, progress, steps and messages are left out.

### 2.2 SecureTunnel

One action per piece of code between two awaits. `op` says what the operation at the head of the
controller's queue awaits, `prep` how far an attempt of the operation or of the timer is, `doomed`
which recycled connectors are still being terminated. The generation is replaced by flags (`fresh`,
`mine`, `own`): the code only compares a remembered generation with the current one, so raising it
clears the flags. `life` separates the exit of a process from the close event that reports it.

Kept: every operation, both callers of an attempt, recycling, the readiness probes by the effect of
their answers, the diagnostics that stop the supervisor. Abstracted: delays (an armed timer may fire
at any time, so neither the backoff ladder nor its stability timer is modelled); diagnostics that
rank below `local-mcp`, `auth` and `identity`, which change nothing here; an executable that is
missing, which is treated as one that is not trusted. `taskkill` and `mkdir` are taken to succeed.
An attempt awaits its files between its decision and its spawn (`prep` "files"), and anything else
runs meanwhile, also the timer again: `TimerAttempts` names the attempts of the timer that may be in
preparation at a time.

### 2.3 ControlPlaneFailover, ControlPlaneRouting, RouteSwitching

`ControlPlaneFailover` translates the reducer as operators over a record, one per event, composed of
the code's transitions (`Launched`, `Switched`, `Tripped`). Timestamps only meet the time of the
event being reduced, so each is an age that stops growing at the longest delay it is compared with.
`activeSince` and the dwell before a switch are left out: the only transport evidence the classifier
gives is eligible for a switch (`tunnel-failure-classifier.ts:64`, `:229`, `:307`), for which the
code does not ask the dwell. Classes auth and identity are one value, being treated alike.

`ControlPlaneRouting` is the coordinator. `queue` holds the operations that wait, `await` what the
running one waits for; it splits every operation at its two awaits (the retirement of a connector,
the start of the next). What the callers of stop and of the automation settings do at once is in
`RequestStop` and `DisableReconnect`; what they do in their turn is in `RunStop` and `RunDisable`.
A change of the automation settings ends with `#startConfiguredTunnel`, which starts the routes again
when the tunnel is to start with the application, also after a stop: the start that follows it in the
queue (`Remaining`), its flag set. `threw` is a history variable: the last launch failed before an
attempt began, as it does when the Gateway does not run or the executable cannot be used.
A generation is again a flag: of the timer and of a queued launch, cleared by every transition that
raises it. Evaluations are deduplicated as long as one is queued; the evaluation that ends a refresh
stays at the head of the queue, so it runs next. The tunnel is what the coordinator reads of it.

`RouteSwitching` is the abstract promise: the route changes by itself at most `MaxSwitches` times in
any `Window`, and only an order of the operator resets the count. `ControlPlaneRouting` implements
it under the mapping given in its instance `Switching`; the property `SwitchBudgetIsKept` is its
specification.

### 2.4 CutoverCoordinator, DurableRuntimeCutover, RuntimeTraffic

`CutoverCoordinator` is `RuntimeCutoverCoordinator`: `pc` is the phase that is awaited, `op` says of
every phase how far its operation is. A wait ends with its operation, or earlier at the deadline or
by the caller's abort; the operation given up is in `abandoned` and runs on. `Prompt` names the
phases whose operation awaits nothing and so cannot be given up. The cleanup undoes, in the code's
order, what is known to have succeeded.

`DurableRuntimeCutover` gives an operation the steps it has on disk: it is begun, verified against
the route, recorded in the ledger, carried out by the platform, and the route is checked, persisted,
applied or undone. Every write may fail before or after it took effect. `Crash` ends the driver and
all operations and keeps what is on disk and the processes; `Recover` starts the recovery executor,
whose plan is `Resolution` and `RecoveryAction`. Nothing waits for an operation that was given up:
the next cutover (`Start`) or recovery begins beside it. `left` holds such operations; each goes on
with the steps of its own cutover (`LateOperation`), and `cut.beside` remembers that there was one.
Those of the phases that only look are dropped, and two in the same state are one. The platform may
answer a start with the handle of the active host (`Reuse`): the coordinator turns that candidate
away, and stops the instance that its handle names (`runtime-cutover.ts:354`, `:501`). The platform
adapter is external: an operation of it that throws is taken to have done nothing. A cutover is
known by its candidate, as an instance is a candidate once; digests and identities of the entries
are left out.

`RuntimeTraffic` gives the same coordinator the adapter of the traffic registry. A call is free, in
flight at a host, or of unknown effect there (and then reconciled). A method of the registry runs
without an await, so generations and fencing tokens never differ within a cutover and are left out.
The lifecycle callbacks are external: `Ask` and `Answer` let one take any time, outlive its cutover,
or throw. A handle that names the active host is not in this model.

### 2.5 RuntimeSupervisor

The planner is translated as operators (`PlanRecovery` and one per phase of the ledger); the
coordinator is one action per await, from `LoadHead` to `CommitRecovery`. The expected revision and
digest of an append are the flag `headFresh`, the expected revision of a publication `pubFresh`; a
write of anyone else clears them. An action of the port is done, refused by its fence, or fails, and
one that fails may have been done. The driver of a transition, the processes and the publication are
not in the repository; they do what the state machine and the fences expect of them, and may end or
fail at any time. The rebinding of all sessions is one step. A stop or rebinding that was given up
takes no effect later: the adapters are asked to honour the abort
(`docs/runtime-slot-supervisor.md`).

### 2.6 CoordinationMailbox

Messages are one sequence, whose index is the row's ordinal; inbox, outbox and thread are positions
in it. `delivered_at` and `read_at` are set together, so one time stands for both. An operation is
one action, the transaction; `SendAnswer` and `BroadcastAnswer` are what a repeated request is given.
A body is whether it asks for an acknowledgement and when it expires. The binding of a session to its
Agent can only refuse a call and is left out.

### 2.7 ManagedRuns

`row` is the ledger on disk, `proc` the process, `kill` the progress of `terminateProcessTree`; `held`
says that a descendant still has the output of an exited process open, which withholds its "close";
`active`, `cancelled`, `timedOut` and `handling` are the manager's memory. Each event of a process,
the timer, a cancellation and the stages of the shutdown are one action each. A crash may fall
between the two writes of a start (`CrashInStart`). On Windows a process that is told to end does, or
the attempt is refused with an "error"; where `child.kill()` sends a signal instead, the process may
ignore it. The runs are created in the order of their
numbers, by which the retention prunes them.

### 2.8 Approvals

The broker's task and microtasks, the shell's reader and its threads are actions of their own, with
the pipe between them. `Take` is `finish_if_pending`, `CloseWindow` is `close_window`, whosever the
window is. `byHand` and `givenUp` are history variables: what the person allowed on a page that
showed it, and what was cancelled or timed out before an answer came. The answer "drop-to-l1" is a
denial, and the lowering of the profile it asks for is a `CancelAll`, which may come at any time.

## 3. The runs

Ten runs pass, two show a disagreement (section 5). Deadlock is checked in the runs of the
registry, the tunnel and the routing. In the others the bounds let the system stop: no message, run,
request, candidate or generation is left.

| Run | Instance | What it shows |
|---|---|---|
| `registry_leases` | 1 Task, 2 Agents (one is the principal), 2 sessions, 3 leases per Task, clock 0..2, set back once, term 2 | Leases and ownership never disagree; rows satisfy their CHECK constraints, also when the clock is set back; one open internal lease per owner; leases only advance; an online owner is not displaced; traffic does not revive |
| `registry_activity` | 2 Tasks, 1 Agent, 1 session, 2 overlapping activities, no clock | An activity is attributed by a lease; success needs the receipt of the execution started last |
| `tunnel` | 2 processes, 1 attempt of the timer, 2 missed checks | The timer is justified, and only a spawn loses sight of a process; a wanted tunnel is tried again for ever, and a start-up that never becomes ready is given up |
| `tunnel_stop` | the same | fails, see section 5 |
| `routing` | 2 routes, transport and auth failures, 1 switch in a window of 1, cooldown 3 | A stop holds until the operator or a change of the settings starts the routes; connectors belong to a running policy; launches find none; a running policy is stuck only when its launch threw; cooldown and switch budget are kept; a wanted route comes back unless its launch throws |
| `cutover` | 3 hosts, 2 releases, 1 operation of earlier drivers at a time | "committed" is true also beside what earlier cutovers left running; "rolled-back" is true of a cutover on its own, of the coordinator (unless it left a loose end) and of the recovery |
| `cutover_switch` | the same | fails, see section 5 |
| `traffic` | 3 hosts, 2 calls | No call is left at a host without authority; that host is not stopped; no quiescence is left behind; an outage ends or is reported |
| `mailbox` | 2 Tasks of which one may be away, 2 keys, 3 messages, inboxes for 2, 2 instants | Readers accept every envelope; one reply per message; receipts are final; a repeated request is answered as the first time |
| `approvals` | 3 requests, a queue of 2 | Allowed by hand only; everyone is answered |
| `runs` | 2 runs, 1 retained row, 2 restarts | The ledger is truthful and followed; outcomes are final; every run ends |
| `supervisor` | 2 instances, 1 session, 12 generations, 2 faults | What is committed is published; no recovery stops the published Runtime; recoveries converge |

### Why the bounds are enough

* *Registry.* A hazard of the leases needs an owner, a claimant, and a session apiece, or one session
  used by both; three leases let a Task be claimed, unassigned and claimed again, and reach its
  limit. Clock values 0..2 with a term of 2 and an online window of 0 tell online, stale and
  expired apart, and one set-back delivers an observation older than the last. The activities need
  two Tasks (a formal one and an inferred one, or two formal ones) and two activities that overlap.
* *Tunnel.* Two processes are one that runs or is being terminated by an operation and one that is
  being recycled. A limit of two missed checks tells the first from the last. One attempt of the
  timer is prepared beside one of the operation; the theorems hold for any number.
* *Routing.* Two routes are what the product configures apart from direct access. One operation may
  wait in the queue besides an evaluation and a launch (`MaxQueue` bounds only the requests), which
  interleaves every request with every step of every other operation. The cooldown is longer than
  the window, so that an exhausted budget and a cooling route meet. Failures whose class is unknown
  are not in the run; the theorems hold for them as well.
* *Cutovers.* A third host is the candidate of a second cutover, which meets what the first one has
  left running: one operation at a time (`MaxLeft`), which is enough for each kind to meet each step
  of the second cutover; the theorems hold for any number. Two calls are one before and one after
  the quiescence.
* *Mailbox.* Three messages are a request, its reply and one that competes for room; two keys are a
  repetition and a change of it; two instants are before and at an expiry. With two
  Tasks a broadcast has one target and a key is never used for another recipient; the theorems hold
  for every number of Tasks and targets.
* *Approvals.* Three requests are one presented, one waiting and one refused by a full queue.
* *Runs.* One retained row lets the second run prune the first; two restarts meet a ledger that a
  restart has already repaired.
* *Supervisor.* Two instances are one transition; two faults are one in it and one in its recovery.
  Generations grow by one per recovery: twelve leave recoveries room after the last fault.

What the small instances leave out the theorems cover: each invariant and each action property of a
passing run is proved for all instances, one of them under a condition (section 4). The bounds
matter for the liveness properties.

### Fairness

* `tunnel`, `routing`: awaits return, armed timers fire, the exit of a process is reported, and the
  queue is served (weak fairness). Strong fairness of a refresh: the shell requests one every
  thirty seconds (`docs/threat-model.md:193`) and the queue (`#enqueue`, `controller.ts:2350`) is
  first-in first-out, so a refresh is served again and again whatever else is asked for. Nothing is
  assumed of the operator, of the network or of the connectors: they may fail for ever.
  `StartupIsGivenUp` also assumes that a running connector is probed.
* `traffic`: the coordinator's deadlines, its operations that await nothing, and its report. A call
  or a callback of the lifecycle may never end.
* `runs`: an armed timer fires, a process that was told to end does or is reported as refusing, and
  its events are delivered. A process may run for ever until its timer.
* `approvals`: the broker's timeout and microtasks and the shell's threads, which wait for thirty
  seconds at most. Nothing is assumed of the reader, of the answers or of the person.
* `supervisor`: a recovery is asked for again and again and what it awaits returns. Nothing is
  assumed of the driver or of the processes; faults are finitely many (`MaxFaults`).

## 4. The proofs

Every theorem is checked by `tlapm` to the last leaf, for every value of the constants. Proved are
the type invariant of each component (the runs do not check them again), every state invariant and
every action property of a passing run, and the refinement of `RouteSwitching`. The constants have
the assumptions stated with them: limits are positive, the sentinels are no members of the sets,
a principal is an Agent, the Tasks of the mailbox are finitely many, starting a candidate is not
prompt. One theorem has a condition of its own, without which it is false (section 5): a clock of
the mailbox that is not set back. Three properties say themselves where the code does less than one
would expect: `RunningHasWork` (a launch that threw) and the two about "rolled-back" (loose ends; a
cutover begun beside an earlier one; a candidate that is the active host).

**TaskRegistryProofs.** `TypeCorrect`, `OpenLeasesAreOwners`, `LeaseRowsAreValid`, `LeasesAdvance`,
`OnlineOwnersAreKept`, `OnlineWhenSeen`, `TrafficRevivesNothing`, `AttributionsAreBound`,
`OneGenerationIsOpen`, `SuccessHasAReceipt`. That an open lease is the owner's survives a renewal
only if the row is valid; it survives the creation of a Task only if a Task that does not exist has
no lease (`AbsentUnleased`), and the reopening of an inferred Task only if that Task never left its
principal (`InferredStaysOwned`). `IInv` is their conjunction with the types and the bounds on times.
The lemmas about the table say of each operator that it keeps a table `Sound` and that it `Evolves`
it (no row disappears or changes hands, nothing closed changes, nothing is seen earlier); an action
then needs only to say which operator it applies for which owner. `OnlineOwnersAreKept` rests on
`OnlineWhenSeen`: if any live lease of the owner was seen recently, the projected row says "online".
One open generation needs that a row under an internal key is held by the owner the key is derived
from (`Single`). `SuccessHasAReceipt` needs `EvidenceInv`: until a set-back the row of a Task is
about the exec last started, was written no later than now, and a recorded start that is under way
has left it. Afterwards that is false, hence the condition in `LatestExecSucceeded`.

**SecureTunnelProofs.** `TypeCorrect`, `TimersAreJustified`, and `OnlyASpawnLoses`, for any number of
attempts that await their files. `Bookkeeping` adds that a termination is awaited by the operation
that stops, and that an operation attempts a start exactly when its slot is in preparation; each step
then keeps in sight the processes that run, but for a spawn.

**ControlPlaneRoutingProofs.** `TypeCorrect`, `StoppedHolds`, `ConnectorIsManaged`, `LaunchIsSafe`,
`CooldownsAreKept`, `SwitchBudgetKept`, `PolicyIsNeverStuck`. That a launch finds no connector needs that at most one launch is due and none
while an operation awaits the tunnel (`LaunchIsAlone`); that a stop holds needs that no start follows
the last stop in the queue (`StopIsHeeded`), be it one of the operator or of the settings. The cooldowns and the budget concern the policy alone.
`PolicyInv` says that its record is `Sound`: the history of switches falls, a policy that was started
has an active route, that of a running policy may be retried, and what was left is as old as the
failure. The lemmas about histories say that a falling sequence has one cut and that pruning returns
its end. Every step of the coordinator is then a `PolicyStep` (it leaves the policy, orders it
afresh, ages it, or moves it soundly), and each of these is a step of `RouteSwitching` (`Stay`,
`Obey`, `Pass`, `Switch`).

**DurableRuntimeCutoverProofs.** `TypeCorrect`, `CommitIsFinal`, `RecoveryRestores`,
`RolledBackIsRestored`. `Inv` says that the two hosts of a cutover differ (`Distinct`), that the route
is between them (`Between`), that a mutation of the route whose comparison will succeed starts from
the route that it expects (`Compared`), that no other operation of the driver is about to change it
while one does (`Alone`), that a candidate turned away gets no further (`Unentered`), and, phase by
phase, what of the cutover has not been settled, disturbed or restored. Of the operations that
earlier drivers left running two things are needed: the hosts they name were made before the
candidate (`Made`), so none of them stops it, and one that may still write the route compares it
with a generation at which the candidate was not authoritative (`Behind`), so that a committed
candidate stays so. What else they do is why the parts about "rolled-back" speak of a cutover on its
own (`OnItsOwn`) only. `LateMoves` gives what all their steps have in common, and `LateKeeps` draws
the invariant from that. For the coordinator's own "rolled-back" it is extended by `Tidy`: the
effects of each operation that ended, the order in which they are undone, and that nothing
disturbing runs on once all are undone, unless a loose end was left.

**RuntimeTrafficProofs.** `TypeCorrect`, `AuthorityRuns`, `NoWorkIsLeft`, `CallsAreAdmitted`. The
phases come in their order (`PhasesInOrder`), a candidate that was started runs until its stop is
begun, the previous host until it has lost its authority, and an absent host is not asked to stop.
That calls are admitted between cutovers adds that the undoing comes in its order (`UndoInOrder`),
where the authority is meanwhile (`Located`), and that a quiescence is lifted by the phase that is
due (`Lifted`).

**RuntimeSupervisorProofs.** `TypeCorrect`, `CommitsArePublished`, `PublishedAreNotStopped`. `IInv`
relates the states of the ledger, of the driver and of the recovery: each names different Runtimes, a
Runtime not born yet is unknown to all, what is published and what the head names are known, a
candidate is new, and a driver that may still publish has the head or meets a need for attention.
`PlanIsSound` says of the plan held by a recovery what the lemma `PlansFit` says of every plan, and
`PlanIsFollowed` how far it was carried out.

**CoordinationMailboxProofs.** `TypeCorrect`, `Unchanging`, `RepliesAreUnique`, `RetriesAreAnswered`,
and, for a clock that is not set back, `Consistent`. All rest on the lemma `Step`: each message stays
or is read, acknowledged, cancelled or replied to under the guard of that operation, and what is
added is new. That a retry is answered needs that a thread is no later than its messages, that a
broadcast's thread is one message to each of its targets, and that a key belongs to its message
alone; the second uses that an injective order of a finite set reaches all of it.

**RuntimeHostProofs.** Of the runs: `TypeCorrect`, `Truthful`, `Followed`, `Final`; besides what they
state the invariant needs that a Gateway that is down follows nothing, and that a run never created
has no process. Of the approvals: `ApprovalsTypeCorrect`, `AllowancesAreByHand`; the queue is those
that wait, each once; one request is active, and the answer and the cancellation that are kept are
its own; what is given up was active or waiting; and an allowance under way is of a request whose
page was answered.

The inductive invariants were checked by TLC on small instances before they were proved (the
supervisor's also on three instances; the policy's with a window of 2 and two switches).

**Only model-checked.** The liveness properties `KeepsTrying`, `StartupIsGivenUp`, `ComesBack`,
`OutageEnds`, `EveryoneIsAnswered`, `EveryRunEnds` and `Converges`: the prover handles neither
liveness under fairness nor ENABLED.

## 5. What the models show of the code

Two runs must find their property violated.

* `tunnel_stop` (`StopSticks`): `#startAttempt` awaits `mkdir` and `rm` and then spawns without looking
  again at whether the tunnel is wanted (`secure-tunnel.ts:665`). An attempt of the timer that is
  under way when the tunnel is stopped, configured anew or no longer to reconnect brings it up
  afterwards; `docs/control-plane-failover.md:57` says these cancel pending launches. Where the
  operation is followed by a start there are two spawns, of which the second overwrites `#child`:
  `OnlySpawnsLose` therefore excepts the spawn.
* `cutover_switch` (`RolledBackKeepsAuthority`): `trafficSwitched` is set only when the awaited switch
  returns in time (`packages/update-core/src/runtime-cutover.ts:409`). A switch given up at its
  deadline is not rolled back and runs on: the counterexample ends with the receipt "rolled-back"
  and the route at the stopped candidate. `docs/durable-cutover-recovery.md:98` and
  `runtime-cutover.test.ts:274` say that the previous release is restored.

The rest are observations made while modelling. Some have a constant that shows them; the others
say why a property speaks of less than one would expect, or what was left out.

*Registry.*
* With a clock that is set back the start of a `terminal.exec` is dropped
  (`task-tool-execution-evidence.ts:105`) and the receipt of an earlier one still stands.
* A finished Task skips the lease check (`task-registry.ts:184`), so a session whose lease was closed
  may move it back to a live status; `docs/continuity-demo.md:5` says a closed session does not
  regain authority.
* Nothing changes the status of active Tasks when the Runtime Host stops (`task-registry.ts:243`);
  `docs/task-agent-hub.md:70` says they become blocked.

*Tunnel and routing.*
* A connector that is being recycled is no longer `#child` while its process still runs
  (`secure-tunnel.ts:913`): a start, or a refresh whose timer fires, launches the next;
  `docs/control-plane-failover.md:56` says the old process has exited first.
* A `local-mcp` diagnostic kept from an earlier attempt keeps a later one from being recycled
  (`secure-tunnel.ts:849`); `StartupIsGivenUp` therefore speaks only of attempts against which
  nothing is recorded. A restart for a changed network looks at the need for a local action before
  its await and not after it (`secure-tunnel.ts:955`, against `docs/control-plane-failover.md:61`).
* When starting the tunnel throws before the attempt begins, the route stays "probing" with nothing
  left that would move it but an operation (`controller.ts:936`); `docs/control-plane-failover.md:90`
  says a connector failure is retried once and then needs attention. `RunningHasWork` and `ComesBack`
  except such a launch (`threw`).
* With the tunnel set to start with the application, a change of the automation settings alone
  starts the routes again after a stop (`controller.ts:1830`); `StopHolds` counts it as a start.
* When automatic reconnection is disabled while a failed connector is being retired, the timer is
  armed afterwards, and its launch does not look at the setting (`controller.ts:1801`, against
  `docs/control-plane-failover.md:120`).

*Cutovers.*
* A start of the candidate that is given up leaves it running, a quiescence given up leaves the
  active host quiesced, under the receipt "rolled-back": these are the `LooseEnds`.
* Nothing waits for them: the next cutover or the recovery may begin while such an operation still
  runs (`durable-runtime-cutover.ts:316`), and have its active host quiesced, stopped or replaced by
  it under a receipt "rolled-back" of its own, without a loose end of its own. Its "committed" stays
  true. A recovery begun beside one may even have its candidate stopped after the commit.
* A platform that answers the start with the handle of the active host is refused, and then asked
  to stop the instance of that handle (`runtime-cutover.ts:354`, `:501`): the active host is stopped
  under the receipt "rolled-back". The traffic adapter refuses that stop only when the handle
  also states the release of the active host.
* A commit given up after the route registry has committed cannot be rolled back: the receipt is
  "failed" and the authoritative candidate is stopped. A crash between the record of the switch and
  the change of the route asks for a manual intervention. A rollback whose candidate does not drain
  leaves it authoritative and quiesced ("failed").
* The cutover that the shell performs itself (`runtime_host_supervisor.rs` of
  `apps/desktop-tauri/src-tauri/src/`) is not modelled. A passive candidate opens the same
  `runs.sqlite`, and its run manager marks the live runs of the active host as interrupted
  (`run-manager.ts:178`); background runs are not counted in the drain.

*Supervisor.*
* A rebinding of the sessions that failed is not repeated when the next recovery finds a stable
  ledger whose Runtime is published (`runtime-supervisor-state.ts:966-979`;
  `docs/runtime-slot-supervisor.md:210`): the sessions stay with the old publication.
  `CommitIsPublished` asks for the sessions only after an interrupted transition.
* A recovery in needs-attention always ends in a conflict, as the store refuses an unchanged state;
  the "hold" branch of rolling-back is never taken. A registry of sessions not started at the
  persisted revision makes every recovery fail; starting it is left to its owner.

*Mailbox.*
* `ClockGoesBack = TRUE`: an envelope may be read before it was sent, and its readers refuse the
  whole snapshot (`docs/task-coordination.md:124`).
* A repeated reply is refused after its own expiry, as the expiry is checked before the key is
  looked up (`task-coordination-store-core.ts:1039`), while a repeated send is answered.

*Runs.*
* A run ends with the "close" of its process (`run-manager.ts:274`), which Node emits once the output
  is closed too. A descendant that inherited the output and outlives the process keeps the run in
  progress, past its timeout and every cancellation: `taskkill` and `child.kill()` find no process
  (`run-manager.ts:65`) and report nothing. Only the shutdown gives it up. `EveryRunEnds`
  says so.
* The retention orders by creation, so a run that ends after `Retention` newer ones have finished is
  pruned by its own last update (`runs.ts:387`).
* The second refused kill of a process emits an error nobody listens to. A delayed `taskkill` may
  meet a reused process number (`run-manager.ts:30`). Runs interrupted by a restart get no receipt.
  A store that fails while a run is settled leaves it active; a failing store is not modelled.

*Approvals.*
* A cancellation may overtake the thread of its presentation (`runtime_host.rs:747`): a window nobody
  waits for stays up to thirty seconds, and requests made meanwhile are denied unseen
  (`approval.rs:50`). A late close may destroy the window of the next request, with the same end.
* `expiresAt` counts from the request (`approval-broker.ts:131`), the timeout from the presentation
  (`:195`): a request that has waited is presented with its buttons disabled.
* An answer and a cancellation in the same task are recorded as cancelled although the answer allows
  (`approval-broker.ts:204`). A request made between `cancelAll` and the end of
  `setPermissionProfile` survives the lowering of the profile.

*Gateway (not modelled).* A request gives back its count when its response closes (`app.ts:582`), so
a drain may be reported while its call still runs (`docs/layered-live-update.md:202`).

## 6. What is left out of the modelled components

* Registry: the operator's side (desktop messages, dismissal, deletion), the conversation, discovery
  and listing, the limit of 100 candidates when an activity is attributed.
* Tunnel: the backoff delays, a termination that is never confirmed, how output is classified.
* Routing: storing new tunnel settings (`controller.ts:1760`), detaching the tunnel for a cutover of
  the Runtime (`controller.ts:2430`) and restarts of the Gateway, which run outside the queue;
  starting the tunnel with the application.
* Cutovers: digests, file formats and permissions; a platform operation that throws after it acted.
* Supervisor: the reports, timestamps, a clock that is set back, effects of an action after it was
  given up, other outcomes of the single steps of a rebinding.
* Mailbox: session bindings, the retirement of a deleted Task's messages, the directory, migration.
* Runs: output, waiting callers, a store that fails, equal creation times.
* Approvals: the controller's second look at the profile, the denial of what is presented when the
  Runtime Host ends, the journal and the detection of a burst; a press of a button and its handling
  are one step.

## 7. The plan

The order follows what a mistake would cost: ownership of Tasks and the tunnel are what every Agent
depends on, then come the components that replace the running program, then those that let Agents
act.

| Stage | Modules | Abstract specification or theorems |
|---|---|---|
| done | those of section 2 | section 4 |
| next | `ControlPlaneRouting` on `SecureTunnel`: the supervisor, with its reconnection off, implements the coordinator's view of the tunnel | the refinement, step by step |
| | `RuntimeHostCutover`: the shell's own cutover, with the gate of the Runtime Host | one host has authority; a host that lost it runs no connector |
| | `GatewaySessions` | a bounded set of sessions; none in use is reclaimed |
| | the renderer's cutover, the restart journal, candidate slots and releases | one active release after each restart |
| | `HostGuardian` | five restarts in a window, for a clock that only advances |
| | message retention | no unacknowledged message of the user is pruned |

## 8. Running it

`tlc -workers 2 -config TaskRegistryLeases.cfg MCTaskRegistry` checks one run (the table in
`PROJECT.json` gives the module and the configuration of each); `tlapm TaskRegistryProofs.tla`
checks the proofs of a module. A comment "Mutant" marks an operator that is in no specification: it
is a plausible mistake in the operator after it, and every property of a passing run is violated
when one of them takes that operator's place.
