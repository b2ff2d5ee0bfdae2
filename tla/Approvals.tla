------------------------------- MODULE Approvals -------------------------------
(***************************************************************************)
(* The approval of a consequential tool call by the person at the desktop, *)
(* from the call to the window and back:                                   *)
(*                                                                         *)
(*   - ApprovalBroker of packages/control-plane/src/approval-broker.ts, in *)
(*     the Runtime Host: one thread, whose actions are tasks and microtasks*)
(*   - the calls to the shell of apps/runtime-host/src/main.ts, and their  *)
(*     handling in apps/desktop-tauri/src-tauri/src/runtime_host.rs: a     *)
(*     pipe each way, a reader in the shell, and a thread for every call;  *)
(*   - ApprovalSurface of approval.rs, in the shell: one slot for what is  *)
(*     presented, and one window, which all those threads open and destroy.*)
(*                                                                         *)
(* The answer "drop-to-l1" is a denial here, and the lowering of the       *)
(* profile that it asks for is an interruption, which may come at any time.*)
(***************************************************************************)
EXTENDS Naturals, Sequences, FiniteSets

CONSTANTS
    MaxRequests,    \* how many calls ask for an approval (a bound)
    MaxQueue        \* maxQueue

ASSUME ApprovalsAssumption == MaxRequests \in Nat /\ MaxQueue \in Nat \ {0}

Requests == 1 .. MaxRequests        \* in the order in which they are made
None == 0

VARIABLES
    life,       \* of a request: "new", "queued", "active" or, once its promise is
                \* resolved, "allow" or "deny"
    queue,      \* those that wait their turn
    came,       \* the surface's answer for the active one, not yet handled
    withdrawn,  \* whether the active one has been cancelled
    pipe,       \* what the broker has written to the shell
    thread,     \* the shell's thread of a request
    sent,       \* the decision in its channel, then its answer
    slot,       \* the request that is presented
    window,     \* the request for which the approval window was built
    shown,      \* the request that its page has loaded
    closers,    \* the calls of approval_resolve that are about to close the window
    byHand,     \* (history) the requests for which Allow was pressed
    givenUp     \* (history) those cancelled or timed out before an answer came

brokerVars == <<life, queue, came, withdrawn>>
windowVars == <<window, shown>>
shellVars == <<thread, sent, slot, windowVars, closers>>
history == <<byHand, givenUp>>
approvalVars == <<brokerVars, pipe, shellVars, history>>

ApprovalsTypeOK ==
    /\ life \in [Requests -> {"new", "queued", "active", "allow", "deny"}]
    /\ queue \in Seq(Requests)
    /\ came \in {"none", "allow", "deny"} /\ withdrawn \in BOOLEAN
    /\ pipe \in Seq([kind : {"present", "cancel"}, of : Requests])
    /\ thread \in [Requests -> {"none", "spawned", "claimed", "waiting", "closing", "replied",
                                "done"}]
    /\ sent \in [Requests -> {"none", "allow", "deny"}]
    /\ slot \in Requests \cup {None}
    /\ window \in Requests \cup {None} /\ shown \in Requests \cup {None}
    /\ closers \subseteq Requests
    /\ byHand \subseteq Requests /\ givenUp \subseteq Requests

ApprovalsInit ==
    /\ life = [r \in Requests |-> "new"]
    /\ queue = <<>> /\ came = "none" /\ withdrawn = FALSE
    /\ pipe = <<>>
    /\ thread = [r \in Requests |-> "none"] /\ sent = [r \in Requests |-> "none"]
    /\ slot = None /\ window = None /\ shown = None /\ closers = {}
    /\ byHand = {} /\ givenUp = {}

-----------------------------------------------------------------------------
(* The broker.                                                             *)
Waiting == {r \in Requests : life[r] = "queued"}
Active == {r \in Requests : life[r] = "active"}         \* one at most
IsPending == Active # {} /\ came = "none" /\ ~withdrawn     \* its call to the shell is pending

Message(kind, r) == [kind |-> kind, of |-> r]

(* request, and the #drain that follows: presented at once if none is.     *)
Ask(r) ==
    /\ life[r] = "new" /\ \A q \in 1 .. r - 1 : life[q] # "new"
    /\ \/ /\ Len(queue) + Cardinality(Active) >= MaxQueue
          /\ life' = [life EXCEPT ![r] = "deny"]
          /\ UNCHANGED <<queue, pipe>>
       \/ /\ Len(queue) + Cardinality(Active) < MaxQueue /\ Active # {}
          /\ life' = [life EXCEPT ![r] = "queued"] /\ queue' = Append(queue, r)
          /\ UNCHANGED pipe
       \/ /\ Active = {}
          /\ life' = [life EXCEPT ![r] = "active"]
          /\ pipe' = Append(pipe, Message("present", r))
          /\ UNCHANGED queue
    /\ UNCHANGED <<came, withdrawn, shellVars, history>>

Timeout ==
    /\ IsPending
    /\ withdrawn' = TRUE
    /\ \E r \in Active : pipe' = Append(pipe, Message("cancel", r))
    /\ givenUp' = givenUp \cup Active
    /\ UNCHANGED <<life, queue, came, shellVars, byHand>>

(* cancelAll: the tunnel or the Runtime is stopped, the workspace changed, *)
(* the permission profile lowered.                                         *)
CancelAll ==
    /\ Active # {}
    /\ withdrawn' = TRUE
    /\ \E r \in Active : pipe' = IF IsPending THEN Append(pipe, Message("cancel", r)) ELSE pipe
    /\ queue' = <<>>
    /\ life' = [r \in Requests |-> IF r \in Waiting THEN "deny" ELSE life[r]]
    /\ givenUp' = givenUp \cup Waiting \cup (IF came = "none" THEN Active ELSE {})
    /\ UNCHANGED <<came, shellVars, byHand>>

\* Mutant: the next one in the queue is not presented when this one is settled.
SettleWithoutDrain(r) ==
    /\ life[r] = "active"
    /\ \E decision \in {came} \cup (IF withdrawn THEN {"deny"} ELSE {}) :
         decision # "none" /\ life' = [life EXCEPT ![r] = decision]
    /\ came' = "none" /\ withdrawn' = FALSE
    /\ UNCHANGED <<queue, pipe, shellVars, history>>

\* The race of the surface and the cancellation is over; then #drain.
Settle(r) ==
    /\ life[r] = "active"
    /\ \E decision \in {came} \cup (IF withdrawn THEN {"deny"} ELSE {}) :
         /\ decision # "none"
         /\ IF queue = <<>>
            THEN life' = [life EXCEPT ![r] = decision] /\ UNCHANGED <<queue, pipe>>
            ELSE /\ life' = [life EXCEPT ![r] = decision, ![Head(queue)] = "active"]
                 /\ queue' = Tail(queue)
                 /\ pipe' = Append(pipe, Message("present", Head(queue)))
    /\ came' = "none" /\ withdrawn' = FALSE
    /\ UNCHANGED <<shellVars, history>>

\* The answer to a call; one that was given up is not waited for any more.
Answer(r) ==
    /\ thread[r] = "replied"
    /\ thread' = [thread EXCEPT ![r] = "done"]
    /\ came' = IF life[r] = "active" /\ IsPending THEN sent[r] ELSE came
    /\ UNCHANGED <<life, queue, withdrawn, pipe, sent, slot, windowVars, closers, history>>

-----------------------------------------------------------------------------
(* The shell: its reader, which starts a thread for every call, and those  *)
(* threads.  A window that is destroyed denies its request: the event is   *)
(* handled before another window can be built.                             *)
Take(r, decision) ==
    /\ slot' = IF slot = r THEN None ELSE slot
    /\ sent' = [q \in Requests |-> IF q = r /\ q = slot THEN decision ELSE sent[q]]

\* close_window, whosever window it is
CloseWindow ==
    /\ window' = None /\ shown' = None
    /\ Take(window, "deny")

ReadPresent(r) ==
    /\ pipe # <<>> /\ Head(pipe) = Message("present", r)
    /\ pipe' = Tail(pipe)
    /\ thread' = [thread EXCEPT ![r] = "spawned"]
    /\ UNCHANGED <<brokerVars, sent, slot, windowVars, closers, history>>

(* cancel_shell_request: nothing, if the call is not the one presented.    *)
ReadCancel(r) ==
    /\ pipe # <<>> /\ Head(pipe) = Message("cancel", r)
    /\ pipe' = Tail(pipe)
    /\ IF slot = r
       THEN /\ slot' = None /\ window' = None /\ shown' = None
            /\ sent' = [sent EXCEPT ![r] = "deny"]
       ELSE UNCHANGED <<slot, sent, windowVars>>
    /\ UNCHANGED <<brokerVars, thread, closers, history>>

\* present, up to the claim of the slot
Claim(r) ==
    /\ thread[r] = "spawned"
    /\ IF slot = None
       THEN slot' = r /\ thread' = [thread EXCEPT ![r] = "claimed"] /\ UNCHANGED sent
       ELSE /\ thread' = [thread EXCEPT ![r] = "replied"]
            /\ sent' = [sent EXCEPT ![r] = "deny"]
            /\ UNCHANGED slot
    /\ UNCHANGED <<brokerVars, pipe, windowVars, closers, history>>

(* open_window: a window that is still there is destroyed, whosever it is. *)
Open(r) ==
    /\ thread[r] = "claimed"
    /\ window' = r /\ shown' = None
    /\ Take(window, "deny")
    /\ thread' = [thread EXCEPT ![r] = "waiting"]
    /\ UNCHANGED <<brokerVars, pipe, closers, history>>

\* It could not be opened: what was built of it is destroyed as well.
OpenFails(r) ==
    /\ thread[r] = "claimed"
    /\ window' = None /\ shown' = None
    /\ slot' = IF slot \in {window, r} THEN None ELSE slot
    /\ sent' = [q \in Requests |-> IF q = r \/ (q = slot /\ q = window) THEN "deny" ELSE sent[q]]
    /\ thread' = [thread EXCEPT ![r] = "replied"]
    /\ UNCHANGED <<brokerVars, pipe, closers, history>>

\* The decision is there, or thirty seconds have passed.
Finish(r) ==
    /\ thread[r] = "waiting"
    /\ sent' = [sent EXCEPT ![r] = IF @ = "none" THEN "deny" ELSE @]
    /\ slot' = IF slot = r THEN None ELSE slot
    /\ thread' = [thread EXCEPT ![r] = "closing"]
    /\ UNCHANGED <<brokerVars, pipe, windowVars, closers, history>>

CloseFinished(r) ==
    /\ thread[r] = "closing"
    /\ CloseWindow
    /\ thread' = [thread EXCEPT ![r] = "replied"]
    /\ UNCHANGED <<brokerVars, pipe, closers, history>>

-----------------------------------------------------------------------------
(* The person, and the page in the window.                                 *)
PageLoads ==
    /\ window # None /\ shown = None /\ slot # None
    /\ shown' = slot
    /\ UNCHANGED <<brokerVars, pipe, thread, sent, slot, window, closers, history>>

\* Mutant: the decision of a page goes to whatever is presented by then.
DecideForCurrent(decision) ==
    /\ shown # None
    /\ byHand' = IF decision = "allow" THEN byHand \cup {shown} ELSE byHand
    /\ Take(slot, decision)
    /\ closers' = IF slot # None THEN closers \cup {slot} ELSE closers
    /\ UNCHANGED <<brokerVars, pipe, thread, windowVars, givenUp>>

(* resolve: the page names the request that it shows, which may no longer  *)
(* be the one presented.                                                   *)
Decide(decision) ==
    /\ shown # None
    /\ byHand' = IF decision = "allow" THEN byHand \cup {shown} ELSE byHand
    /\ Take(shown, decision)
    /\ closers' = IF slot = shown THEN closers \cup {shown} ELSE closers
    /\ UNCHANGED <<brokerVars, pipe, thread, windowVars, givenUp>>

ResolveCloses(r) ==
    /\ r \in closers
    /\ CloseWindow
    /\ closers' = closers \ {r}
    /\ UNCHANGED <<brokerVars, pipe, thread, history>>

CloseByHand ==
    /\ window # None
    /\ CloseWindow
    /\ UNCHANGED <<brokerVars, pipe, thread, closers, history>>

-----------------------------------------------------------------------------
(* Weakly fair: the broker's timeout of thirty seconds and its microtasks,  *)
(* and the shell's threads, which wait for thirty seconds at most.  Nothing*)
(* is assumed of the reader, of the answers or of the person.              *)
Thread(r) == Claim(r) \/ Open(r) \/ OpenFails(r) \/ Finish(r) \/ CloseFinished(r)
Reader(r) == ReadPresent(r) \/ ReadCancel(r)

ApprovalsNext ==
    \/ \E r \in Requests :
         Ask(r) \/ Settle(r) \/ Answer(r) \/ Reader(r) \/ Thread(r) \/ ResolveCloses(r)
    \/ Timeout \/ CancelAll
    \/ PageLoads \/ CloseByHand
    \/ \E decision \in {"allow", "deny"} : Decide(decision)

ApprovalsSpec == ApprovalsInit /\ [][ApprovalsNext]_approvalVars

ApprovalsFairness ==
    /\ WF_approvalVars(Timeout) /\ WF_approvalVars(\E r \in Requests : Settle(r))
    /\ \A r \in Requests : WF_approvalVars(Thread(r))

ApprovalsFairSpec == ApprovalsSpec /\ ApprovalsFairness
-----------------------------------------------------------------------------
(* A call is allowed only if the person pressed Allow on a page that showed*)
(* this very call, whatever the windows, pages and decisions of earlier    *)
(* ones still do, and never after it was cancelled or had timed out, not   *)
(* even by a decision that was on its way or by an orphaned window that the*)
(* cancellation did not find.                                              *)
AllowedByHand == \A r \in Requests : life[r] = "allow" => r \in byHand \ givenUp

(* Whatever the person does or does not do, time and again nothing waits   *)
(* for an answer and nothing is presented.  As a request is made once, each*)
(* of them is answered, and the slot never stays with one that is over.    *)
EveryoneIsAnswered == []<>(Waiting \cup Active = {} /\ slot = None)
=============================================================================
