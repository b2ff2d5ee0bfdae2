------------------------- MODULE CoordinationMailbox -------------------------
(***************************************************************************)
(* The mailbox through which the Agents of Tasks coordinate:               *)
(* TaskCoordinationStore of packages/control-plane/src/task-coordination-  *)
(* store.ts on TaskCoordinationStoreCore.  Every operation is one          *)
(* synchronous database transaction, hence one action; one that throws is  *)
(* rolled back, and one that replays or refuses a request changes nothing. *)
(*                                                                         *)
(* A caller is always the Agent and the principal of the Task it names: an *)
(* identity that does not match is refused before anything is looked at.   *)
(* The recipient, the outbox and the thread are positions of one sequence, *)
(* whose index is the row's ordinal; the sequence numbers of a mailbox are *)
(* in the same order.  delivered_at and read_at are only ever set          *)
(* together, so one time stands for both, and for the identity stored with *)
(* them.                                                                   *)
(*                                                                         *)
(* The session that a call names is bound to its Agent for good, one of at *)
(* most 256 of its Task, and its lease is renewed.  That is left out: it   *)
(* can only refuse the call.                                               *)
(***************************************************************************)
EXTENDS Integers, Sequences, FiniteSets

CONSTANTS
    Tasks,          \* formal Tasks of one project
    Keys,           \* idempotency keys
    Bodies,         \* what a message says: [ack : BOOLEAN, expires : Times \cup {NULL}]
    MaxTime,        \* bound: the last instant of the clock
    MaxMessages,    \* MAX_TOTAL_MESSAGES
    MaxPending,     \* MAX_PENDING_MESSAGES_PER_TASK
    MaxTargets,     \* MAX_BROADCAST_TARGETS
    MaxAway,        \* bound: how many Tasks are unassigned or have ended at a time
    ClockGoesBack   \* whether the wall clock may be set back

NULL == 0
Times == 1..MaxTime
Ordinals == 1..MaxMessages

ASSUME MailboxAssumption ==
    /\ MaxTime \in Nat \ {0}
    /\ MaxMessages \in Nat \ {0}
    /\ MaxPending \in Nat \ {0}
    /\ MaxTargets \in Nat \ {0}
    /\ Bodies \subseteq [ack : BOOLEAN, expires : Times \cup {NULL}]
    /\ ClockGoesBack \in BOOLEAN

\* The registry holds at most MAX_TOTAL_TASKS.
ASSUME TasksAssumption == IsFiniteSet(Tasks)

VARIABLES
    message,        \* the rows of the message table
    broadcast,      \* the rows of the broadcast table
    assigned,       \* the Tasks that have an Agent
    terminal,       \* the Tasks that have ended
    now             \* the wall clock

vars == <<message, broadcast, assigned, terminal, now>>
taskVars == <<assigned, terminal>>

Message ==
    [from : Tasks, to : Tasks, key : Keys, body : Bodies,
     thread : Ordinals,                 \* correlation: the ordinal that began it
     replyTo : Ordinals \cup {NULL},
     created : Times,
     read : Times \cup {NULL}, acked : Times \cup {NULL},
     replied : Times \cup {NULL}, cancelled : Times \cup {NULL}]

Batch == [from : Tasks, key : Keys, targets : SUBSET Tasks, body : Bodies, thread : Ordinals]

TypeOK ==
    /\ message \in Seq(Message)
    /\ Len(message) <= MaxMessages
    /\ broadcast \subseteq Batch
    /\ assigned \subseteq Tasks
    /\ terminal \subseteq Tasks
    /\ now \in Times

Init ==
    /\ message = <<>>
    /\ broadcast = {}
    /\ assigned = Tasks
    /\ terminal = {}
    /\ now = 1

-----------------------------------------------------------------------------
(* messageExpired, and the states of a delivery in their order of          *)
(* precedence; the recipient's principal never changes.                    *)
Expired(m, t) == m.body.expires # NULL /\ m.body.expires <= t

DeliveryState(m, t) ==
    CASE m.replied # NULL -> "replied"
      [] m.replied = NULL /\ m.acked # NULL -> "acknowledged"
      [] m.replied = NULL /\ m.acked = NULL /\ m.cancelled # NULL -> "cancelled"
      [] OTHER -> IF Expired(m, t) /\ (m.body.ack \/ m.read = NULL) THEN "expired"
                  ELSE IF m.read # NULL THEN "read" ELSE "queued"

\* pendingSql
Pending(m, t) ==
    /\ m.cancelled = NULL /\ m.replied = NULL
    /\ ~Expired(m, t)
    /\ IF m.body.ack THEN m.acked = NULL ELSE m.read = NULL

PendingOf(r) == {i \in DOMAIN message : message[i].to = r /\ Pending(message[i], now)}

\* assertCapacity
HasRoom(R) ==
    /\ Len(message) + Cardinality(R) <= MaxMessages
    /\ \A r \in R : Cardinality(PendingOf(r)) < MaxPending

(* optionalExpiry: the expiry of a new message is still to come.           *)
IsCurrent(b) == b.expires = NULL \/ b.expires > now

(* assertOwnedTask and assertRecipient, for a new exchange and for a reply *)
(* to one (allowTerminal).                                                 *)
MayContinue(t) == t \in assigned
MayBegin(t) == t \in assigned /\ t \notin terminal

-----------------------------------------------------------------------------
(* The rows of a sender that bear a key, and what an operation with that   *)
(* key is answered before anything else is examined.                       *)
RowsOf(s, k) == {i \in DOMAIN message : message[i].from = s /\ message[i].key = k}
BatchesOf(s, k) == {c \in broadcast : c.from = s /\ c.key = k}

IsFresh(s, k) == RowsOf(s, k) = {} /\ BatchesOf(s, k) = {}

\* What insertMessage asks of the key of a message that is not part of a broadcast.
IsInsertable(s, r, k) ==
    /\ \A i \in RowsOf(s, k) : message[i].to = r
    /\ BatchesOf(s, k) = {}
    /\ \A i \in RowsOf(s, k) : message[i].to # r

SendAnswer(s, r, k, b) ==
    IF IsFresh(s, k) THEN "new"
    ELSE IF /\ BatchesOf(s, k) = {}
            /\ Cardinality(RowsOf(s, k)) = 1
            /\ \A i \in RowsOf(s, k) :
                 message[i].to = r /\ message[i].replyTo = NULL /\ message[i].body = b
         THEN "replayed" ELSE "conflict"

\* Mutant: what the broadcaster replied in the same thread counts as well.
ThreadRows(c) == {i \in DOMAIN message : message[i].thread = c.thread /\ message[i].from = c.from}

\* The messages that a broadcast's replay returns.
BatchRows(c) ==
    {i \in DOMAIN message :
        message[i].thread = c.thread /\ message[i].from = c.from /\ message[i].replyTo = NULL}

BroadcastAnswer(s, R, k, b) ==
    IF IsFresh(s, k) THEN "new"
    ELSE IF \E c \in BatchesOf(s, k) :
              /\ c.targets = R /\ c.body = b
              /\ Cardinality(BatchRows(c)) = Cardinality(R)
              /\ {message[i].to : i \in BatchRows(c)} = R
         THEN "replayed" ELSE "conflict"

NewMessage(s, r, k, b, thread, parent) ==
    [from |-> s, to |-> r, key |-> k, body |-> b, thread |-> thread, replyTo |-> parent,
     created |-> now, read |-> NULL, acked |-> NULL, replied |-> NULL, cancelled |-> NULL]

Send(s, r, k, b) ==
    /\ s # r
    /\ HasRoom({r})
    /\ SendAnswer(s, r, k, b) = "new"
    /\ MayBegin(s) /\ MayBegin(r)
    /\ IsInsertable(s, r, k)
    /\ IsCurrent(b)
    /\ message' = Append(message, NewMessage(s, r, k, b, Len(message) + 1, NULL))
    /\ UNCHANGED <<broadcast, taskVars, now>>

\* The targets one after the other: in the order of their IDs, which is any.
Orders(R) == {q \in [1..Cardinality(R) -> R] : \A i, j \in DOMAIN q : q[i] = q[j] => i = j}

Broadcast(s, R, k, b) ==
    /\ s \notin R /\ Cardinality(R) \in 1..MaxTargets
    /\ HasRoom(R)
    /\ BroadcastAnswer(s, R, k, b) = "new"
    /\ IsCurrent(b)
    /\ MayBegin(s) /\ \A r \in R : MayBegin(r)
    /\ LET thread == Len(message) + 1 IN
         /\ \E q \in Orders(R) :
              message' = message \o
                [i \in 1..Cardinality(R) |-> NewMessage(s, q[i], k, b, thread, NULL)]
         /\ broadcast' = broadcast \cup
              {[from |-> s, key |-> k, targets |-> R, body |-> b, thread |-> thread]}
    /\ UNCHANGED <<taskVars, now>>

Coalesce(old, new) == IF old = NULL THEN new ELSE old

\* Mutant: a reply writes its own time over the receipts.
RepliedNow(m) == [m EXCEPT !.read = now, !.acked = now, !.replied = now]

Replied(m) ==
    [m EXCEPT !.read = Coalesce(@, now), !.acked = Coalesce(@, now),
              !.replied = Coalesce(@, now)]

\* What reply asks of the message it answers, before and after the insertion.
\* Mutant: a second reply is not refused.
AnswerableAgain(p) ==
    /\ p.cancelled = NULL
    /\ ~(Expired(p, now) /\ p.acked = NULL /\ p.replied = NULL)

Answerable(p) ==
    /\ p.cancelled = NULL
    /\ ~(Expired(p, now) /\ p.acked = NULL /\ p.replied = NULL)
    /\ p.replied = NULL

Reply(i, k, b) ==
    LET p == message[i] IN
    /\ HasRoom({p.from})
    /\ Answerable(p)
    /\ MayContinue(p.to) /\ MayContinue(p.from)
    /\ IsInsertable(p.to, p.from, k)
    /\ IsCurrent(b)
    /\ message' = Append([message EXCEPT ![i] = Replied(p)],
                         NewMessage(p.to, p.from, k, b, p.thread, i))
    /\ UNCHANGED <<broadcast, taskVars, now>>

-----------------------------------------------------------------------------
\* Mutant: an expired message is marked as read.
UnreadUncancelled(m) == m.cancelled = NULL /\ m.read = NULL

\* The condition of #markRead's UPDATE.
IsUnread(m) == m.cancelled = NULL /\ ~Expired(m, now) /\ m.read = NULL

(* inbox and thread: the page is a stretch of what Task t received, of one *)
(* correlation or of all, perhaps of what is pending only.                 *)
MarkRead(t, page) ==
    /\ MayContinue(t)
    /\ \E i \in page : IsUnread(message[i])
    /\ message' = [i \in DOMAIN message |->
                     IF i \in page /\ IsUnread(message[i])
                     THEN [message[i] EXCEPT !.read = now] ELSE message[i]]
    /\ UNCHANGED <<broadcast, taskVars, now>>

Inbox(t, first, last, pendingOnly) ==
    MarkRead(t, {i \in first..last : message[i].to = t /\ (pendingOnly => i \in PendingOf(t))})

Thread(t, thread, first, last) ==
    MarkRead(t, {i \in first..last : message[i].to = t /\ message[i].thread = thread})

Acknowledge(i) ==
    LET m == message[i] IN
    /\ MayContinue(m.to)
    /\ DeliveryState(m, now) \notin {"cancelled", "expired"}
    /\ m.body.ack /\ m.read # NULL
    /\ m.acked = NULL
    /\ message' = [message EXCEPT ![i].acked = now]
    /\ UNCHANGED <<broadcast, taskVars, now>>

AcknowledgeThrough(t, last) ==
    LET due == {i \in 1..last : LET m == message[i] IN
                  /\ m.to = t /\ m.body.ack /\ m.read # NULL
                  /\ m.acked = NULL /\ m.replied = NULL /\ m.cancelled = NULL
                  /\ ~Expired(m, now)}
    IN /\ MayContinue(t)
       /\ due # {}
       /\ message' = [i \in DOMAIN message |->
                        IF i \in due THEN [message[i] EXCEPT !.acked = now] ELSE message[i]]
       /\ UNCHANGED <<broadcast, taskVars, now>>

Cancel(i) ==
    LET m == message[i] IN
    /\ MayContinue(m.from)
    /\ m.acked = NULL /\ m.replied = NULL
    /\ ~Expired(m, now)
    /\ m.cancelled = NULL
    /\ message' = [message EXCEPT ![i].cancelled = now]
    /\ UNCHANGED <<broadcast, taskVars, now>>

-----------------------------------------------------------------------------
(* The Tasks themselves: TaskRegistry's claim, unassign and the updates    *)
(* that end a Task; a Task that has ended keeps its Agent.                 *)
Assign(t) ==
    /\ t \notin terminal /\ t \notin assigned
    /\ assigned' = assigned \cup {t}
    /\ UNCHANGED <<message, broadcast, terminal, now>>

SomeMayLeave == Cardinality(terminal \cup (Tasks \ assigned)) < MaxAway

Unassign(t) ==
    /\ SomeMayLeave
    /\ t \notin terminal /\ t \in assigned
    /\ assigned' = assigned \ {t}
    /\ UNCHANGED <<message, broadcast, terminal, now>>

Finish(t) ==
    /\ SomeMayLeave
    /\ t \notin terminal /\ t \in assigned
    /\ terminal' = terminal \cup {t}
    /\ UNCHANGED <<message, broadcast, assigned, now>>

Tick ==
    /\ now' \in Times
    /\ now' > now \/ (ClockGoesBack /\ now' # now)
    /\ UNCHANGED <<message, broadcast, taskVars>>

Exchange(k, b) ==
    \/ \E s, r \in Tasks : Send(s, r, k, b)
    \/ \E s \in Tasks, R \in SUBSET Tasks : Broadcast(s, R, k, b)
    \/ \E i \in DOMAIN message : Reply(i, k, b)

\* A page begins and ends with a message of its reader.
Receive(t) ==
    LET received == {i \in DOMAIN message : message[i].to = t} IN
    \/ /\ \E i \in received : IsUnread(message[i])
       /\ \E first, last \in received :
            \/ \E pendingOnly \in BOOLEAN : Inbox(t, first, last, pendingOnly)
            \/ \E thread \in {message[i].thread : i \in received} : Thread(t, thread, first, last)
    \/ \E last \in received : AcknowledgeThrough(t, last)

Next ==
    \/ \E k \in Keys, b \in Bodies : Exchange(k, b)
    \/ \E t \in Tasks : Receive(t) \/ Assign(t) \/ Unassign(t) \/ Finish(t)
    \/ \E i \in DOMAIN message : Acknowledge(i) \/ Cancel(i)
    \/ Tick

Spec == Init /\ [][Next]_vars

-----------------------------------------------------------------------------
(* derivedState of packages/control-plane-contract/src/task-coordination-  *)
(* integrity.ts: what the reader of an envelope takes its state to be.     *)
DerivedState(m, t) ==
    CASE m.replied # NULL -> "replied"
      [] m.replied = NULL /\ m.acked # NULL -> "acknowledged"
      [] m.replied = NULL /\ m.acked = NULL /\ m.cancelled # NULL -> "cancelled"
      [] OTHER -> IF ~m.body.ack /\ m.read # NULL THEN "read"
                  ELSE IF Expired(m, t) THEN "expired"
                  ELSE IF m.read # NULL THEN "read" ELSE "queued"

InOrder(earlier, later) == earlier # NULL /\ later # NULL => earlier <= later

(* validateTaskCoordinationMessageCausality of the same file, for a        *)
(* snapshot that is taken at time t.                                       *)
Causal(m, t) ==
    /\ m.created <= t
    /\ m.body.expires # NULL => m.body.expires > m.created
    /\ \A r \in {m.read, m.acked, m.replied, m.cancelled} \ {NULL} : r \in m.created..t
    /\ m.acked # NULL => m.read # NULL
    /\ m.replied # NULL => m.acked # NULL
    /\ m.acked # NULL /\ ~m.body.ack => m.replied # NULL
    /\ m.cancelled # NULL => m.acked = NULL /\ m.replied = NULL
    /\ InOrder(m.read, m.acked) /\ InOrder(m.acked, m.replied) /\ InOrder(m.read, m.cancelled)
    /\ m.body.expires # NULL =>
         \A r \in {m.read, m.acked, m.cancelled} \ {NULL} : r < m.body.expires
    /\ DeliveryState(m, t) = DerivedState(m, t)

(* Whatever the order of reads, acknowledgements, replies, cancellations   *)
(* and expiries, every message is one that its readers accept: the renderer*)
(* refuses a snapshot with one inconsistent envelope as a whole.           *)
EnvelopeIsConsistent == \A i \in DOMAIN message : Causal(message[i], now)

(* A send or a broadcast that its caller repeats with the same key is      *)
(* answered with what it created, whatever became of its Tasks and its     *)
(* messages since, and whatever else the sender did with its keys.         *)
RetryIsAnswered ==
    /\ \A c \in broadcast : BroadcastAnswer(c.from, c.targets, c.key, c.body) = "replayed"
    /\ \A i \in DOMAIN message : LET m == message[i] IN
         \/ m.replyTo # NULL
         \/ \E c \in broadcast : c.thread = m.thread
         \/ SendAnswer(m.from, m.to, m.key, m.body) = "replayed"

(* A message is marked as replied to if and only if there is a reply to    *)
(* it, by its recipient, in its thread, and then there is one only.        *)
RepliedOnce ==
    \A i \in DOMAIN message :
        LET answers == {j \in DOMAIN message : message[j].replyTo = i} IN
        /\ (message[i].replied = NULL) = (answers = {})
        /\ \A j, l \in answers : j = l
        /\ \A j \in answers :
             /\ message[j].from = message[i].to /\ message[j].to = message[i].from
             /\ message[j].thread = message[i].thread
             /\ message[j].created = message[i].replied

(* What a message says, and a receipt it has once been given, never change *)
(* again, and no message is lost.                                          *)
Kept(m, n) ==
    /\ <<n.from, n.to, n.key, n.body, n.thread, n.replyTo, n.created>> =
         <<m.from, m.to, m.key, m.body, m.thread, m.replyTo, m.created>>
    /\ m.read \in {NULL, n.read} /\ m.acked \in {NULL, n.acked}
    /\ m.replied \in {NULL, n.replied} /\ m.cancelled \in {NULL, n.cancelled}

ReceiptsAreKept ==
    [][/\ Len(message) <= Len(message')
       /\ \A i \in DOMAIN message : Kept(message[i], message'[i])]_vars
=============================================================================
