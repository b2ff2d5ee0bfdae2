----------------------- MODULE CoordinationMailboxProofs -----------------------
(***************************************************************************)
(* Proofs about CoordinationMailbox, for any Tasks, keys, bodies and       *)
(* limits.  All rest on one lemma, Step: whatever an operation does, each  *)
(* message stays, or is read, acknowledged, cancelled or replied to under  *)
(* the guard of that operation, and what is added is new.  The second part *)
(* is about what is added: SendRows, BroadcastRows and ReplyRows say which *)
(* rows, and how they fit the threads and the keys that are there.         *)
(***************************************************************************)
EXTENDS CoordinationMailbox, SequenceTheorems, FiniteSetTheorems, TLAPS

(* The guards of acknowledge, of acknowledgeThrough and of cancel, as far  *)
(* as they speak of the message alone.                                     *)
MayAcknowledge(m) ==
    /\ DeliveryState(m, now) \notin {"cancelled", "expired"}
    /\ m.body.ack /\ m.read # NULL /\ m.acked = NULL

MayBePassed(m) ==
    /\ m.body.ack /\ m.read # NULL
    /\ m.acked = NULL /\ m.replied = NULL /\ m.cancelled = NULL
    /\ ~Expired(m, now)

MayCancel(m) ==
    /\ m.acked = NULL /\ m.replied = NULL /\ m.cancelled = NULL
    /\ ~Expired(m, now)

\* What an operation can make of message m.
Grown(m, n) ==
    \/ n = m
    \/ IsUnread(m) /\ n = [m EXCEPT !.read = now]
    \/ (MayAcknowledge(m) \/ MayBePassed(m)) /\ n = [m EXCEPT !.acked = now]
    \/ MayCancel(m) /\ n = [m EXCEPT !.cancelled = now]
    \/ Answerable(m) /\ n = Replied(m)

\* A message that an operation can add.
IsNewMessage(n) ==
    \E s, r \in Tasks, k \in Keys, b \in Bodies, thread \in Ordinals, p \in Ordinals \cup {NULL} :
        IsCurrent(b) /\ n = NewMessage(s, r, k, b, thread, p)

\* What a step makes of the table as a whole.
Extends(old, new) ==
    /\ new \in Seq(Message) /\ Len(new) <= MaxMessages /\ Len(old) <= Len(new)
    /\ \A i \in 1..Len(old) : Grown(old[i], new[i])
    /\ \A i \in 1..Len(new) : i > Len(old) => IsNewMessage(new[i])

-----------------------------------------------------------------------------
(* A receipt is a time, and so is the clock: a grown message and a new one *)
(* are messages.                                                           *)
LEMMA GrownIsMessage ==
    ASSUME NEW m \in Message, NEW n, Grown(m, n), now \in Times
    PROVE  n \in Message
<1>1. now \in Times \cup {NULL} /\ \A t \in Times \cup {NULL} : Coalesce(t, now) \in Times \cup {NULL}
  BY DEF Coalesce
<1>2. CASE n = [m EXCEPT !.read = now]
  BY <1>1, <1>2 DEF Message
<1>3. CASE n = [m EXCEPT !.acked = now]
  BY <1>1, <1>3 DEF Message
<1>4. CASE n = [m EXCEPT !.cancelled = now]
  BY <1>1, <1>4 DEF Message
<1>5. CASE n = Replied(m)
  BY <1>1, <1>5 DEF Message, Replied
<1> QED BY <1>2, <1>3, <1>4, <1>5 DEF Grown

LEMMA NewIsMessage ==
    ASSUME NEW n, IsNewMessage(n), now \in Times
    PROVE  n \in Message
BY DEF IsNewMessage, NewMessage, Message

LEMMA FunctionIsSeq ==
    ASSUME NEW S, NEW n \in Nat, NEW f \in [1..n -> S]
    PROVE  f \in Seq(S) /\ Len(f) = n
BY SeqDef

-----------------------------------------------------------------------------
(* A table whose messages each stay or grow extends the table.             *)
LEMMA GrownTable ==
    ASSUME TypeOK, NEW new, DOMAIN new = DOMAIN message,
           new = [i \in DOMAIN new |-> new[i]],
           \A i \in DOMAIN message : Grown(message[i], new[i])
    PROVE  Extends(message, new)
<1>1. message \in Seq(Message) /\ Len(message) <= MaxMessages /\ now \in Times
  BY DEF TypeOK
<1>2. Len(message) \in Nat /\ DOMAIN message = 1..Len(message)
  BY <1>1, LenProperties
<1>3. \A i \in 1..Len(message) : new[i] \in Message
  BY <1>1, <1>2, GrownIsMessage, ElementOfSeq
<1>4. new \in [1..Len(message) -> Message]
  BY <1>2, <1>3
<1>5. new \in Seq(Message) /\ Len(new) = Len(message)
  BY <1>2, <1>4, FunctionIsSeq
<1> QED BY <1>1, <1>2, <1>5 DEF Extends

(* A table that grows and receives one new message extends the table.      *)
LEMMA AppendedTable ==
    ASSUME TypeOK, NEW grown, Extends(message, grown), Len(grown) = Len(message),
           Len(message) + 1 <= MaxMessages,
           NEW n, IsNewMessage(n)
    PROVE  Extends(message, Append(grown, n))
<1>1. message \in Seq(Message) /\ now \in Times /\ grown \in Seq(Message) /\ Len(message) \in Nat
  BY LenProperties DEF TypeOK, Extends
<1>2. n \in Message
  BY <1>1, NewIsMessage
<1>3. /\ Append(grown, n) \in Seq(Message)
      /\ Len(Append(grown, n)) = Len(message) + 1
      /\ \A i \in 1..Len(message) : Append(grown, n)[i] = grown[i]
      /\ Append(grown, n)[Len(message) + 1] = n
  BY <1>1, <1>2
<1> QED BY <1>1, <1>3 DEF Extends

(* A table that receives the messages of a broadcast extends the table.    *)
LEMMA ConcatenatedTable ==
    ASSUME TypeOK, NEW size \in Nat, NEW added \in [1..size -> Message],
           Len(message) + size <= MaxMessages,
           \A i \in 1..size : IsNewMessage(added[i])
    PROVE  Extends(message, message \o added)
<1>1. message \in Seq(Message) /\ Len(message) \in Nat
  BY LenProperties DEF TypeOK
<1>2. added \in Seq(Message) /\ Len(added) = size
  BY FunctionIsSeq
<1>3. /\ message \o added \in Seq(Message)
      /\ Len(message \o added) = Len(message) + size
      /\ \A i \in 1..Len(message) + size :
           (message \o added)[i] = IF i <= Len(message) THEN message[i] ELSE added[i - Len(message)]
  BY <1>1, <1>2, ConcatProperties
<1>4. \A i \in 1..Len(message) + size :
         i > Len(message) => i - Len(message) \in 1..size
  BY <1>1
<1>5. \A i \in 1..Len(message) : Grown(message[i], (message \o added)[i])
  BY <1>1, <1>3 DEF Grown
<1>6. \A i \in 1..Len(message) + size : i > Len(message) => IsNewMessage((message \o added)[i])
  BY <1>1, <1>3, <1>4
<1> QED BY <1>1, <1>3, <1>5, <1>6 DEF Extends

-----------------------------------------------------------------------------
(* What every step does to the table, to the broadcasts and to the clock.  *)
StepOK ==
    /\ Extends(message, message')
    /\ broadcast' \subseteq Batch
    /\ assigned' \subseteq Tasks /\ terminal' \subseteq Tasks
    /\ now' \in Times
    /\ message' # message => now' = now
    /\ now' < now => ClockGoesBack

(* A table that stays as it is.                                            *)
LEMMA SameTable == TypeOK => Extends(message, message)
BY LenProperties DEF TypeOK, Extends, Grown

\* The new message of a send, of a broadcast and of a reply.
LEMMA SendAdds ==
    ASSUME TypeOK, NEW s \in Tasks, NEW r \in Tasks, NEW k \in Keys, NEW b \in Bodies, Send(s, r, k, b)
    PROVE  StepOK
<1>1. message \in Seq(Message) /\ Len(message) \in Nat /\ now \in Times
  BY LenProperties DEF TypeOK
<1>2. Len(message) + 1 <= MaxMessages /\ IsCurrent(b)
  BY FS_Singleton DEF Send, HasRoom
<1>3. Len(message) + 1 \in Ordinals
  BY <1>1, <1>2, MailboxAssumption DEF Ordinals
<1>4. IsNewMessage(NewMessage(s, r, k, b, Len(message) + 1, NULL))
  BY <1>2, <1>3 DEF IsNewMessage
<1>5. Extends(message, message')
  BY <1>2, <1>4, SameTable, AppendedTable DEF Send
<1> QED BY <1>1, <1>5 DEF Send, StepOK, TypeOK, taskVars, Times

LEMMA BroadcastAdds ==
    ASSUME TypeOK, NEW s \in Tasks, NEW R \in SUBSET Tasks, NEW k \in Keys, NEW b \in Bodies,
           Broadcast(s, R, k, b)
    PROVE  StepOK
<1> DEFINE size == Cardinality(R)
           thread == Len(message) + 1
<1>1. message \in Seq(Message) /\ Len(message) \in Nat /\ now \in Times
  BY LenProperties DEF TypeOK
<1>2. size \in Nat /\ size >= 1 /\ Len(message) + size <= MaxMessages /\ IsCurrent(b)
  BY MailboxAssumption DEF Broadcast, HasRoom
<1>3. thread \in Ordinals
  BY <1>1, <1>2, MailboxAssumption DEF Ordinals
<1>4. PICK q \in Orders(R) :
         message' = message \o [i \in 1..size |-> NewMessage(s, q[i], k, b, thread, NULL)]
  BY DEF Broadcast
<1>5. \A i \in 1..size : q[i] \in Tasks
  BY <1>4 DEF Orders
<1> DEFINE added == [i \in 1..size |-> NewMessage(s, q[i], k, b, thread, NULL)]
<1> HIDE DEF size, thread
<1>6. \A i \in 1..size : IsNewMessage(added[i])
  BY <1>2, <1>3, <1>5 DEF IsNewMessage
<1>7. \A i \in 1..size : added[i] \in Message
  BY <1>1, <1>6, NewIsMessage
<1>8. added \in [1..size -> Message]
  BY <1>7
<1>9. Extends(message, message')
  <2> HIDE DEF added
  <2>1. Extends(message, message \o added)
    BY <1>2, <1>6, <1>8, ConcatenatedTable
  <2> QED BY <1>4, <2>1 DEF added
<1>10. broadcast' \subseteq Batch
  BY <1>3 DEF Broadcast, Batch, TypeOK, thread
<1>11. UNCHANGED <<assigned, terminal, now>>
  BY DEF Broadcast, taskVars
<1> QED BY <1>1, <1>9, <1>10, <1>11 DEF StepOK, TypeOK, Times

LEMMA ReplyAdds ==
    ASSUME TypeOK, NEW i \in DOMAIN message, NEW k \in Keys, NEW b \in Bodies, Reply(i, k, b)
    PROVE  StepOK
<1> DEFINE p == message[i]
           grown == [message EXCEPT ![i] = Replied(p)]
<1>1. /\ message \in Seq(Message) /\ Len(message) \in Nat /\ now \in Times
      /\ DOMAIN message = 1..Len(message) /\ p \in Message
  BY LenProperties, ElementOfSeq DEF TypeOK
<1>2. Len(message) + 1 <= MaxMessages /\ IsCurrent(b) /\ Answerable(p)
  BY FS_Singleton DEF Reply, HasRoom
<1>3. p.from \in Tasks /\ p.to \in Tasks /\ p.thread \in Ordinals /\ i \in Ordinals
  BY <1>1, <1>2, MailboxAssumption DEF Message, Ordinals
<1>4. IsNewMessage(NewMessage(p.to, p.from, k, b, p.thread, i))
  BY <1>2, <1>3 DEF IsNewMessage
<1>5. /\ \A j \in DOMAIN message : Grown(message[j], grown[j])
      /\ DOMAIN grown = DOMAIN message /\ grown = [j \in DOMAIN grown |-> grown[j]]
  BY <1>1, <1>2 DEF Grown
<1>6. Extends(message, grown)
  BY <1>5, GrownTable
<1>7. Len(grown) = Len(message)
  BY <1>1, <1>5, <1>6, LenProperties DEF Extends
<1> HIDE DEF grown
<1>8. Extends(message, Append(grown, NewMessage(p.to, p.from, k, b, p.thread, i)))
  BY <1>2, <1>4, <1>6, <1>7, AppendedTable
<1>9. Extends(message, message')
  BY <1>8 DEF Reply, grown
<1> QED BY <1>1, <1>9 DEF Reply, StepOK, TypeOK, taskVars, Times

\* The operations that only add receipts.
LEMMA ReceiptsGrow ==
    ASSUME TypeOK, DOMAIN message' = DOMAIN message,
           message' = [i \in DOMAIN message' |-> message'[i]],
           \A i \in DOMAIN message : Grown(message[i], message'[i]),
           UNCHANGED <<broadcast, assigned, terminal, now>>
    PROVE  StepOK
<1>1. Extends(message, message')
  BY GrownTable
<1> QED BY <1>1 DEF StepOK, TypeOK, Times

LEMMA MarkReadGrows ==
    ASSUME TypeOK, NEW t, NEW page, MarkRead(t, page)
    PROVE  StepOK
<1>1. message' = [i \in DOMAIN message |->
                    IF i \in page /\ IsUnread(message[i])
                    THEN [message[i] EXCEPT !.read = now] ELSE message[i]]
  BY DEF MarkRead
<1>2. DOMAIN message' = DOMAIN message /\ message' = [i \in DOMAIN message' |-> message'[i]]
  BY <1>1
<1>3. \A i \in DOMAIN message : Grown(message[i], message'[i])
  BY <1>1 DEF Grown
<1> QED BY <1>2, <1>3, ReceiptsGrow DEF MarkRead, taskVars

LEMMA AcknowledgeGrows ==
    ASSUME TypeOK, NEW i \in DOMAIN message, Acknowledge(i) \/ Cancel(i)
    PROVE  StepOK
<1>1. message \in [DOMAIN message -> Message] /\ message[i] \in Message
  BY LenProperties DEF TypeOK
<1>2. /\ DOMAIN message' = DOMAIN message
      /\ message' = [j \in DOMAIN message' |-> message'[j]]
      /\ \A j \in DOMAIN message : j # i => message'[j] = message[j]
  BY <1>1 DEF Acknowledge, Cancel
<1>3. Grown(message[i], message'[i])
  BY <1>1 DEF Acknowledge, Cancel, Grown, MayAcknowledge, MayCancel
<1> QED BY <1>2, <1>3, ReceiptsGrow DEF Acknowledge, Cancel, Grown, taskVars

LEMMA AcknowledgeThroughGrows ==
    ASSUME TypeOK, NEW t, NEW last, AcknowledgeThrough(t, last)
    PROVE  StepOK
<1> DEFINE due == {i \in 1..last : LET m == message[i] IN
                     /\ m.to = t /\ m.body.ack /\ m.read # NULL
                     /\ m.acked = NULL /\ m.replied = NULL /\ m.cancelled = NULL
                     /\ ~Expired(m, now)}
<1>1. message' = [i \in DOMAIN message |->
                    IF i \in due THEN [message[i] EXCEPT !.acked = now] ELSE message[i]]
  BY DEF AcknowledgeThrough
<1>2. \A i \in due : MayBePassed(message[i])
  BY DEF MayBePassed
<1> HIDE DEF due
<1>3. DOMAIN message' = DOMAIN message /\ message' = [i \in DOMAIN message' |-> message'[i]]
  BY <1>1
<1>4. \A i \in DOMAIN message : Grown(message[i], message'[i])
  BY <1>1, <1>2 DEF Grown
<1> QED BY <1>3, <1>4, ReceiptsGrow DEF AcknowledgeThrough, taskVars

(* Every step.                                                             *)
LEMMA Step ==
    ASSUME TypeOK, [Next]_vars
    PROVE  StepOK
<1>1. ASSUME NEW k \in Keys, NEW b \in Bodies, Exchange(k, b)
      PROVE  StepOK
  BY <1>1, SendAdds, BroadcastAdds, ReplyAdds DEF Exchange
<1>2. ASSUME NEW t \in Tasks, Receive(t)
      PROVE  StepOK
  BY <1>2, MarkReadGrows, AcknowledgeThroughGrows DEF Receive, Inbox, Thread
<1>3. ASSUME NEW t \in Tasks, Assign(t) \/ Unassign(t) \/ Finish(t)
      PROVE  StepOK
  BY <1>3, SameTable DEF Assign, Unassign, Finish, StepOK, TypeOK, Times
<1>4. ASSUME NEW i \in DOMAIN message, Acknowledge(i) \/ Cancel(i)
      PROVE  StepOK
  BY <1>4, AcknowledgeGrows
<1>5. CASE Tick
  BY <1>5, SameTable DEF Tick, taskVars, StepOK, TypeOK, Times
<1>6. CASE UNCHANGED vars
  BY <1>6, SameTable DEF vars, StepOK, TypeOK, Times
<1> QED BY <1>1, <1>2, <1>3, <1>4, <1>5, <1>6 DEF Next

-----------------------------------------------------------------------------
(* The types of the variables, for any Tasks, keys, bodies and limits.     *)
THEOREM TypeCorrect == Spec => []TypeOK
<1>1. Init => TypeOK
  BY MailboxAssumption, EmptySeq DEF Init, TypeOK, Times
<1>2. TypeOK /\ [Next]_vars => TypeOK'
  BY Step DEF StepOK, Extends, TypeOK
<1> QED BY <1>1, <1>2, PTL DEF Spec

(* What a message says, and a receipt that it has, stay when it grows.     *)
LEMMA GrownIsKept ==
    ASSUME NEW m \in Message, NEW n, Grown(m, n)
    PROVE  Kept(m, n)
BY DEF Grown, Kept, Message, Replied, Coalesce, IsUnread, MayAcknowledge, MayBePassed, MayCancel,
   Answerable

(* What a message says and the receipts it has are never changed, and no   *)
(* message is lost.                                                        *)
THEOREM Unchanging == Spec => ReceiptsAreKept
<1>1. TypeOK /\ [Next]_vars =>
        [/\ Len(message) <= Len(message')
         /\ \A i \in DOMAIN message : Kept(message[i], message'[i])]_vars
  BY GrownIsKept, Step, LenProperties, ElementOfSeq DEF StepOK, Extends, TypeOK
<1> QED BY TypeCorrect, <1>1, PTL DEF Spec, ReceiptsAreKept

-----------------------------------------------------------------------------
(* The store and the readers of an envelope agree on its state.            *)
LEMMA StatesAgree ==
    ASSUME NEW m \in Message, NEW t \in Times
    PROVE  DeliveryState(m, t) = DerivedState(m, t)
BY MailboxAssumption DEF DeliveryState, DerivedState, Message

(* A consistent message stays so as time goes on ...                       *)
LEMMA LaterIsCausal ==
    ASSUME NEW m \in Message, NEW t \in Times, NEW u \in Times, t <= u, Causal(m, t)
    PROVE  Causal(m, u)
<1>1. DeliveryState(m, u) = DerivedState(m, u)
  BY StatesAgree
<1> QED BY <1>1 DEF Causal, Message, Times

(* ... and whatever receipt it is given.                                   *)
LEMMA GrownIsCausal ==
    ASSUME NEW m \in Message, NEW n, Grown(m, n), now \in Times, Causal(m, now)
    PROVE  Causal(n, now)
<1>0. n \in Message
  BY GrownIsMessage
<1>1. DeliveryState(n, now) = DerivedState(n, now)
  BY <1>0, StatesAgree
<1>2. m.body \in [ack : BOOLEAN, expires : Times \cup {NULL}]
  BY MailboxAssumption DEF Message
<1>3. CASE IsUnread(m) /\ n = [m EXCEPT !.read = now]
  BY <1>1, <1>2, <1>3 DEF IsUnread, Causal, Message, Times, Expired, InOrder, NULL
<1>4. CASE MayAcknowledge(m) /\ n = [m EXCEPT !.acked = now]
  <2>1. MayBePassed(m)
    BY <1>2, <1>4 DEF MayAcknowledge, MayBePassed, DeliveryState, Causal
  <2> QED BY <1>1, <1>2, <1>4, <2>1 DEF MayBePassed, Causal, Message, Times, Expired, InOrder, NULL
<1>5. CASE MayBePassed(m) /\ n = [m EXCEPT !.acked = now]
  BY <1>1, <1>2, <1>5 DEF MayBePassed, Causal, Message, Times, Expired, InOrder, NULL
<1>6. CASE MayCancel(m) /\ n = [m EXCEPT !.cancelled = now]
  BY <1>1, <1>2, <1>6 DEF MayCancel, Causal, Message, Times, Expired, InOrder, NULL
<1>7. CASE Answerable(m) /\ n = Replied(m)
  BY <1>1, <1>2, <1>7 DEF Answerable, Replied, Coalesce, Causal, Message, Times, Expired,
        InOrder, NULL
<1> QED BY <1>3, <1>4, <1>5, <1>6, <1>7 DEF Grown

LEMMA NewIsCausal ==
    ASSUME NEW n, IsNewMessage(n), now \in Times
    PROVE  Causal(n, now)
<1>1. n \in Message
  BY NewIsMessage
<1>2. DeliveryState(n, now) = DerivedState(n, now)
  BY <1>1, StatesAgree
<1>3. n.body \in [ack : BOOLEAN, expires : Times \cup {NULL}]
  BY <1>1, MailboxAssumption DEF Message
<1> QED BY <1>2, <1>3 DEF IsNewMessage, NewMessage, IsCurrent, Causal, Times, InOrder, NULL

(* As long as the clock is not set back, every message is one that its     *)
(* readers accept.                                                         *)
THEOREM Consistent ==
    ASSUME ClockGoesBack = FALSE
    PROVE  Spec => []EnvelopeIsConsistent
<1>1. Init => EnvelopeIsConsistent
  BY DEF Init, EnvelopeIsConsistent
<1>2. ASSUME TypeOK, EnvelopeIsConsistent, [Next]_vars
      PROVE  EnvelopeIsConsistent'
  <2>1. StepOK /\ now \in Times /\ message \in Seq(Message) /\ message' \in Seq(Message)
    BY <1>2, Step DEF TypeOK, StepOK, Extends
  <2>2. DOMAIN message = 1..Len(message) /\ DOMAIN message' = 1..Len(message')
        /\ Len(message) \in Nat /\ Len(message') \in Nat
    BY <2>1, LenProperties
  <2>3. now' \in Times /\ now <= now'
    BY <2>1 DEF StepOK, Times
  <2>4. ASSUME NEW i \in DOMAIN message'
        PROVE  Causal(message'[i], now)
    <3>1. CASE i <= Len(message)
      <4>1. Grown(message[i], message'[i]) /\ message[i] \in Message /\ Causal(message[i], now)
        BY <1>2, <2>1, <2>2, <2>4, <3>1, ElementOfSeq DEF StepOK, Extends, EnvelopeIsConsistent
      <4> QED BY <2>1, <4>1, GrownIsCausal
    <3>2. CASE i > Len(message)
      <4>1. IsNewMessage(message'[i])
        BY <2>1, <2>2, <2>4, <3>2 DEF StepOK, Extends
      <4> QED BY <2>1, <4>1, NewIsCausal
    <3> QED BY <2>2, <3>1, <3>2
  <2>5. \A i \in DOMAIN message' : message'[i] \in Message
    BY <2>1, <2>2, ElementOfSeq
  <2> QED BY <2>1, <2>3, <2>4, <2>5, LaterIsCausal DEF EnvelopeIsConsistent
<1> QED BY TypeCorrect, <1>1, <1>2, PTL DEF Spec

-----------------------------------------------------------------------------
(* The threads and the keys.                                               *)

(* A reply comes after what it answers.                                    *)
RepliesAreLater ==
    \A j \in DOMAIN message : message[j].replyTo # NULL => message[j].replyTo < j

(* A thread begins no later than its messages.                             *)
ThreadsAreOld == \A i \in DOMAIN message : message[i].thread <= i

(* A broadcast has a thread of its own: what its sender began there is one *)
(* message to each of its targets.                                         *)
BatchesAreWhole ==
    \A c \in broadcast :
        /\ c.thread <= Len(message)
        /\ Cardinality(BatchRows(c)) = Cardinality(c.targets)
        /\ {message[i].to : i \in BatchRows(c)} = c.targets

(* A key that a message was sent with belongs to it alone.                 *)
KeysAreTaken ==
    \A i \in DOMAIN message :
        \/ message[i].replyTo # NULL
        \/ \E c \in broadcast : c.thread = message[i].thread
        \/ /\ RowsOf(message[i].from, message[i].key) = {i}
           /\ BatchesOf(message[i].from, message[i].key) = {}

(* A table of which no row is lost, and each row is what it was but for its receipts. *)
LEMMA RowsAreKept ==
    ASSUME TypeOK, [Next]_vars
    PROVE  /\ DOMAIN message = 1..Len(message) /\ DOMAIN message' = 1..Len(message')
           /\ Len(message) \in Nat /\ Len(message') \in Nat /\ Len(message) <= Len(message')
           /\ \A i \in DOMAIN message : i \in DOMAIN message' /\ Kept(message[i], message'[i])
<1>1. StepOK /\ message \in Seq(Message) /\ message' \in Seq(Message)
  BY Step DEF TypeOK, StepOK, Extends
<1>2. /\ DOMAIN message = 1..Len(message) /\ DOMAIN message' = 1..Len(message')
      /\ Len(message) \in Nat /\ Len(message') \in Nat /\ Len(message) <= Len(message')
  BY <1>1, LenProperties DEF StepOK, Extends
<1>3. ASSUME NEW i \in DOMAIN message
      PROVE  i \in DOMAIN message' /\ Kept(message[i], message'[i])
  <2>1. Grown(message[i], message'[i]) /\ message[i] \in Message /\ i \in 1..Len(message)
    BY <1>1, <1>2, <1>3, ElementOfSeq DEF StepOK, Extends
  <2> QED BY <1>2, <2>1, GrownIsKept
<1> QED BY <1>2, <1>3

(* A step that sends nothing: the rows and the broadcasts stay, and none is replied to. *)
NothingSent ==
    /\ DOMAIN message' = DOMAIN message
    /\ \A i \in DOMAIN message : message'[i].replied = message[i].replied
    /\ broadcast' = broadcast

LEMMA StepSends ==
    ASSUME TypeOK, [Next]_vars
    PROVE  \/ NothingSent
           \/ \E k \in Keys, b \in Bodies : Exchange(k, b)
<1>1. message \in [DOMAIN message -> Message]
  BY LenProperties DEF TypeOK
<1>2. ASSUME NEW t \in Tasks, NEW page, MarkRead(t, page)
      PROVE  NothingSent
  BY <1>1, <1>2 DEF MarkRead, NothingSent, Message
<1>3. ASSUME NEW t \in Tasks, NEW last, AcknowledgeThrough(t, last)
      PROVE  NothingSent
  BY <1>1, <1>3 DEF AcknowledgeThrough, NothingSent, Message
<1>4. ASSUME NEW i \in DOMAIN message, Acknowledge(i) \/ Cancel(i)
      PROVE  NothingSent
  BY <1>1, <1>4 DEF Acknowledge, Cancel, NothingSent, Message
<1>5. ASSUME Tick \/ UNCHANGED vars \/ \E t \in Tasks : Assign(t) \/ Unassign(t) \/ Finish(t)
      PROVE  NothingSent
  BY <1>5 DEF Tick, vars, Assign, Unassign, Finish, NothingSent
<1> QED BY <1>2, <1>3, <1>4, <1>5 DEF Next, Receive, Inbox, Thread

(* What a send, a broadcast and a reply do to the rows.                    *)
LEMMA SendRows ==
    ASSUME TypeOK, NEW s \in Tasks, NEW r \in Tasks, NEW k, NEW b, Send(s, r, k, b)
    PROVE  /\ DOMAIN message' = 1..Len(message) + 1
           /\ \A i \in DOMAIN message : message'[i] = message[i]
           /\ message'[Len(message) + 1] = NewMessage(s, r, k, b, Len(message) + 1, NULL)
           /\ broadcast' = broadcast
BY LenProperties DEF TypeOK, Send

LEMMA BroadcastRows ==
    ASSUME TypeOK, NEW s \in Tasks, NEW R \in SUBSET Tasks, NEW k, NEW b, Broadcast(s, R, k, b)
    PROVE  LET first == Len(message) + 1
               size == Cardinality(R)
           IN  /\ size \in Nat /\ size >= 1
               /\ DOMAIN message' = 1..Len(message) + size
               /\ \A i \in DOMAIN message : message'[i] = message[i]
               /\ \E q \in Orders(R) : \A j \in 1..size :
                    message'[Len(message) + j] = NewMessage(s, q[j], k, b, first, NULL)
               /\ broadcast' = broadcast \cup
                    {[from |-> s, key |-> k, targets |-> R, body |-> b, thread |-> first]}
<1> DEFINE first == Len(message) + 1
           size == Cardinality(R)
<1>1. message \in Seq(Message) /\ Len(message) \in Nat /\ DOMAIN message = 1..Len(message)
  BY LenProperties DEF TypeOK
<1>2. size \in Nat /\ size >= 1
  BY MailboxAssumption DEF Broadcast
<1>3. PICK q \in Orders(R) :
         message' = message \o [i \in 1..size |-> NewMessage(s, q[i], k, b, first, NULL)]
  BY DEF Broadcast
<1> DEFINE added == [i \in 1..size |-> NewMessage(s, q[i], k, b, first, NULL)]
           new == {NewMessage(s, q[i], k, b, first, NULL) : i \in 1..size}
<1>4. broadcast' = broadcast \cup
         {[from |-> s, key |-> k, targets |-> R, body |-> b, thread |-> first]}
  BY DEF Broadcast
<1> HIDE DEF size, first
<1>5. added \in [1..size -> new]
  OBVIOUS
<1> HIDE DEF added
<1>6. added \in Seq(new) /\ Len(added) = size
  BY <1>2, <1>5, FunctionIsSeq
<1>7. message \in Seq(Message \cup new) /\ added \in Seq(Message \cup new)
  BY <1>1, <1>6 DEF Seq
<1>8. /\ DOMAIN (message \o added) = 1..Len(message) + size
      /\ \A i \in 1..Len(message) + size :
           (message \o added)[i] = IF i <= Len(message) THEN message[i] ELSE added[i - Len(message)]
  BY <1>1, <1>6, <1>7, ConcatProperties, LenProperties
<1>9. message' = message \o added
  BY <1>3 DEF added
<1>10. ASSUME NEW i \in DOMAIN message PROVE message'[i] = message[i]
  BY <1>1, <1>2, <1>8, <1>9
<1>11. ASSUME NEW j \in 1..size
       PROVE  message'[Len(message) + j] = NewMessage(s, q[j], k, b, first, NULL)
  <2> DEFINE i == Len(message) + j
  <2>1. i \in 1..Len(message) + size /\ ~(i <= Len(message)) /\ i - Len(message) = j
    BY <1>1, <1>2
  <2> HIDE DEF i
  <2>2. (message \o added)[i] = added[i - Len(message)]
    BY <1>8, <2>1
  <2>3. message'[i] = added[j]
    BY <1>9, <2>1, <2>2
  <2> QED BY <2>3 DEF added, i
<1>12. \E o \in Orders(R) : \A j \in 1..size :
          message'[Len(message) + j] = NewMessage(s, o[j], k, b, first, NULL)
  BY <1>3, <1>11
<1> QED BY <1>2, <1>4, <1>8, <1>9, <1>10, <1>12 DEF size, first

LEMMA ReplyRows ==
    ASSUME TypeOK, NEW i \in DOMAIN message, NEW k, NEW b, Reply(i, k, b)
    PROVE  LET p == message[i] IN
           /\ DOMAIN message' = 1..Len(message) + 1
           /\ \A j \in DOMAIN message : j # i => message'[j] = message[j]
           /\ message'[i] = Replied(p)
           /\ message'[Len(message) + 1] = NewMessage(p.to, p.from, k, b, p.thread, i)
           /\ broadcast' = broadcast
<1> DEFINE p == message[i]
           grown == [message EXCEPT ![i] = Replied(p)]
           n == NewMessage(p.to, p.from, k, b, p.thread, i)
<1>1. /\ message \in Seq(Message) /\ Len(message) \in Nat /\ DOMAIN message = 1..Len(message)
  BY LenProperties DEF TypeOK
<1>2. DOMAIN grown = 1..Len(message) /\ grown[i] = Replied(p)
      /\ \A j \in DOMAIN message : j # i => grown[j] = message[j]
  BY <1>1
<1>3. grown \in [1..Len(message) -> Message \cup {Replied(p), n}]
  BY <1>1, <1>2, ElementOfSeq
<1>4. message' = Append(grown, n) /\ broadcast' = broadcast
  BY DEF Reply
<1> HIDE DEF grown, n, p
<1>5. grown \in Seq(Message \cup {Replied(p), n}) /\ Len(grown) = Len(message)
  BY <1>1, <1>3, FunctionIsSeq
<1>6. /\ DOMAIN Append(grown, n) = 1..Len(message) + 1
      /\ \A j \in 1..Len(message) : Append(grown, n)[j] = grown[j]
      /\ Append(grown, n)[Len(message) + 1] = n
  BY <1>1, <1>5, AppendProperties, LenProperties
<1> QED BY <1>1, <1>2, <1>4, <1>6 DEF n, p

-----------------------------------------------------------------------------
(* Whom a message answers, and whether it is answered, in a step that sends nothing and in *)
(* one that sends messages that answer none.                               *)
OnceInv == RepliesAreLater /\ RepliedOnce

LEMMA UnansweredKeep ==
    ASSUME TypeOK, OnceInv, [Next]_vars,
           \A i \in DOMAIN message : message'[i].replied = message[i].replied,
           \A i \in DOMAIN message' \ DOMAIN message :
                message'[i].replied = NULL /\ message'[i].replyTo = NULL
    PROVE  OnceInv'
<1>1. /\ DOMAIN message = 1..Len(message) /\ DOMAIN message' = 1..Len(message')
      /\ Len(message) \in Nat /\ Len(message') \in Nat
      /\ \A i \in DOMAIN message : i \in DOMAIN message' /\ Kept(message[i], message'[i])
  BY RowsAreKept
<1>2. \A i \in DOMAIN message :
         /\ message'[i].from = message[i].from /\ message'[i].to = message[i].to
         /\ message'[i].thread = message[i].thread /\ message'[i].replyTo = message[i].replyTo
         /\ message'[i].created = message[i].created
         /\ message'[i].replied = message[i].replied
  BY <1>1 DEF Kept
<1>3. RepliesAreLater'
  BY <1>1, <1>2 DEF OnceInv, RepliesAreLater
<1>4. ASSUME NEW i \in DOMAIN message'
      PROVE  {j \in DOMAIN message' : message'[j].replyTo = i} =
                {j \in DOMAIN message : message[j].replyTo = i}
  BY <1>1, <1>2, <1>4 DEF NULL
<1>5. ASSUME NEW i \in DOMAIN message' \ DOMAIN message
      PROVE  {j \in DOMAIN message : message[j].replyTo = i} = {}
  BY <1>1, <1>5 DEF OnceInv, RepliesAreLater, NULL
<1>6. RepliedOnce'
  BY <1>1, <1>2, <1>4, <1>5 DEF OnceInv, RepliedOnce
<1> QED BY <1>3, <1>6 DEF OnceInv

(* A reply is the first answer to its parent, which it marks.              *)
LEMMA ReplyAnswers ==
    ASSUME TypeOK, OnceInv, NEW i \in DOMAIN message, NEW k \in Keys, NEW b \in Bodies,
           Reply(i, k, b)
    PROVE  OnceInv'
<1> DEFINE last == Len(message) + 1
<1>1. /\ DOMAIN message = 1..Len(message) /\ Len(message) \in Nat
      /\ now \in Times
      /\ message[i] \in Message /\ message[i].replied = NULL
  BY LenProperties, ElementOfSeq DEF TypeOK, Reply, Answerable
<1>2. /\ DOMAIN message' = 1..last
      /\ \A j \in DOMAIN message : j # i => message'[j] = message[j]
      /\ message'[i] = Replied(message[i])
      /\ message'[last] = NewMessage(message[i].to, message[i].from, k, b, message[i].thread, i)
  BY ReplyRows
<1>3. /\ message'[i].replied = now
      /\ message'[i].from = message[i].from /\ message'[i].to = message[i].to
      /\ message'[i].thread = message[i].thread /\ message'[i].replyTo = message[i].replyTo
      /\ message'[i].created = message[i].created
  BY <1>1, <1>2 DEF Replied, Coalesce, Message
<1>4. /\ message'[last].from = message[i].to /\ message'[last].to = message[i].from
      /\ message'[last].thread = message[i].thread /\ message'[last].replyTo = i
      /\ message'[last].created = now /\ message'[last].replied = NULL
  BY <1>2 DEF NewMessage
<1>5. \A j \in DOMAIN message :
         /\ message'[j].from = message[j].from /\ message'[j].to = message[j].to
         /\ message'[j].thread = message[j].thread /\ message'[j].replyTo = message[j].replyTo
         /\ message'[j].created = message[j].created
         /\ j # i => message'[j].replied = message[j].replied
  BY <1>2, <1>3
<1>6. RepliesAreLater'
  BY <1>1, <1>2, <1>4, <1>5 DEF OnceInv, RepliesAreLater
<1>7. \A l \in DOMAIN message' : {j \in DOMAIN message' : message'[j].replyTo = l} =
         {j \in DOMAIN message : message[j].replyTo = l} \cup (IF l = i THEN {last} ELSE {})
  BY <1>1, <1>2, <1>4, <1>5
<1>8. {j \in DOMAIN message : message[j].replyTo = i} = {}
      /\ {j \in DOMAIN message : message[j].replyTo = last} = {}
  BY <1>1 DEF OnceInv, RepliesAreLater, RepliedOnce, NULL
<1>9. now # NULL
  BY <1>1 DEF Times, NULL
<1>10. RepliedOnce'
  <2> SUFFICES ASSUME NEW l \in DOMAIN message'
               PROVE  LET answers == {j \in DOMAIN message' : message'[j].replyTo = l} IN
                      /\ (message'[l].replied = NULL) = (answers = {})
                      /\ \A j, n \in answers : j = n
                      /\ \A j \in answers :
                           /\ message'[j].from = message'[l].to /\ message'[j].to = message'[l].from
                           /\ message'[j].thread = message'[l].thread
                           /\ message'[j].created = message'[l].replied
    BY DEF RepliedOnce
  <2>1. CASE l = i
    BY <1>3, <1>4, <1>7, <1>8, <1>9, <2>1
  <2>2. CASE l = last
    BY <1>1, <1>4, <1>7, <1>8, <2>2
  <2>3. CASE l # i /\ l # last
    <3>1. l \in DOMAIN message /\ message'[l] = message[l]
      BY <1>1, <1>2, <2>3
    <3> QED BY <1>5, <1>7, <2>3, <3>1 DEF OnceInv, RepliedOnce
  <2> QED BY <2>1, <2>2, <2>3
<1> QED BY <1>6, <1>10 DEF OnceInv

(* A message is marked as replied to when, and only when, there is a reply to it; then     *)
(* there is one only, by its recipient and in its thread, whatever the recipient repeats.  *)
THEOREM RepliesAreUnique == Spec => []RepliedOnce
<1>1. Init => OnceInv
  BY DEF Init, OnceInv, RepliesAreLater, RepliedOnce
<1>2. ASSUME TypeOK, OnceInv, [Next]_vars
      PROVE  OnceInv'
  <2>1. CASE NothingSent
    BY <1>2, <2>1, UnansweredKeep DEF NothingSent
  <2>2. ASSUME NEW k \in Keys, NEW b \in Bodies, NEW s \in Tasks, NEW r \in Tasks, Send(s, r, k, b)
        PROVE  OnceInv'
    <3>1. DOMAIN message = 1..Len(message) /\ Len(message) \in Nat
      BY <1>2, RowsAreKept
    <3>2. \A i \in DOMAIN message' \ DOMAIN message :
             message'[i].replied = NULL /\ message'[i].replyTo = NULL
      <4>1. /\ DOMAIN message' = 1..Len(message) + 1
            /\ message'[Len(message) + 1] = NewMessage(s, r, k, b, Len(message) + 1, NULL)
        BY <1>2, <2>2, SendRows
      <4>2. message'[Len(message) + 1].replied = NULL /\ message'[Len(message) + 1].replyTo = NULL
        BY <4>1 DEF NewMessage
      <4> QED BY <3>1, <4>1, <4>2
    <3> QED BY <1>2, <2>2, <3>2, SendRows, UnansweredKeep
  <2>3. ASSUME NEW k \in Keys, NEW b \in Bodies, NEW s \in Tasks, NEW R \in SUBSET Tasks,
               Broadcast(s, R, k, b)
        PROVE  OnceInv'
    <3> DEFINE size == Cardinality(R)
    <3>1. DOMAIN message = 1..Len(message) /\ Len(message) \in Nat
      BY <1>2, RowsAreKept
    <3>2. PICK q \in Orders(R) :
             /\ size \in Nat /\ DOMAIN message' = 1..Len(message) + size
             /\ \A i \in DOMAIN message : message'[i] = message[i]
             /\ \A j \in 1..size :
                  message'[Len(message) + j] = NewMessage(s, q[j], k, b, Len(message) + 1, NULL)
      BY <1>2, <2>3, BroadcastRows
    <3> HIDE DEF size
    <3>3. ASSUME NEW i \in DOMAIN message' \ DOMAIN message
          PROVE  message'[i].replied = NULL /\ message'[i].replyTo = NULL
      <4>1. i - Len(message) \in 1..size /\ Len(message) + (i - Len(message)) = i
        BY <3>1, <3>2, <3>3
      <4>2. message'[i] = NewMessage(s, q[i - Len(message)], k, b, Len(message) + 1, NULL)
        BY <3>2, <4>1
      <4> QED BY <4>2 DEF NewMessage
    <3> QED BY <1>2, <3>2, <3>3, UnansweredKeep
  <2> QED BY <1>2, <2>1, <2>2, <2>3, StepSends, ReplyAnswers DEF Exchange
<1> QED BY TypeCorrect, <1>1, <1>2, PTL DEF Spec, OnceInv

-----------------------------------------------------------------------------
(* What a repeated request finds.                                          *)
RetryInv == ThreadsAreOld /\ BatchesAreWhole /\ KeysAreTaken

(* A broadcast that was whole stays so, unless a message that begins an exchange is added  *)
(* to its thread.                                                          *)
LEMMA BatchStays ==
    ASSUME TypeOK, BatchesAreWhole, [Next]_vars, NEW c \in broadcast,
           \A i \in DOMAIN message' \ DOMAIN message :
                message'[i].replyTo # NULL \/ message'[i].thread > Len(message)
    PROVE  /\ c.thread <= Len(message')
           /\ Cardinality(BatchRows(c)') = Cardinality(c.targets)
           /\ {message'[i].to : i \in BatchRows(c)'} = c.targets
<1>1. /\ DOMAIN message = 1..Len(message) /\ DOMAIN message' = 1..Len(message')
      /\ Len(message) \in Nat /\ Len(message') \in Nat /\ Len(message) <= Len(message')
      /\ \A i \in DOMAIN message : i \in DOMAIN message' /\ Kept(message[i], message'[i])
  BY RowsAreKept
<1>2. \A i \in DOMAIN message :
         /\ message'[i].from = message[i].from /\ message'[i].to = message[i].to
         /\ message'[i].thread = message[i].thread /\ message'[i].replyTo = message[i].replyTo
  BY <1>1 DEF Kept
<1>3. c.thread <= Len(message) /\ c.thread \in Int
  BY MailboxAssumption DEF BatchesAreWhole, TypeOK, Batch, Ordinals
<1>4. \A i \in DOMAIN message' \ DOMAIN message :
         message'[i].replyTo # NULL \/ message'[i].thread # c.thread
  BY <1>1, <1>3
<1>5. BatchRows(c)' = BatchRows(c)
  BY <1>1, <1>2, <1>4 DEF BatchRows
<1>6. {message'[i].to : i \in BatchRows(c)} = {message[i].to : i \in BatchRows(c)}
  BY <1>2 DEF BatchRows
<1>7. Cardinality(BatchRows(c)) = Cardinality(c.targets)
      /\ {message[i].to : i \in BatchRows(c)} = c.targets
  BY DEF BatchesAreWhole
<1>8. Cardinality(BatchRows(c)') = Cardinality(c.targets)
  BY <1>5, <1>7
<1>9. {message'[i].to : i \in BatchRows(c)'} = c.targets
  BY <1>5, <1>6, <1>7
<1> QED BY <1>1, <1>3, <1>8, <1>9

(* The key of a message that began an exchange is not taken a second time, if no row of    *)
(* its sender bears the key of what is added.                              *)
LEMMA KeyStays ==
    ASSUME TypeOK, KeysAreTaken, [Next]_vars, broadcast \subseteq broadcast',
           \A j \in DOMAIN message' \ DOMAIN message, l \in DOMAIN message :
                ~(message[l].from = message'[j].from /\ message[l].key = message'[j].key),
           \A c \in broadcast' \ broadcast, l \in DOMAIN message :
                ~(message[l].from = c.from /\ message[l].key = c.key),
           NEW i \in DOMAIN message
    PROVE  \/ message'[i].replyTo # NULL
           \/ \E c \in broadcast' : c.thread = message'[i].thread
           \/ /\ {j \in DOMAIN message' : /\ message'[j].from = message'[i].from
                                         /\ message'[j].key = message'[i].key} = {i}
              /\ {c \in broadcast' : /\ c.from = message'[i].from
                                     /\ c.key = message'[i].key} = {}
<1>1. \A j \in DOMAIN message : j \in DOMAIN message' /\ Kept(message[j], message'[j])
  BY RowsAreKept
<1>2. \A j \in DOMAIN message :
         /\ message'[j].from = message[j].from /\ message'[j].key = message[j].key
         /\ message'[j].thread = message[j].thread /\ message'[j].replyTo = message[j].replyTo
  BY <1>1 DEF Kept
<1> DEFINE m == message[i]
<1>3. CASE m.replyTo # NULL \/ \E c \in broadcast : c.thread = m.thread
  BY <1>2, <1>3
<1>4. CASE RowsOf(m.from, m.key) = {i} /\ BatchesOf(m.from, m.key) = {}
  <2>1. \A j \in DOMAIN message' :
           message'[j].from = m.from /\ message'[j].key = m.key <=> j = i
    BY <1>1, <1>2, <1>4 DEF RowsOf
  <2>2. \A c \in broadcast' : ~(c.from = m.from /\ c.key = m.key)
    BY <1>4 DEF BatchesOf
  <2>3. message'[i].from = m.from /\ message'[i].key = m.key /\ i \in DOMAIN message'
    BY <1>1, <1>2
  <2> HIDE DEF m
  <2> QED BY <2>1, <2>2, <2>3
<1> QED BY <1>3, <1>4 DEF KeysAreTaken

\* Nothing is added.
LEMMA NothingSentKeeps ==
    ASSUME TypeOK, RetryInv, [Next]_vars, NothingSent
    PROVE  RetryInv'
<1>1. /\ DOMAIN message' = DOMAIN message /\ broadcast' = broadcast
      /\ \A i \in DOMAIN message : Kept(message[i], message'[i])
  BY RowsAreKept DEF NothingSent
<1>2. ThreadsAreOld'
  BY <1>1 DEF RetryInv, ThreadsAreOld, Kept
<1>3. BatchesAreWhole'
  BY <1>1, BatchStays DEF RetryInv, BatchesAreWhole
<1>4. KeysAreTaken'
  BY <1>1, KeyStays DEF RetryInv, KeysAreTaken, RowsOf, BatchesOf
<1> QED BY <1>2, <1>3, <1>4 DEF RetryInv

\* A message with a key of its own, and in a thread of its own, is added.
LEMMA SendKeeps ==
    ASSUME TypeOK, RetryInv, NEW s \in Tasks, NEW r \in Tasks, NEW k \in Keys, NEW b \in Bodies,
           Send(s, r, k, b), [Next]_vars
    PROVE  RetryInv'
<1> DEFINE last == Len(message) + 1
<1>1. /\ DOMAIN message = 1..Len(message) /\ Len(message) \in Nat
      /\ DOMAIN message' = 1..last /\ broadcast' = broadcast
      /\ \A i \in DOMAIN message : message'[i] = message[i]
      /\ message'[last] = NewMessage(s, r, k, b, last, NULL)
  BY RowsAreKept, SendRows
<1>2. /\ message'[last].from = s /\ message'[last].key = k
      /\ message'[last].thread = last /\ message'[last].replyTo = NULL
  BY <1>1 DEF NewMessage
<1>3. DOMAIN message' \ DOMAIN message = {last} /\ last > Len(message)
  BY <1>1
<1>4. /\ \A l \in DOMAIN message : ~(message[l].from = s /\ message[l].key = k)
      /\ \A c \in broadcast : ~(c.from = s /\ c.key = k)
  BY DEF Send, SendAnswer, IsInsertable, IsFresh, RowsOf, BatchesOf
<1>5. ThreadsAreOld'
  BY <1>1, <1>2, <1>3 DEF RetryInv, ThreadsAreOld
<1> HIDE DEF last
<1>6. BatchesAreWhole'
  BY <1>1, <1>2, <1>3, BatchStays DEF RetryInv, BatchesAreWhole
<1>7. KeysAreTaken'
  <2>1. ASSUME NEW i \in DOMAIN message
        PROVE  \/ message'[i].replyTo # NULL
               \/ \E c \in broadcast' : c.thread = message'[i].thread
               \/ /\ {j \in DOMAIN message' : /\ message'[j].from = message'[i].from
                                             /\ message'[j].key = message'[i].key} = {i}
                  /\ {c \in broadcast' : /\ c.from = message'[i].from
                                         /\ c.key = message'[i].key} = {}
    BY <1>1, <1>2, <1>3, <1>4, KeyStays DEF RetryInv
  <2>2. {j \in DOMAIN message' : message'[j].from = s /\ message'[j].key = k} = {last}
        /\ {c \in broadcast' : c.from = s /\ c.key = k} = {}
    BY <1>1, <1>2, <1>3, <1>4
  <2> QED BY <1>2, <1>3, <2>1, <2>2 DEF KeysAreTaken, RowsOf, BatchesOf
<1> QED BY <1>5, <1>6, <1>7 DEF RetryInv

\* A reply is added, with a key of its own.
LEMMA ReplyKeeps ==
    ASSUME TypeOK, RetryInv, NEW i \in DOMAIN message, NEW k \in Keys, NEW b \in Bodies,
           Reply(i, k, b), [Next]_vars
    PROVE  RetryInv'
<1> DEFINE last == Len(message) + 1
           p == message[i]
<1>1. /\ DOMAIN message = 1..Len(message) /\ Len(message) \in Nat
      /\ DOMAIN message' = 1..last /\ broadcast' = broadcast
      /\ message'[last] = NewMessage(p.to, p.from, k, b, p.thread, i)
      /\ \A j \in DOMAIN message : message'[j].thread = message[j].thread
  BY RowsAreKept, ReplyRows DEF Kept
<1>2. /\ message'[last].from = p.to /\ message'[last].key = k
      /\ message'[last].thread = p.thread /\ message'[last].replyTo = i
  BY <1>1 DEF NewMessage
<1>3. DOMAIN message' \ DOMAIN message = {last} /\ i # NULL /\ i < last /\ p.thread \in Int
  <2>1. p \in Message /\ i \in 1..Len(message)
    BY <1>1, ElementOfSeq DEF TypeOK
  <2> QED BY <1>1, <2>1, MailboxAssumption DEF Message, Ordinals, NULL
<1>4. \A l \in DOMAIN message : ~(message[l].from = p.to /\ message[l].key = k)
  BY DEF Reply, IsInsertable, RowsOf
<1>5. ThreadsAreOld'
  BY <1>1, <1>2, <1>3 DEF RetryInv, ThreadsAreOld
<1> HIDE DEF last, p
<1>6. BatchesAreWhole'
  BY <1>1, <1>2, <1>3, BatchStays DEF RetryInv, BatchesAreWhole
<1>7. KeysAreTaken'
  <2>1. ASSUME NEW n \in DOMAIN message
        PROVE  \/ message'[n].replyTo # NULL
               \/ \E c \in broadcast' : c.thread = message'[n].thread
               \/ /\ {j \in DOMAIN message' : /\ message'[j].from = message'[n].from
                                             /\ message'[j].key = message'[n].key} = {n}
                  /\ {c \in broadcast' : /\ c.from = message'[n].from
                                         /\ c.key = message'[n].key} = {}
    BY <1>1, <1>2, <1>3, <1>4, KeyStays DEF RetryInv
  <2> QED BY <1>2, <1>3, <2>1 DEF KeysAreTaken, RowsOf, BatchesOf
<1> QED BY <1>5, <1>6, <1>7 DEF RetryInv

\* The messages of a broadcast are added: one to each target, since an order of the targets
\* that repeats none leaves none out.
LEMMA BroadcastKeeps ==
    ASSUME TypeOK, RetryInv, NEW s \in Tasks, NEW R \in SUBSET Tasks, NEW k \in Keys, NEW b \in Bodies,
           Broadcast(s, R, k, b), [Next]_vars
    PROVE  RetryInv'
<1> DEFINE first == Len(message) + 1
           size == Cardinality(R)
<1>13. PICK batch : batch = [from |-> s, key |-> k, targets |-> R, body |-> b, thread |-> first]
  OBVIOUS
<1>14. /\ size \in Nat /\ size >= 1 /\ DOMAIN message' = 1..Len(message) + size
       /\ \A i \in DOMAIN message : message'[i] = message[i]
       /\ broadcast' = broadcast \cup {batch}
  BY <1>13, BroadcastRows
<1>15. PICK q \in Orders(R) : \A j \in 1..size :
          message'[Len(message) + j] = NewMessage(s, q[j], k, b, first, NULL)
  BY BroadcastRows
<1>1. /\ size \in Nat /\ size >= 1 /\ DOMAIN message' = 1..Len(message) + size
      /\ \A i \in DOMAIN message : message'[i] = message[i]
      /\ broadcast' = broadcast \cup {batch}
      /\ q \in Orders(R)
      /\ \A j \in 1..size :
           message'[Len(message) + j] = NewMessage(s, q[j], k, b, first, NULL)
      /\ batch.from = s /\ batch.key = k /\ batch.targets = R /\ batch.thread = first
  BY <1>13, <1>14, <1>15
<1>2. DOMAIN message = 1..Len(message) /\ Len(message) \in Nat
  BY RowsAreKept
<1>3. q \in Injection(1..size, R) /\ q \in [1..size -> R]
  BY <1>1 DEF Orders, Injection, IsInjective
<1>4. \A r \in R : \E j \in 1..size : q[j] = r
  <2>1. IsFiniteSet(R)
    BY TasksAssumption, FS_Subset
  <2>2. Cardinality(1..size) = size
    BY <1>1, FS_Interval
  <2>3. q \in Surjection(1..size, R)
    BY <1>3, <2>1, <2>2, FS_Injection
  <2> QED BY <2>3 DEF Surjection
<1>5. /\ \A l \in DOMAIN message : ~(message[l].from = s /\ message[l].key = k)
      /\ \A c \in broadcast : ~(c.from = s /\ c.key = k)
  BY DEF Broadcast, BroadcastAnswer, IsFresh, RowsOf, BatchesOf
<1> HIDE DEF size
<1>6. ASSUME NEW i \in DOMAIN message' \ DOMAIN message
      PROVE  /\ i - Len(message) \in 1..size
             /\ message'[i] = NewMessage(s, q[i - Len(message)], k, b, first, NULL)
  <2>1. i - Len(message) \in 1..size /\ Len(message) + (i - Len(message)) = i
    BY <1>1, <1>2, <1>6
  <2> QED BY <1>1, <2>1
<1>7. \A i \in DOMAIN message' \ DOMAIN message :
         /\ message'[i].from = s /\ message'[i].key = k /\ message'[i].to = q[i - Len(message)]
         /\ message'[i].thread = first /\ message'[i].replyTo = NULL
  BY <1>6 DEF NewMessage
<1>8. ThreadsAreOld'
  BY <1>1, <1>2, <1>7 DEF RetryInv, ThreadsAreOld
<1>9. ASSUME NEW c \in broadcast
      PROVE  /\ c.thread <= Len(message')
             /\ Cardinality(BatchRows(c)') = Cardinality(c.targets)
             /\ {message'[i].to : i \in BatchRows(c)'} = c.targets
  <2>1. \A i \in DOMAIN message' \ DOMAIN message : message'[i].thread > Len(message)
    BY <1>2, <1>7
  <2> QED BY <2>1, BatchStays DEF RetryInv
<1>10. /\ batch.thread <= Len(message')
       /\ Cardinality(BatchRows(batch)') = Cardinality(batch.targets)
       /\ {message'[i].to : i \in BatchRows(batch)'} = batch.targets
  <2>1. ASSUME NEW i \in DOMAIN message PROVE message'[i].thread # first
    <3>1. message[i] \in Message
      BY <1>2, <2>1, ElementOfSeq DEF TypeOK
    <3>2. message[i].thread \in Int
      BY <3>1, MailboxAssumption DEF Message, Ordinals
    <3> QED BY <1>1, <1>2, <2>1, <3>2 DEF RetryInv, ThreadsAreOld
  <2>2. BatchRows(batch)' = DOMAIN message' \ DOMAIN message
    BY <1>1, <1>2, <1>7, <2>1 DEF BatchRows
  <2>3. DOMAIN message' \ DOMAIN message = first..Len(message) + size
    BY <1>1, <1>2
  <2>4. Cardinality(first..Len(message) + size) = size
    BY <1>1, <1>2, FS_Interval
  <2>5. {message'[i].to : i \in DOMAIN message' \ DOMAIN message} = R
    <3>1. \A i \in DOMAIN message' \ DOMAIN message : message'[i].to \in R
      BY <1>3, <1>6, <1>7
    <3>2. ASSUME NEW r \in R
          PROVE  \E i \in DOMAIN message' \ DOMAIN message : message'[i].to = r
      <4>1. PICK j \in 1..size : q[j] = r
        BY <1>4
      <4>2. Len(message) + j \in DOMAIN message' \ DOMAIN message
            /\ (Len(message) + j) - Len(message) = j
        BY <1>1, <1>2
      <4> QED BY <1>7, <4>1, <4>2
    <3> QED BY <3>1, <3>2
  <2>6. first <= Len(message')
    BY <1>1, <1>2, RowsAreKept
  <2>7. Cardinality(BatchRows(batch)') = Cardinality(R)
    BY <2>2, <2>3, <2>4 DEF size
  <2>8. {message'[i].to : i \in BatchRows(batch)'} = R
    BY <2>2, <2>5
  <2> QED BY <1>1, <2>6, <2>7, <2>8
<1> HIDE DEF first
<1>11. BatchesAreWhole'
  BY <1>1, <1>9, <1>10 DEF BatchesAreWhole
<1>12. KeysAreTaken'
  <2>1. ASSUME NEW i \in DOMAIN message
        PROVE  \/ message'[i].replyTo # NULL
               \/ \E c \in broadcast' : c.thread = message'[i].thread
               \/ /\ {j \in DOMAIN message' : /\ message'[j].from = message'[i].from
                                             /\ message'[j].key = message'[i].key} = {i}
                  /\ {c \in broadcast' : /\ c.from = message'[i].from
                                         /\ c.key = message'[i].key} = {}
    BY <1>1, <1>5, <1>7, KeyStays DEF RetryInv
  <2>2. \A i \in DOMAIN message' \ DOMAIN message : batch.thread = message'[i].thread
    BY <1>1, <1>7
  <2> QED BY <1>1, <2>1, <2>2 DEF KeysAreTaken, RowsOf, BatchesOf
<1> QED BY <1>8, <1>11, <1>12 DEF RetryInv

(* Whoever repeats a send or a broadcast with its key is answered with what it created,    *)
(* whatever became of it since and whatever else was sent.                 *)
THEOREM RetriesAreAnswered == Spec => []RetryIsAnswered
<1>1. Init => RetryInv
  BY DEF Init, RetryInv, ThreadsAreOld, BatchesAreWhole, KeysAreTaken
<1>2. ASSUME TypeOK, RetryInv, [Next]_vars
      PROVE  RetryInv'
  BY <1>2, StepSends, NothingSentKeeps, SendKeeps, BroadcastKeeps, ReplyKeeps DEF Exchange
<1>3. RetryInv => RetryIsAnswered
  <2> SUFFICES ASSUME RetryInv PROVE RetryIsAnswered
    OBVIOUS
  <2>1. ASSUME NEW c \in broadcast
        PROVE  BroadcastAnswer(c.from, c.targets, c.key, c.body) = "replayed"
    BY DEF RetryInv, BatchesAreWhole, BroadcastAnswer, BatchesOf, IsFresh
  <2>2. ASSUME NEW i \in DOMAIN message, message[i].replyTo = NULL,
               RowsOf(message[i].from, message[i].key) = {i},
               BatchesOf(message[i].from, message[i].key) = {}
        PROVE  SendAnswer(message[i].from, message[i].to, message[i].key, message[i].body) = "replayed"
    BY <2>2, FS_Singleton DEF SendAnswer, IsFresh
  <2> QED BY <2>1, <2>2 DEF RetryInv, KeysAreTaken, RetryIsAnswered
<1> QED BY TypeCorrect, <1>1, <1>2, <1>3, PTL DEF Spec
=============================================================================
