------------------------ MODULE RuntimeSupervisorProofs ------------------------
(***************************************************************************)
(* Proofs about RuntimeSupervisor, for any instances and any sessions: what*)
(* a recovery commits is what is published, and no Runtime that is         *)
(* published is stopped by a recovery whose ledger has not been moved on.  *)
(***************************************************************************)
EXTENDS RuntimeSupervisor, SequenceTheorems, WellFoundedInduction, TLAPS

USE InstancesAssumption, BoundsAssumption

-----------------------------------------------------------------------------
(* The inductive invariant.                                                *)

Underway == Preparing \cup Publishing

\* The phases in which a driver may publish.
Moving == {"publishing", "rolling-back"}

Known(s) == {s.active.inst, s.previous.inst, s.candidate.inst}

(* The Runtimes of a state are of different instances.                     *)
Sound(s) ==
    /\ s.active.inst # s.previous.inst
    /\ s.active.inst # s.candidate.inst
    /\ s.previous.inst = s.candidate.inst => s.previous.inst = None
    /\ s.phase \in Underway => s.candidate.inst # None
    /\ s.phase = "rolling-back" => s.previous.inst # None

StatesAreSound == Sound(head) /\ Sound(driver.view) /\ Sound(recovery.source)

(* An instance that was never staged is named nowhere.                     *)
UnbornIsUnknown ==
    \A i \in Instances : runtime[i].up = "unborn" =>
        /\ i \notin Known(head) \cup Known(driver.view) \cup Known(recovery.source)
        /\ i # publication.inst /\ i # driver.did.inst /\ i # First

HeadIsKnown ==
    /\ recovery.headFresh => recovery.step # "idle" /\ recovery.source = head
    /\ driver.headFresh => driver.driving /\ driver.view = head

(* A driver that may still publish has the head, or there is no way on.    *)
PublicationIsKnown ==
    /\ recovery.pubFresh => recovery.pub = publication /\ recovery.sawPublication
    /\ driver.rebound => driver.did # Nobody
    /\ driver.pubFresh =>
          /\ driver.view.phase \in Moving
          /\ driver.headFresh \/ head.phase = "needs-attention"

(* Nobody but the driver of its transition publishes a candidate.          *)
CandidateIsNew ==
    head.phase \in Underway =>
        /\ head.candidate.inst # First
        /\ head.candidate.inst # recovery.source.active.inst
        /\ head.candidate.inst # recovery.source.previous.inst
        /\ publication.inst = head.candidate.inst =>
              head.phase = "publishing" /\ ~driver.pubFresh

(* A recovery whose head still stands loses sight of the publication only  *)
(* to the driver of a transition, and not after that driver had published. *)
LostToDriver ==
    recovery.headFresh /\ recovery.sawPublication /\ ~recovery.pubFresh =>
        /\ head.phase \in Moving \cup {"needs-attention"}
        /\ head.phase = "publishing" => recovery.pub.inst # head.candidate.inst

Has(actions, kind) == \E k \in 1 .. Len(actions) : actions[k].kind = kind

Done(kind) ==
    \E k \in 1 .. Len(recovery.plan.actions) :
        k < recovery.index /\ recovery.plan.actions[k].kind = kind

(* What is published is the active Runtime of the plan; what is stopped is *)
(* not, and something else has been published first unless a candidate is  *)
(* discarded; the sessions follow the last publication.                    *)
InOrder(s, next, actions) ==
    \A k \in 1 .. Len(actions) :
        /\ actions[k].kind = "publish" =>
              /\ actions[k].on = next.active
              /\ actions[k].on.inst = s.active.inst \/ actions[k].on.inst = s.previous.inst
        /\ actions[k].kind = "stop" =>
              /\ actions[k].on.inst # next.active.inst
              /\ \/ \E j \in 1 .. Len(actions) : j < k /\ actions[j].kind = "publish"
                 \/ s.phase \in Preparing /\ actions[k].on = s.candidate
        /\ actions[k].kind = "rebind" =>
              \A j \in 1 .. Len(actions) : actions[j].kind = "publish" => j < k

Ending == Publishing \cup {"rolling-back"}

Fits(s, p) ==
    /\ p \in Plan
    /\ Sound(p.next)
    /\ p.next.phase \in {"stable", "candidate-active", "needs-attention"}
    /\ Known(p.next) \subseteq Known(s) \cup {None}
    /\ InOrder(s, p.next, p.actions)
    /\ s.phase \in Ending /\ p.outcome # "needs-attention" => Has(p.actions, "rebind")
    /\ p.outcome = "needs-attention" =>
          p.next.phase = "needs-attention" /\ ~Has(p.actions, "rebind")

(* A plan that publishes nothing keeps what is published.                  *)
Keeps(s, pub, p) ==
    ~Has(p.actions, "publish") /\ p.outcome # "needs-attention" =>
        /\ pub = p.next.active
        /\ s.phase # "rolling-back"
        /\ s.phase = "publishing" => pub.inst = s.candidate.inst

PlanIsSound ==
    /\ recovery.step # "acting" => recovery.index = 1
    /\ recovery.step = "acting" =>
          Fits(recovery.source, recovery.plan) /\ recovery.sawPublication

PlanIsFollowed ==
    recovery.step = "acting" /\ recovery.headFresh =>
        /\ Done("publish") =>
              recovery.pubFresh /\ ~driver.pubFresh /\ recovery.pub = recovery.plan.next.active
        /\ Keeps(recovery.source, recovery.pub, recovery.plan)
        /\ recovery.source.phase \in Ending /\ Done("rebind") => bound = registered

IInv ==
    /\ TypeOK
    /\ StatesAreSound
    /\ UnbornIsUnknown
    /\ HeadIsKnown
    /\ PublicationIsKnown
    /\ CandidateIsNew
    /\ LostToDriver
    /\ PlanIsSound
    /\ PlanIsFollowed

-----------------------------------------------------------------------------
(* Types.                                                                  *)

(* A set of generations has a newest one.                                  *)
LEMMA NewestExists ==
    ASSUME NEW T \in SUBSET Generation, T # {}
    PROVE  \E g \in T : \A h \in T : h <= g
<1> DEFINE R == {ss \in Nat \X Nat : ss[1] < ss[2]}
           U == {n \in Nat : \E g \in T : n = MaxGeneration - g}
<1>1. IsWellFoundedOn(R, Nat)
  BY NatLessThanWellFounded DEF OpToRel
<1>2. U # {} /\ U \subseteq Nat
  <2>1. PICK g \in T : TRUE
    OBVIOUS
  <2>2. g \in T /\ MaxGeneration - g \in Nat
    BY <2>1 DEF Generation
  <2> QED BY <2>2
<1>3. PICK x \in U : \A y \in U : <<y, x>> \notin R
  <2> HIDE DEF R, U
  <2> QED BY <1>1, <1>2, WFMin
<1>4. PICK g \in T : x = MaxGeneration - g
  BY <1>3
<1>5. ASSUME NEW h \in T  PROVE h <= g
  <2>1. g \in 0 .. MaxGeneration /\ h \in 0 .. MaxGeneration
    BY DEF Generation
  <2> DEFINE y == MaxGeneration - h
  <2>2. y \in U /\ y \in Nat
    BY <2>1
  <2>3. ~(y < x)
    BY <1>3, <2>2, <1>2
  <2> QED BY <2>1, <2>3, <1>4
<1> QED BY <1>5

LEMMA ObservedTypes ==
    ASSUME NEW obs \in [Instances -> Process], NEW id \in Slot
    PROVE  /\ Observed(obs, id) \in Slot
           /\ Observed(obs, id).inst = id.inst
           /\ id \in Identity => Observed(obs, id) \in Identity
BY DEF Observed, Seen, Slot, Identity, Nobody, Process

LEMMA NewestTypes ==
    ASSUME NEW state \in State, NEW obs \in [Instances -> Process], NEW pub \in Slot
    PROVE  /\ Newest(state, obs, pub) \in Generation
           /\ pub.gen <= Newest(state, obs, pub)
<1> DEFINE T == {state.active.gen, state.previous.gen, state.candidate.gen, pub.gen}
                   \cup {obs[i].gen : i \in {j \in Instances : Alive(obs[j])}}
<1>1. T \in SUBSET Generation
  BY DEF State, Slot, Identity, Nobody, Process, Generation
<1>2. pub.gen \in T
  OBVIOUS
<1>3. \E g \in T : \A h \in T : h <= g
  <2> HIDE DEF T
  <2> QED BY <1>1, <1>2, NewestExists
<1> DEFINE g == CHOOSE x \in T : \A h \in T : h <= x
<1>4. g \in T /\ \A h \in T : h <= g
  <2> HIDE DEF T
  <2> QED BY <1>3
<1>5. Newest(state, obs, pub) = g
  BY DEF Newest
<1> QED BY <1>1, <1>2, <1>4, <1>5
-----------------------------------------------------------------------------
(* The planner.                                                            *)

LEMMA JoinedWithNone ==
    ASSUME NEW S, NEW s \in Seq(S)
    PROVE  <<>> \o s = s /\ s \o <<>> = s
BY ConcatEmptySeq

LEMMA JoinedTwo ==
    ASSUME NEW a, NEW b
    PROVE  <<a>> \o <<b>> = <<a, b>>
<1> DEFINE S == {a, b}
           x == <<a>>
           y == <<b>>
           z == <<a, b>>
<1>1. x \in Seq(S) /\ y \in Seq(S) /\ z \in Seq(S)
  OBVIOUS
<1>2. /\ Len(x) = 1 /\ Len(y) = 1 /\ Len(z) = 2
      /\ x[1] = a
      /\ y[1] = b
      /\ z[1] = a /\ z[2] = b
  OBVIOUS
<1> HIDE DEF S, x, y, z
<1>3. /\ x \o y \in Seq(S) /\ Len(x \o y) = Len(x) + Len(y)
      /\ \A i \in 1 .. Len(x) + Len(y) : (x \o y)[i] = IF i <= Len(x) THEN x[i] ELSE y[i - Len(x)]
  BY <1>1, ConcatProperties
<1>4. \A i \in 1 .. 2 : (x \o y)[i] = z[i]
  BY <1>2, <1>3
<1>5. Len(x \o y) = Len(z)
  BY <1>2, <1>3
<1>6. x \o y = z
  BY <1>1, <1>2, <1>3, <1>4, <1>5, SeqEqual
<1> QED BY <1>6 DEF x, y, z

LEMMA JoinedBefore ==
    ASSUME NEW a, NEW b, NEW c, NEW d
    PROVE  <<a>> \o <<b, c, d>> = <<a, b, c, d>>
<1> DEFINE S == {a, b, c, d}
           x == <<a>>
           y == <<b, c, d>>
           z == <<a, b, c, d>>
<1>1. x \in Seq(S) /\ y \in Seq(S) /\ z \in Seq(S)
  OBVIOUS
<1>2. /\ Len(x) = 1 /\ Len(y) = 3 /\ Len(z) = 4
      /\ x[1] = a
      /\ y[1] = b /\ y[2] = c /\ y[3] = d
      /\ z[1] = a /\ z[2] = b /\ z[3] = c /\ z[4] = d
  OBVIOUS
<1> HIDE DEF S, x, y, z
<1>3. /\ x \o y \in Seq(S) /\ Len(x \o y) = Len(x) + Len(y)
      /\ \A i \in 1 .. Len(x) + Len(y) : (x \o y)[i] = IF i <= Len(x) THEN x[i] ELSE y[i - Len(x)]
  BY <1>1, ConcatProperties
<1>4. \A i \in 1 .. 4 : (x \o y)[i] = z[i]
  BY <1>2, <1>3
<1>5. Len(x \o y) = Len(z)
  BY <1>2, <1>3
<1>6. x \o y = z
  BY <1>1, <1>2, <1>3, <1>4, <1>5, SeqEqual
<1> QED BY <1>6 DEF x, y, z

LEMMA JoinedAfter ==
    ASSUME NEW a, NEW b, NEW c, NEW d
    PROVE  <<a, b, c>> \o <<d>> = <<a, b, c, d>>
<1> DEFINE S == {a, b, c, d}
           x == <<a, b, c>>
           y == <<d>>
           z == <<a, b, c, d>>
<1>1. x \in Seq(S) /\ y \in Seq(S) /\ z \in Seq(S)
  OBVIOUS
<1>2. /\ Len(x) = 3 /\ Len(y) = 1 /\ Len(z) = 4
      /\ x[1] = a /\ x[2] = b /\ x[3] = c
      /\ y[1] = d
      /\ z[1] = a /\ z[2] = b /\ z[3] = c /\ z[4] = d
  OBVIOUS
<1> HIDE DEF S, x, y, z
<1>3. /\ x \o y \in Seq(S) /\ Len(x \o y) = Len(x) + Len(y)
      /\ \A i \in 1 .. Len(x) + Len(y) : (x \o y)[i] = IF i <= Len(x) THEN x[i] ELSE y[i - Len(x)]
  BY <1>1, ConcatProperties
<1>4. \A i \in 1 .. 4 : (x \o y)[i] = z[i]
  BY <1>2, <1>3
<1>5. Len(x \o y) = Len(z)
  BY <1>2, <1>3
<1>6. x \o y = z
  BY <1>1, <1>2, <1>3, <1>4, <1>5, SeqEqual
<1> QED BY <1>6 DEF x, y, z

LEMMA DoTypes ==
    ASSUME NEW id \in Slot, NEW from \in Generation, NEW kind \in
              {"hold", "stop", "resume", "publish", "rebind", "canary", "mark"}
    PROVE  /\ Do(kind, id, from) \in Action
           /\ Do(kind, id, from).kind = kind
           /\ Do(kind, id, from).on = id
BY DEF Do, Action

LEMMA SlotTypes ==
    Nobody \in Slot /\ 0 \in Generation /\ Nobody.inst = None /\ Identity \subseteq Slot
BY DEF Slot, Nobody, Generation

LEMMA StateTypes ==
    ASSUME NEW s \in State
    PROVE  /\ s.phase \in Phases /\ s.active \in Identity
           /\ s.previous \in Slot /\ s.candidate \in Slot
           /\ s.active \in Slot
           /\ s.active.inst \in Instances /\ s.active.inst # None
           /\ s.previous.inst # None => s.previous \in Identity
           /\ s.candidate.inst # None => s.candidate \in Identity
BY DEF State, Slot, Identity, Nobody

LEMMA AttentionFits ==
    ASSUME NEW s \in State, Sound(s)
    PROVE  Fits(s, Attention(s)) /\ \A pub : Keeps(s, pub, Attention(s))
<1> DEFINE p == Attention(s)
           a == Do("mark", Nobody, 0)
<1>1. a \in Action /\ a.kind = "mark"
  BY DoTypes, SlotTypes
<1>2. /\ p.actions = <<a>>
      /\ p.outcome = "needs-attention"
      /\ p.next = [s EXCEPT !.phase = "needs-attention", !.candidate = Nobody]
  BY DEF Attention
<1> HIDE DEF a
<1>3. <<a>> \in Seq(Action) /\ Len(<<a>>) = 1 /\ <<a>>[1] = a
  BY <1>1
<1>4. p.next \in State /\ p.next.phase = "needs-attention"
  BY <1>2, SlotTypes DEF State, Phases
<1>5. p \in Plan
  BY <1>2, <1>3, <1>4 DEF Attention, Plan, Outcomes, a
<1>6. Sound(p.next) /\ Known(p.next) \subseteq Known(s) \cup {None}
  BY <1>2, SlotTypes, StateTypes DEF Sound, Known, State, Underway, Preparing, Publishing
<1>7. InOrder(s, p.next, p.actions)
  BY <1>1, <1>2, <1>3 DEF InOrder
<1>8. ~Has(p.actions, "rebind")
  BY <1>1, <1>2, <1>3 DEF Has
<1> QED BY <1>2, <1>4, <1>5, <1>6, <1>7, <1>8 DEF Fits, Keeps

(* A list of actions with which a plan may be carried out.                 *)
Listed(s, next, actions) == actions \in Seq(Action) /\ InOrder(s, next, actions)

LEMMA ShortLists ==
    ASSUME NEW s \in State, NEW next \in State, NEW id \in Slot
    PROVE  /\ Listed(s, next, Hold) /\ ~Has(Hold, "publish")
           /\ Listed(s, next, <<Do("canary", id, 0)>>) /\ ~Has(<<Do("canary", id, 0)>>, "publish")
           /\ Listed(s, next, <<Do("rebind", id, 0), Do("canary", id, 0)>>)
           /\ ~Has(<<Do("rebind", id, 0), Do("canary", id, 0)>>, "publish")
           /\ Has(<<Do("rebind", id, 0), Do("canary", id, 0)>>, "rebind")
           /\ id.inst # next.active.inst /\ s.phase \in Preparing /\ id = s.candidate =>
                /\ Listed(s, next, <<Do("stop", id, 0), Do("hold", Nobody, 0)>>)
                /\ ~Has(<<Do("stop", id, 0), Do("hold", Nobody, 0)>>, "publish")
<1> DEFINE h == Do("hold", Nobody, 0)
           c == Do("canary", id, 0)
           r == Do("rebind", id, 0)
           t == Do("stop", id, 0)
<1>1. /\ h \in Action /\ h.kind = "hold"
      /\ c \in Action /\ c.kind = "canary"
      /\ r \in Action /\ r.kind = "rebind"
      /\ t \in Action /\ t.kind = "stop" /\ t.on = id
  BY DoTypes, SlotTypes
<1>2. Hold = <<h>>
  BY DEF Hold
<1> HIDE DEF h, c, r, t
<1>3. /\ <<h>> \in Seq(Action) /\ Len(<<h>>) = 1 /\ <<h>>[1] = h
      /\ <<c>> \in Seq(Action) /\ Len(<<c>>) = 1 /\ <<c>>[1] = c
      /\ <<r, c>> \in Seq(Action) /\ Len(<<r, c>>) = 2 /\ <<r, c>>[1] = r /\ <<r, c>>[2] = c
      /\ <<t, h>> \in Seq(Action) /\ Len(<<t, h>>) = 2 /\ <<t, h>>[1] = t /\ <<t, h>>[2] = h
  BY <1>1
<1>4. Listed(s, next, <<h>>) /\ ~Has(<<h>>, "publish")
  BY <1>1, <1>3 DEF Listed, InOrder, Has
<1>5. Listed(s, next, <<c>>) /\ ~Has(<<c>>, "publish")
  BY <1>1, <1>3 DEF Listed, InOrder, Has
<1>6. Listed(s, next, <<r, c>>) /\ ~Has(<<r, c>>, "publish") /\ Has(<<r, c>>, "rebind")
  BY <1>1, <1>3 DEF Listed, InOrder, Has
<1>7. ASSUME id.inst # next.active.inst, s.phase \in Preparing, id = s.candidate
      PROVE  Listed(s, next, <<t, h>>) /\ ~Has(<<t, h>>, "publish")
  BY <1>1, <1>3, <1>7 DEF Listed, InOrder, Has
<1> QED BY <1>2, <1>4, <1>5, <1>6, <1>7 DEF h, c, r, t

LEMMA Restoring ==
    ASSUME NEW s \in State, NEW next \in State, NEW from \in Identity, NEW id \in Slot,
           NEW restored \in Identity, restored = next.active,
           restored.inst = s.active.inst \/ restored.inst = s.previous.inst
    PROVE  LET list == Restore(from, restored)
               before == <<Do("stop", id, 0)>> \o list
               after == list \o <<Do("stop", id, 0)>>
           IN  /\ Listed(s, next, list) /\ Has(list, "publish") /\ Has(list, "rebind")
               /\ id.inst # restored.inst =>
                    Listed(s, next, after) /\ Has(after, "publish") /\ Has(after, "rebind")
               /\ id.inst # restored.inst /\ s.phase \in Preparing /\ id = s.candidate =>
                    Listed(s, next, before) /\ Has(before, "publish") /\ Has(before, "rebind")
<1> DEFINE r == Do("resume", restored, from.gen)
           p == Do("publish", restored, 0)
           b == Do("rebind", restored, 0)
           t == Do("stop", id, 0)
<1>1. /\ r \in Action /\ r.kind = "resume"
      /\ p \in Action /\ p.kind = "publish" /\ p.on = restored
      /\ b \in Action /\ b.kind = "rebind"
      /\ t \in Action /\ t.kind = "stop" /\ t.on = id
  <2>1. from.gen \in Generation
    BY DEF Identity
  <2> QED BY <2>1, DoTypes, SlotTypes
<1>2. Restore(from, restored) = <<r, p, b>>
  BY DEF Restore
<1> HIDE DEF r, p, b, t
<1>3. /\ <<r, p, b>> \in Seq(Action) /\ Len(<<r, p, b>>) = 3
      /\ <<r, p, b>>[1] = r /\ <<r, p, b>>[2] = p /\ <<r, p, b>>[3] = b
  BY <1>1
<1>4. /\ <<t, r, p, b>> \in Seq(Action) /\ Len(<<t, r, p, b>>) = 4 /\ <<t, r, p, b>>[1] = t
      /\ <<t, r, p, b>>[2] = r /\ <<t, r, p, b>>[3] = p /\ <<t, r, p, b>>[4] = b
  BY <1>1
<1>5. /\ <<r, p, b, t>> \in Seq(Action) /\ Len(<<r, p, b, t>>) = 4 /\ <<r, p, b, t>>[1] = r
      /\ <<r, p, b, t>>[2] = p /\ <<r, p, b, t>>[3] = b /\ <<r, p, b, t>>[4] = t
  BY <1>1
<1>6. Listed(s, next, <<r, p, b>>) /\ Has(<<r, p, b>>, "publish") /\ Has(<<r, p, b>>, "rebind")
  BY <1>1, <1>3 DEF Listed, InOrder, Has
<1>7. ASSUME id.inst # restored.inst
      PROVE  LET list == <<r, p, b, t>> IN
             Listed(s, next, list) /\ Has(list, "publish") /\ Has(list, "rebind")
  BY <1>1, <1>5, <1>7 DEF Listed, InOrder, Has
<1>8. ASSUME id.inst # restored.inst, s.phase \in Preparing, id = s.candidate
      PROVE  LET list == <<t, r, p, b>> IN
             Listed(s, next, list) /\ Has(list, "publish") /\ Has(list, "rebind")
  BY <1>1, <1>4, <1>8 DEF Listed, InOrder, Has
<1>9. <<t>> \o <<r, p, b>> = <<t, r, p, b>>
  BY JoinedBefore
<1>10. <<r, p, b>> \o <<t>> = <<r, p, b, t>>
  BY JoinedAfter
<1> QED BY <1>2, <1>6, <1>7, <1>8, <1>9, <1>10 DEF t

LEMMA StopIsShort ==
    ASSUME NEW obs \in [Instances -> Process], NEW id \in Slot
    PROVE  Stop(obs, id) = <<>> \/ Stop(obs, id) = <<Do("stop", id, 0)>>
BY DEF Stop

(* The lists a plan is made of, whether or not the loser is to be stopped. *)
LEMMA PlannedLists ==
    ASSUME NEW s \in State, NEW next \in State, NEW obs \in [Instances -> Process],
           NEW from \in Identity, NEW id \in Slot,
           NEW restored \in Identity, restored = next.active,
           restored.inst = s.active.inst \/ restored.inst = s.previous.inst,
           id.inst # restored.inst
    PROVE  LET list == Restore(from, restored)
               after == list \o Stop(obs, id)
               before == Stop(obs, id) \o list
           IN  /\ Listed(s, next, after) /\ Has(after, "publish") /\ Has(after, "rebind")
               /\ s.phase \in Preparing /\ id = s.candidate =>
                    Listed(s, next, before) /\ Has(before, "publish") /\ Has(before, "rebind")
<1> DEFINE list == Restore(from, restored)
<1>1. Listed(s, next, list)
  BY Restoring
<1>2. list \o <<>> = list /\ <<>> \o list = list
  <2> HIDE DEF list
  <2> QED BY <1>1, JoinedWithNone DEF Listed
<1> HIDE DEF list
<1>3. CASE Stop(obs, id) = <<>>
  <2>1. Listed(s, next, list) /\ Has(list, "publish") /\ Has(list, "rebind")
    BY Restoring DEF list
  <2> QED BY <1>2, <1>3, <2>1 DEF list
<1>4. CASE Stop(obs, id) = <<Do("stop", id, 0)>>
  BY <1>4, Restoring DEF list
<1> QED BY <1>3, <1>4, StopIsShort DEF list

LEMMA DiscardedLists ==
    ASSUME NEW s \in State, NEW next \in State, NEW obs \in [Instances -> Process],
           NEW id \in Slot, id.inst # next.active.inst, s.phase \in Preparing, id = s.candidate
    PROVE  Listed(s, next, Stop(obs, id) \o Hold) /\ ~Has(Stop(obs, id) \o Hold, "publish")
<1>1. CASE Stop(obs, id) = <<>>
  <2>1. <<>> \o Hold = Hold
    BY ShortLists, JoinedWithNone DEF Listed
  <2> QED BY <1>1, <2>1, ShortLists
<1>2. CASE Stop(obs, id) = <<Do("stop", id, 0)>>
  <2>1. <<Do("stop", id, 0)>> \o Hold = <<Do("stop", id, 0), Do("hold", Nobody, 0)>>
    BY JoinedTwo DEF Hold
  <2> QED BY <1>2, <2>1, ShortLists
<1> QED BY <1>1, <1>2, StopIsShort

(* What a plan of each phase is, for a candidate generation gen that is new. *)
Planned(s, pub, p) == Fits(s, p) /\ Keeps(s, pub, p)

LEMMA RollbackFits ==
    ASSUME NEW s \in State, Sound(s), NEW obs \in [Instances -> Process], NEW gen \in Generation,
           s.previous.inst # None, NEW pub
    PROVE  Planned(s, pub, Rollback(s, obs, gen))
<1> DEFINE target == Observed(obs, s.previous)
           restored == [target EXCEPT !.gen = gen]
           next == Recovered(s, restored, Nobody)
           p == Rollback(s, obs, gen)
<1>1. target \in Identity /\ target.inst = s.previous.inst
  BY StateTypes, SlotTypes, ObservedTypes
<1>2. restored \in Identity /\ restored.inst = s.previous.inst
  BY <1>1 DEF Identity
<1>3. next \in State /\ next.active = restored /\ next.phase = "stable"
      /\ next.previous = Nobody /\ next.candidate = Nobody
  BY <1>2, SlotTypes DEF Recovered, State, Phases
<1>4. p = [outcome |-> "rolled-back", next |-> next,
           actions |-> Restore(target, restored) \o Stop(obs, s.active)]
  BY DEF Rollback
<1> HIDE DEF target, restored, next, p
<1>5. s.active.inst # restored.inst /\ s.active \in Slot
  BY <1>2, StateTypes DEF Sound
<1>6. Listed(s, next, p.actions) /\ Has(p.actions, "publish") /\ Has(p.actions, "rebind")
  BY <1>1, <1>2, <1>3, <1>4, <1>5, PlannedLists
<1>7. p \in Plan
  BY <1>3, <1>4, <1>6 DEF Plan, Outcomes, Listed
<1>8. Sound(next) /\ Known(next) \subseteq Known(s) \cup {None}
  BY <1>2, <1>3, SlotTypes, StateTypes DEF Sound, Known, Underway, Preparing, Publishing
<1>9. p.next = next /\ p.outcome = "rolled-back"
  BY <1>4
<1> QED BY <1>3, <1>6, <1>7, <1>8, <1>9 DEF Planned, Fits, Keeps, Listed, p

LEMMA RepublishFits ==
    ASSUME NEW s \in State, Sound(s), NEW obs \in [Instances -> Process], NEW gen \in Generation,
           NEW pub,
           NEW before, NEW after,
           \/ before = <<>> /\ after = <<>>
           \/ before = Stop(obs, s.candidate) /\ after = <<>> /\ s.phase \in Preparing
           \/ before = <<>> /\ after = Stop(obs, s.candidate)
    PROVE  Planned(s, pub, Republish(s, Observed(obs, s.active), Observed(obs, s.previous), gen,
                                     before, after))
<1> DEFINE active == Observed(obs, s.active)
           previous == Observed(obs, s.previous)
           restored == [active EXCEPT !.gen = gen]
           next == Recovered(s, restored, previous)
           list == Restore(active, restored)
           p == Republish(s, active, previous, gen, before, after)
<1>1. /\ active \in Identity /\ active.inst = s.active.inst
      /\ previous \in Slot /\ previous.inst = s.previous.inst
  BY StateTypes, SlotTypes, ObservedTypes
<1>2. restored \in Identity /\ restored.inst = s.active.inst
  BY <1>1 DEF Identity
<1>3. next \in State /\ next.active = restored /\ next.phase = "stable"
      /\ next.previous = previous /\ next.candidate = Nobody
  BY <1>1, <1>2, SlotTypes DEF Recovered, State, Phases
<1>4. p = [outcome |-> "restored-active", next |-> next, actions |-> before \o list \o after]
  BY DEF Republish
<1> HIDE DEF active, previous, restored, next, p
<1>5. s.candidate.inst # restored.inst /\ s.candidate \in Slot
  BY <1>2, StateTypes DEF Sound
<1>6. Listed(s, next, list) /\ Has(list, "publish") /\ Has(list, "rebind")
  BY <1>1, <1>2, <1>3, <1>5, Restoring
<1>7. Listed(s, next, p.actions) /\ Has(p.actions, "publish") /\ Has(p.actions, "rebind")
  <2> DEFINE stop == Stop(obs, s.candidate)
  <2>1. <<>> \o list = list /\ list \o <<>> = list
    BY <1>6, JoinedWithNone DEF Listed
  <2>2. /\ Listed(s, next, list \o stop) /\ Has(list \o stop, "publish")
        /\ Has(list \o stop, "rebind")
    BY <1>1, <1>2, <1>3, <1>5, PlannedLists
  <2>3. s.phase \in Preparing =>
          /\ Listed(s, next, stop \o list) /\ Has(stop \o list, "publish")
          /\ Has(stop \o list, "rebind")
    BY <1>1, <1>2, <1>3, <1>5, PlannedLists
  <2>4. s.phase \in Preparing => (stop \o list) \o <<>> = stop \o list
    BY <2>3, JoinedWithNone DEF Listed
  <2> HIDE DEF list, stop
  <2>5. CASE before = <<>> /\ after = <<>>
    BY <2>1, <2>5, <1>4, <1>6
  <2>6. CASE before = stop /\ after = <<>> /\ s.phase \in Preparing
    BY <2>3, <2>4, <2>6, <1>4
  <2>7. CASE before = <<>> /\ after = stop
    BY <2>1, <2>2, <2>7, <1>4
  <2> QED BY <2>5, <2>6, <2>7 DEF stop
<1>8. p \in Plan
  BY <1>3, <1>4, <1>7 DEF Plan, Outcomes, Listed
<1>9. Sound(next) /\ Known(next) \subseteq Known(s) \cup {None}
  BY <1>1, <1>2, <1>3, SlotTypes, StateTypes DEF Sound, Known, Underway, Preparing, Publishing
<1>10. p.next = next /\ p.outcome = "restored-active"
  BY <1>4
<1> QED BY <1>3, <1>7, <1>8, <1>9, <1>10 DEF Planned, Fits, Keeps, Listed, p, active, previous

(* The state that is recovered with the Runtimes that were observed.       *)
LEMMA RecoveredIsSound ==
    ASSUME NEW s \in State, Sound(s), NEW obs \in [Instances -> Process]
    PROVE  LET next == Recovered(s, Observed(obs, s.active), Observed(obs, s.previous)) IN
           /\ next \in State /\ Sound(next) /\ next.phase = "stable"
           /\ next.active = Observed(obs, s.active)
           /\ Known(next) \subseteq Known(s) \cup {None}
           /\ next.active.inst = s.active.inst
<1> DEFINE active == Observed(obs, s.active)
           previous == Observed(obs, s.previous)
<1>1. /\ active \in Identity /\ active.inst = s.active.inst
      /\ previous \in Slot /\ previous.inst = s.previous.inst
  BY StateTypes, SlotTypes, ObservedTypes
<1> HIDE DEF active, previous
<1>2. LET next == Recovered(s, active, previous) IN
      /\ next \in State /\ next.active = active /\ next.phase = "stable"
      /\ next.previous = previous /\ next.candidate = Nobody
  BY <1>1, SlotTypes DEF Recovered, State, Phases
<1>3. LET next == Recovered(s, active, previous) IN
      Sound(next) /\ Known(next) \subseteq Known(s) \cup {None}
  BY <1>1, <1>2, SlotTypes, StateTypes DEF Sound, Known, Underway, Preparing, Publishing
<1> QED BY <1>1, <1>2, <1>3 DEF active, previous

LEMMA StableFits ==
    ASSUME NEW s \in State, Sound(s), NEW obs \in [Instances -> Process], NEW gen \in Generation,
           NEW pub, s.phase = "stable"
    PROVE  Planned(s, pub, PlanStable(s, obs, pub, gen))
<1> DEFINE active == Observed(obs, s.active)
           previous == Observed(obs, s.previous)
           next == Recovered(s, active, previous)
           held == [outcome |-> "held", next |-> next, actions |-> Hold]
<1>1. pub = active => Planned(s, pub, held)
  <2>1. Listed(s, next, Hold) /\ ~Has(Hold, "publish")
    BY RecoveredIsSound, ShortLists, SlotTypes
  <2>2. held \in Plan
    BY <2>1, RecoveredIsSound DEF Plan, Outcomes, Listed
  <2>3. Fits(s, held)
    BY <2>1, <2>2, RecoveredIsSound DEF Fits, Listed, Ending, Publishing
  <2> QED BY <2>3, RecoveredIsSound DEF Keeps, Planned
<1>2. Planned(s, pub, Republish(s, active, previous, gen, <<>>, <<>>))
  BY RepublishFits
<1>3. Healthy(obs, s.previous) => Planned(s, pub, Rollback(s, obs, gen))
  BY RollbackFits DEF Healthy
<1>4. Planned(s, pub, Attention(s))
  BY AttentionFits DEF Planned
<1> QED BY <1>1, <1>2, <1>3, <1>4 DEF PlanStable

LEMMA PreparingFits ==
    ASSUME NEW s \in State, Sound(s), NEW obs \in [Instances -> Process], NEW gen \in Generation,
           NEW pub, s.phase \in Preparing
    PROVE  Planned(s, pub, PlanPreparing(s, obs, pub, gen))
<1> DEFINE active == Observed(obs, s.active)
           previous == Observed(obs, s.previous)
           next == Recovered(s, active, previous)
           discard == Stop(obs, s.candidate)
           back == [outcome |-> "restored-active", next |-> next, actions |-> discard \o Hold]
<1>1. pub = active => Planned(s, pub, back)
  <2>1. s.candidate.inst # next.active.inst /\ s.candidate \in Slot
    BY RecoveredIsSound, StateTypes DEF Sound
  <2>2. Listed(s, next, discard \o Hold) /\ ~Has(discard \o Hold, "publish")
    BY <2>1, RecoveredIsSound, DiscardedLists
  <2>3. back \in Plan
    BY <2>2, RecoveredIsSound DEF Plan, Outcomes, Listed
  <2>4. Fits(s, back)
    BY <2>2, <2>3, RecoveredIsSound DEF Fits, Listed, Ending, Publishing, Preparing
  <2> QED BY <2>4, RecoveredIsSound DEF Keeps, Planned, Preparing
<1>2. Planned(s, pub, Republish(s, active, previous, gen, discard, <<>>))
  BY RepublishFits
<1>3. Planned(s, pub, Attention(s))
  BY AttentionFits DEF Planned
<1> QED BY <1>1, <1>2, <1>3 DEF PlanPreparing

LEMMA PublishingFits ==
    ASSUME NEW s \in State, Sound(s), NEW obs \in [Instances -> Process], NEW gen \in Generation,
           NEW pub, s.phase \in Publishing
    PROVE  Planned(s, pub, PlanPublishing(s, obs, pub, gen))
<1> DEFINE active == Observed(obs, s.active)
           previous == Observed(obs, s.previous)
           candidate == Observed(obs, s.candidate)
           next == [phase |-> "candidate-active", active |-> candidate,
                    previous |-> active, candidate |-> Nobody]
           list == <<Do("rebind", candidate, 0), Do("canary", candidate, 0)>>
           continued == [outcome |-> "continued-candidate", next |-> next, actions |-> list]
<1>1. pub = candidate => Planned(s, pub, continued)
  <2>1. /\ candidate \in Identity /\ candidate.inst = s.candidate.inst
        /\ active \in Identity /\ active.inst = s.active.inst
    BY StateTypes, SlotTypes, ObservedTypes DEF Sound, Underway
  <2> HIDE DEF candidate, active
  <2>2. next \in State /\ candidate \in Slot
    BY <2>1, SlotTypes DEF State, Phases
  <2>3. Listed(s, next, list) /\ ~Has(list, "publish") /\ Has(list, "rebind")
    BY <2>2, ShortLists
  <2> HIDE DEF list
  <2>4. continued \in Plan
    BY <2>2, <2>3 DEF Plan, Outcomes, Listed
  <2>5. Sound(next) /\ Known(next) \subseteq Known(s) \cup {None}
    BY <2>1, SlotTypes, StateTypes DEF Sound, Known, Underway, Preparing, Publishing
  <2>6. Fits(s, continued)
    BY <2>3, <2>4, <2>5 DEF Fits, Listed
  <2> QED BY <2>1, <2>6 DEF Keeps, Planned, Publishing
<1>2. Planned(s, pub, Republish(s, active, previous, gen, <<>>, Stop(obs, s.candidate)))
  BY RepublishFits
<1>3. Planned(s, pub, Attention(s))
  BY AttentionFits DEF Planned
<1> QED BY <1>1, <1>2, <1>3 DEF PlanPublishing

LEMMA ActiveFits ==
    ASSUME NEW s \in State, Sound(s), NEW obs \in [Instances -> Process], NEW gen \in Generation,
           NEW pub, s.phase = "candidate-active"
    PROVE  Planned(s, pub, PlanActive(s, obs, pub, gen))
<1> DEFINE active == Observed(obs, s.active)
           previous == Observed(obs, s.previous)
           next == [s EXCEPT !.active = active, !.previous = previous]
           list == <<Do("canary", active, 0)>>
           continued == [outcome |-> "continued-candidate", next |-> next, actions |-> list]
<1>1. pub = active => Planned(s, pub, continued)
  <2>1. /\ active \in Identity /\ active.inst = s.active.inst
        /\ previous \in Slot /\ previous.inst = s.previous.inst
    BY StateTypes, SlotTypes, ObservedTypes
  <2> HIDE DEF previous, active
  <2>2. next \in State /\ active \in Slot /\ next.active = active /\ next.phase = s.phase
    BY <2>1, SlotTypes DEF State
  <2>3. Listed(s, next, list) /\ ~Has(list, "publish")
    BY <2>2, ShortLists
  <2> HIDE DEF list
  <2>4. continued \in Plan
    BY <2>2, <2>3 DEF Plan, Outcomes, Listed
  <2>5. Sound(next) /\ Known(next) \subseteq Known(s) \cup {None}
    BY <2>1 DEF Sound, Known, State, Underway, Preparing, Publishing
  <2>6. Fits(s, continued)
    BY <2>2, <2>3, <2>4, <2>5 DEF Fits, Listed, Ending, Publishing
  <2> QED BY <2>2, <2>6 DEF Keeps, Planned
<1>2. Healthy(obs, s.previous) => Planned(s, pub, Rollback(s, obs, gen))
  BY RollbackFits DEF Healthy
<1>3. Planned(s, pub, Attention(s))
  BY AttentionFits DEF Planned
<1> QED BY <1>1, <1>2, <1>3 DEF PlanActive

LEMMA RollingBackFits ==
    ASSUME NEW s \in State, Sound(s), NEW obs \in [Instances -> Process], NEW gen \in Generation,
           NEW pub \in Slot, pub.gen < gen, s.phase = "rolling-back"
    PROVE  Planned(s, pub, PlanRollingBack(s, obs, pub, gen))
<1>1. Planned(s, pub, Attention(s))
  BY AttentionFits DEF Planned
<1>2. ASSUME Healthy(obs, s.previous)
      PROVE  PlanRollingBack(s, obs, pub, gen) = Rollback(s, obs, gen)
  <2> DEFINE target == Observed(obs, s.previous)
             restored == [target EXCEPT !.gen = gen]
             list == Restore(target, restored) \o Stop(obs, s.active)
  <2>1. target \in Identity
    BY <1>2, StateTypes, SlotTypes, ObservedTypes DEF Healthy
  <2>2. pub # restored
    BY <2>1 DEF Slot, Identity, Nobody, Generation
  <2>3. list # <<>>
    <3>1. Has(Rollback(s, obs, gen).actions, "publish")
      BY <1>2, RollbackFits DEF Healthy, Planned, Keeps, Rollback
    <3>2. Has(list, "publish")
      BY <3>1 DEF Rollback
    <3> HIDE DEF list
    <3> QED BY <3>2 DEF Has
  <2> HIDE DEF target, restored
  <2> QED BY <1>2, <2>2, <2>3 DEF PlanRollingBack, Rollback, target, restored
<1>3. Healthy(obs, s.previous) => Planned(s, pub, Rollback(s, obs, gen))
  BY RollbackFits DEF Healthy
<1> QED BY <1>1, <1>2, <1>3 DEF PlanRollingBack

(* Whatever is observed, a recovery plans what fits its state.             *)
LEMMA PlansFit ==
    ASSUME NEW s \in State, Sound(s), NEW obs \in [Instances -> Process], NEW pub \in Slot,
           Newest(s, obs, pub) < MaxGeneration
    PROVE  Planned(s, pub, PlanRecovery(s, obs, pub))
<1> DEFINE gen == Newest(s, obs, pub) + 1
           mark == [outcome |-> "needs-attention", next |-> s,
                    actions |-> <<Do("mark", Nobody, 0)>>]
<1>1. gen \in Generation /\ pub.gen < gen
  <2>1. Newest(s, obs, pub) \in Generation /\ pub.gen <= Newest(s, obs, pub)
    BY NewestTypes
  <2>2. pub.gen \in Nat
    BY DEF Slot, Identity, Nobody, Generation
  <2> QED BY <2>1, <2>2 DEF Generation
<1> HIDE DEF gen
<1>2. s.phase = "needs-attention" => Planned(s, pub, mark)
  <2>1. Fits(s, Attention(s))
    BY AttentionFits
  <2>2. Attention(s).actions = mark.actions
    BY DEF Attention
  <2>3. mark.actions \in Seq(Action) /\ mark \in Plan
    BY <2>1, <2>2 DEF Fits, Plan, Outcomes
  <2>4. ASSUME s.phase = "needs-attention"  PROVE InOrder(s, s, mark.actions)
    <3> DEFINE a == Do("mark", Nobody, 0)
    <3>1. a.kind = "mark"
      BY DEF Do
    <3> HIDE DEF a
    <3>2. Len(<<a>>) = 1 /\ <<a>>[1] = a
      OBVIOUS
    <3>3. InOrder(s, s, <<a>>)
      BY <3>1, <3>2 DEF InOrder
    <3> QED BY <3>3 DEF a
  <2>5. ~Has(mark.actions, "rebind")
    BY <2>1, <2>2 DEF Fits, Attention
  <2> QED BY <2>3, <2>4, <2>5 DEF Planned, Fits, Keeps, Ending, Publishing, Known
<1>3. s.phase = "stable" => Planned(s, pub, PlanStable(s, obs, pub, gen))
  BY <1>1, StableFits
<1>4. s.phase \in Preparing => Planned(s, pub, PlanPreparing(s, obs, pub, gen))
  BY <1>1, PreparingFits
<1>5. s.phase \in Publishing => Planned(s, pub, PlanPublishing(s, obs, pub, gen))
  BY <1>1, PublishingFits
<1>6. s.phase = "candidate-active" => Planned(s, pub, PlanActive(s, obs, pub, gen))
  BY <1>1, ActiveFits
<1>7. s.phase = "rolling-back" => Planned(s, pub, PlanRollingBack(s, obs, pub, gen))
  BY <1>1, RollingBackFits
<1>8. s.phase \in Phases
  BY StateTypes
<1> QED
  BY <1>2, <1>3, <1>4, <1>5, <1>6, <1>7, <1>8
  DEF PlanRecovery, Phases, Preparing, Publishing, gen

-----------------------------------------------------------------------------
(* The initial state.                                                      *)

LEMMA FirstTypes ==
    /\ FirstState \in State /\ Sound(FirstState) /\ FirstState.phase = "stable"
    /\ Known(FirstState) = {First, None}
    /\ FirstState.active \in Identity /\ FirstState.active.inst = First
    /\ FirstState.previous.inst = None
<1>1. [inst |-> First, gen |-> 1] \in Identity
  BY DEF Identity, Generation
<1> QED
  BY <1>1, SlotTypes
  DEF FirstState, Recovered, State, Phases, Sound, Known, Underway, Preparing, Publishing, Nobody,
      Generation

LEMMA BlankTypes == Blank \in [Instances -> Process] /\ \A i \in Instances : Blank[i].up = "unborn"
BY SlotTypes DEF Blank, Process

LEMMA IdleTypes ==
    /\ Idle \in [step : {"idle", "observing", "acting"}, source : State,
                 sawRuntimes : BOOLEAN, sawPublication : BOOLEAN,
                 obs : [Instances -> Process], pub : Slot, plan : Plan,
                 index : Nat \ {0}, headFresh : BOOLEAN, pubFresh : BOOLEAN]
    /\ Idle.step = "idle" /\ Idle.source = FirstState /\ ~Idle.sawPublication
    /\ ~Idle.headFresh /\ ~Idle.pubFresh /\ Idle.index = 1
<1>1. Attention(FirstState) \in Plan
  BY FirstTypes, AttentionFits DEF Fits
<1> QED BY <1>1, FirstTypes, BlankTypes, SlotTypes DEF Idle

LEMMA NoDriverTypes ==
    /\ NoDriver \in [driving : BOOLEAN, view : State, did : Slot, rebound : BOOLEAN,
                     headFresh : BOOLEAN, pubFresh : BOOLEAN]
    /\ NoDriver.view = FirstState /\ NoDriver.did = Nobody
    /\ ~NoDriver.driving /\ ~NoDriver.headFresh /\ ~NoDriver.pubFresh /\ ~NoDriver.rebound
BY FirstTypes, SlotTypes DEF NoDriver

LEMMA InitInvariant == Init => IInv
<1> SUFFICES ASSUME Init PROVE IInv
  OBVIOUS
<1>1. /\ head = FirstState /\ publication = FirstState.active
      /\ runtime = [Blank EXCEPT ![First] = [up |-> "well", gen |-> 1]]
      /\ registered = {} /\ bound = {} /\ faults = 0
      /\ recovery = Idle /\ driver = NoDriver
  BY DEF Init
<1>2. runtime \in [Instances -> Process] /\ runtime[First].up = "well"
  BY <1>1, BlankTypes DEF Process, Generation
<1>3. TypeOK
  BY <1>1, <1>2, FirstTypes, IdleTypes, NoDriverTypes DEF TypeOK
<1>4. StatesAreSound
  BY <1>1, FirstTypes, IdleTypes, NoDriverTypes DEF StatesAreSound
<1>5. UnbornIsUnknown
  BY <1>1, <1>2, FirstTypes, IdleTypes, NoDriverTypes, SlotTypes DEF UnbornIsUnknown
<1>6. HeadIsKnown /\ PublicationIsKnown /\ LostToDriver /\ PlanIsSound /\ PlanIsFollowed
  BY <1>1, IdleTypes, NoDriverTypes
  DEF HeadIsKnown, PublicationIsKnown, LostToDriver, PlanIsSound, PlanIsFollowed
<1>7. CandidateIsNew
  BY <1>1, FirstTypes DEF CandidateIsNew, Underway, Preparing, Publishing
<1> QED BY <1>3, <1>4, <1>5, <1>6, <1>7 DEF IInv

-----------------------------------------------------------------------------
(* A recovery that observes.                                               *)

LEMMA LoadHeadStep == IInv /\ LoadHead => IInv'
<1> SUFFICES ASSUME IInv, LoadHead PROVE IInv'
  OBVIOUS
<1>1. /\ recovery' = [Idle EXCEPT !.step = "observing", !.source = head, !.headFresh = TRUE]
      /\ UNCHANGED <<head, runtime, publication, registered, bound, driver, faults>>
  BY DEF LoadHead
<1>2. /\ recovery'.step = "observing" /\ recovery'.source = head /\ ~recovery'.sawPublication
      /\ recovery'.headFresh /\ ~recovery'.pubFresh /\ recovery'.index = 1
  BY <1>1, IdleTypes
<1>3. TypeOK'
  BY <1>1, IdleTypes DEF IInv, TypeOK
<1>4. StatesAreSound'
  BY <1>1, <1>2 DEF IInv, StatesAreSound
<1>5. UnbornIsUnknown'
  BY <1>1, <1>2 DEF IInv, UnbornIsUnknown
<1>6. (HeadIsKnown /\ PublicationIsKnown /\ LostToDriver /\ PlanIsSound /\ PlanIsFollowed)'
  BY <1>1, <1>2
  DEF IInv, HeadIsKnown, PublicationIsKnown, LostToDriver, PlanIsSound, PlanIsFollowed
<1>7. CandidateIsNew'
  <2>1. head \in State
    BY DEF IInv, TypeOK
  <2>2. head.phase \in Underway =>
          head.candidate.inst # head.active.inst /\ head.candidate.inst # head.previous.inst
    BY DEF IInv, StatesAreSound, Sound
  <2> QED BY <1>1, <1>2, <2>2 DEF IInv, CandidateIsNew
<1> QED BY <1>3, <1>4, <1>5, <1>6, <1>7 DEF IInv

LEMMA ObserveRuntimesStep == IInv /\ ObserveRuntimes => IInv'
<1> SUFFICES ASSUME IInv, ObserveRuntimes PROVE IInv'
  OBVIOUS
<1> DEFINE seen == [i \in Instances |-> IF Alive(runtime[i]) THEN runtime[i] ELSE Blank[i]]
<1>1. /\ recovery.step = "observing"
      /\ recovery' = [recovery EXCEPT !.sawRuntimes = TRUE, !.obs = seen]
      /\ UNCHANGED <<head, runtime, publication, registered, bound, driver, faults>>
  BY DEF ObserveRuntimes
<1>2. seen \in [Instances -> Process]
  BY BlankTypes DEF IInv, TypeOK
<1> HIDE DEF seen
<1>3. TypeOK'
  BY <1>1, <1>2 DEF IInv, TypeOK
<1>4. /\ recovery'.step = recovery.step /\ recovery'.source = recovery.source
      /\ recovery'.sawPublication = recovery.sawPublication
      /\ recovery'.headFresh = recovery.headFresh /\ recovery'.pubFresh = recovery.pubFresh
      /\ recovery'.pub = recovery.pub /\ recovery'.index = recovery.index
  BY <1>1 DEF IInv, TypeOK
<1>5. (StatesAreSound /\ UnbornIsUnknown /\ HeadIsKnown /\ PublicationIsKnown
         /\ CandidateIsNew /\ LostToDriver /\ PlanIsSound /\ PlanIsFollowed)'
  BY <1>1, <1>4
  DEF IInv, StatesAreSound, UnbornIsUnknown, HeadIsKnown, PublicationIsKnown, CandidateIsNew,
      LostToDriver, PlanIsSound, PlanIsFollowed
<1> QED BY <1>3, <1>5 DEF IInv

LEMMA ReadPublicationStep == IInv /\ ReadPublication => IInv'
<1> SUFFICES ASSUME IInv, ReadPublication PROVE IInv'
  OBVIOUS
<1>1. /\ recovery.step = "observing"
      /\ recovery' = [recovery EXCEPT !.sawPublication = TRUE, !.pub = publication,
                        !.pubFresh = TRUE]
      /\ UNCHANGED <<head, runtime, publication, registered, bound, driver, faults>>
  BY DEF ReadPublication
<1>3. TypeOK'
  BY <1>1, SlotTypes DEF IInv, TypeOK
<1>4. /\ recovery'.step = recovery.step /\ recovery'.source = recovery.source
      /\ recovery'.sawPublication /\ recovery'.pubFresh /\ recovery'.pub = publication
      /\ recovery'.headFresh = recovery.headFresh /\ recovery'.index = recovery.index
  BY <1>1 DEF IInv, TypeOK
<1>5. (StatesAreSound /\ UnbornIsUnknown /\ HeadIsKnown /\ PublicationIsKnown
         /\ CandidateIsNew /\ LostToDriver /\ PlanIsSound /\ PlanIsFollowed)'
  BY <1>1, <1>4
  DEF IInv, StatesAreSound, UnbornIsUnknown, HeadIsKnown, PublicationIsKnown, CandidateIsNew,
      LostToDriver, PlanIsSound, PlanIsFollowed
<1> QED BY <1>3, <1>5 DEF IInv

LEMMA DecidePlanStep == IInv /\ DecidePlan => IInv'
<1> SUFFICES ASSUME IInv, DecidePlan PROVE IInv'
  OBVIOUS
<1> DEFINE p == PlanRecovery(recovery.source, recovery.obs, recovery.pub)
<1>1. /\ recovery.step = "observing" /\ recovery.sawPublication
      /\ Newest(recovery.source, recovery.obs, recovery.pub) < MaxGeneration
      /\ recovery' = [recovery EXCEPT !.step = "acting", !.obs = Blank, !.plan = p]
      /\ UNCHANGED <<head, runtime, publication, registered, bound, driver, faults>>
  BY DEF DecidePlan
<1>2. /\ recovery.source \in State /\ Sound(recovery.source)
      /\ recovery.obs \in [Instances -> Process] /\ recovery.pub \in Slot
  BY DEF IInv, TypeOK, StatesAreSound
<1>3. Planned(recovery.source, recovery.pub, p)
  BY <1>1, <1>2, PlansFit
<1> HIDE DEF p
<1>4. /\ recovery'.step = "acting" /\ recovery'.source = recovery.source
      /\ recovery'.sawPublication = recovery.sawPublication /\ recovery'.plan = p
      /\ recovery'.headFresh = recovery.headFresh /\ recovery'.pubFresh = recovery.pubFresh
      /\ recovery'.pub = recovery.pub /\ recovery'.index = recovery.index
  BY <1>1 DEF IInv, TypeOK
<1>5. TypeOK'
  <2>1. p \in Plan
    BY <1>3 DEF Planned, Fits
  <2> QED BY <1>1, <2>1, BlankTypes DEF IInv, TypeOK
<1>6. (StatesAreSound /\ UnbornIsUnknown /\ HeadIsKnown /\ PublicationIsKnown
         /\ CandidateIsNew /\ LostToDriver)'
  BY <1>1, <1>4
  DEF IInv, StatesAreSound, UnbornIsUnknown, HeadIsKnown, PublicationIsKnown, CandidateIsNew,
      LostToDriver
<1>7. PlanIsSound'
  BY <1>1, <1>3, <1>4 DEF IInv, PlanIsSound, Planned
<1>8. PlanIsFollowed'
  <2>1. recovery'.index = 1
    BY <1>1, <1>4 DEF IInv, PlanIsSound
  <2>2. ~Done("publish")' /\ ~Done("rebind")'
    BY <2>1 DEF Done
  <2> QED BY <1>3, <1>4, <2>2 DEF PlanIsFollowed, Planned
<1> QED BY <1>5, <1>6, <1>7, <1>8 DEF IInv

-----------------------------------------------------------------------------
(* The actions of a plan.                                                  *)

(* A step that ends the recovery keeps what is known of the others.        *)
Withdrawn ==
    /\ recovery' = Idle
    /\ head' = head /\ registered' \subseteq Sessions /\ faults' \in 0 .. MaxFaults
    /\ runtime' \in [Instances -> Process] /\ bound' \subseteq registered'
    /\ publication' \in Identity
    /\ \A i \in Instances : runtime'[i].up = "unborn" => runtime[i].up = "unborn"
    /\ driver' = driver \/ driver' = [driver EXCEPT !.pubFresh = FALSE] \/ driver' = NoDriver
    /\ \/ publication' = publication
       \/ publication'.inst = recovery.source.active.inst
       \/ publication'.inst = recovery.source.previous.inst

LEMMA WithdrawnStep == IInv /\ Withdrawn => IInv'
<1> SUFFICES ASSUME IInv, Withdrawn PROVE IInv'
  OBVIOUS
<1>1. /\ driver' \in [driving : BOOLEAN, view : State, did : Slot, rebound : BOOLEAN,
                      headFresh : BOOLEAN, pubFresh : BOOLEAN]
      /\ driver'.view = driver.view \/ driver'.view = FirstState
      /\ driver'.did = driver.did \/ driver'.did = Nobody
      /\ driver'.rebound => driver' # NoDriver /\ driver.rebound /\ driver'.did = driver.did
      /\ driver'.headFresh => driver.headFresh /\ driver'.driving = driver.driving
                                /\ driver'.view = driver.view
      /\ driver'.pubFresh => driver.pubFresh /\ driver' = driver
  BY NoDriverTypes DEF IInv, TypeOK, Withdrawn
<1>2. TypeOK'
  BY <1>1, IdleTypes DEF IInv, TypeOK, Withdrawn
<1>3. StatesAreSound'
  BY <1>1, IdleTypes, FirstTypes DEF IInv, StatesAreSound, Withdrawn
<1>4. UnbornIsUnknown'
  <2> SUFFICES ASSUME NEW i \in Instances, runtime'[i].up = "unborn"
               PROVE  /\ i \notin (Known(head) \cup Known(driver.view) \cup Known(recovery.source))'
                      /\ i # publication'.inst /\ i # driver'.did.inst /\ i # First
    BY DEF UnbornIsUnknown
  <2>1. /\ i \notin Known(head) \cup Known(driver.view) \cup Known(recovery.source)
        /\ i # publication.inst /\ i # driver.did.inst /\ i # First
    BY DEF IInv, UnbornIsUnknown, Withdrawn
  <2>2. i \notin Known(FirstState)
    BY <2>1, FirstTypes
  <2>3. publication'.inst \in {publication.inst} \cup Known(recovery.source)
    BY DEF Withdrawn, Known
  <2> QED BY <1>1, <2>1, <2>2, <2>3, IdleTypes, SlotTypes DEF Withdrawn
<1>5. (HeadIsKnown /\ LostToDriver /\ PlanIsSound /\ PlanIsFollowed)'
  BY <1>1, IdleTypes
  DEF IInv, HeadIsKnown, LostToDriver, PlanIsSound, PlanIsFollowed, Withdrawn
<1>6. PublicationIsKnown'
  BY <1>1, IdleTypes DEF IInv, PublicationIsKnown, Withdrawn
<1>7. CandidateIsNew'
  BY <1>1, IdleTypes, FirstTypes DEF IInv, CandidateIsNew, StatesAreSound, Sound, Withdrawn
<1> QED BY <1>2, <1>3, <1>4, <1>5, <1>6, <1>7 DEF IInv

(* What an action of the plan may change, be it carried out or not.        *)
LEMMA ActionEffects ==
    ASSUME IInv, Acting, Accepted(Current),
           \/ Carried(Current) \/ RebindFails(Current)
           \/ UNCHANGED <<runtime, publication, bound, driver>>
    PROVE  /\ Current \in Action
           /\ runtime' \in [Instances -> Process] /\ bound' \subseteq registered
           /\ publication' \in Identity
           /\ \A i \in Instances : runtime'[i].up = "unborn" => runtime[i].up = "unborn"
           /\ \/ publication' = publication /\ driver' = driver
              \/ /\ PublishRuntime(Current)
                 /\ Current.on = recovery.plan.next.active
                 /\ \/ Current.on.inst = recovery.source.active.inst
                    \/ Current.on.inst = recovery.source.previous.inst
<1>1. /\ recovery.step = "acting" /\ recovery.index \in 1 .. Len(recovery.plan.actions)
      /\ recovery.plan \in Plan /\ recovery.plan.actions \in Seq(Action)
  BY DEF IInv, TypeOK, Acting, Plan
<1>2. Current \in Action
  BY <1>1, ElementOfSeq DEF Current
<1>3. Current.on \in Slot
  BY <1>2 DEF Action
<1>4. PublishRuntime(Current) =>
        /\ Current.on = recovery.plan.next.active
        /\ \/ Current.on.inst = recovery.source.active.inst
           \/ Current.on.inst = recovery.source.previous.inst
  BY <1>1 DEF IInv, PlanIsSound, Fits, InOrder, Current, PublishRuntime
<1>5. recovery.plan.next.active \in Identity
  BY <1>1 DEF Plan, State
<1>6. CASE StopRuntime(Current)
  <2> DEFINE c == Current.on.inst
  <2>1. runtime' = [runtime EXCEPT ![c].up = "down"] /\ UNCHANGED <<publication, bound, driver>>
    BY <1>6 DEF StopRuntime
  <2> HIDE DEF c
  <2>2. runtime \in [Instances -> Process] /\ publication \in Identity /\ bound \subseteq registered
    BY DEF IInv, TypeOK
  <2>3. /\ runtime' \in [Instances -> Process]
        /\ \A i \in Instances : runtime'[i].up = "unborn" => runtime[i].up = "unborn"
    BY <2>1, <2>2 DEF Process
  <2> QED BY <1>2, <2>1, <2>2, <2>3
<1>7. CASE ResumeRuntime(Current)
  <2>1. Current.on.gen \in Generation
    BY <1>3 DEF Slot, Identity, Nobody, Generation
  <2> DEFINE c == Current.on.inst
             g == Current.on.gen
  <2>2. runtime' = [runtime EXCEPT ![c].gen = g] /\ UNCHANGED <<publication, bound, driver>>
    BY <1>7 DEF ResumeRuntime
  <2> HIDE DEF c, g
  <2>3. runtime \in [Instances -> Process] /\ publication \in Identity /\ bound \subseteq registered
    BY DEF IInv, TypeOK
  <2>4. \A i \in Instances : runtime'[i].up = runtime[i].up
    BY <2>2, <2>3 DEF Process
  <2>5. g \in Generation
    BY <2>1 DEF g
  <2>6. runtime' \in [Instances -> Process]
    BY <2>2, <2>3, <2>5 DEF Process
  <2> QED BY <1>2, <2>2, <2>3, <2>4, <2>6
<1>8. CASE PublishRuntime(Current)
  BY <1>2, <1>4, <1>5, <1>8 DEF IInv, TypeOK, PublishRuntime
<1>9. CASE RebindManaged(Current) \/ RebindFails(Current)
  BY <1>2, <1>9 DEF IInv, TypeOK, RebindManaged, RebindFails
<1>10. CASE NothingOutside(Current) \/ UNCHANGED <<runtime, publication, bound, driver>>
  BY <1>2, <1>10 DEF IInv, TypeOK, NothingOutside
<1> QED BY <1>6, <1>7, <1>8, <1>9, <1>10 DEF Carried

LEMMA ActionFailsStep == IInv /\ ActionFails => IInv'
<1> SUFFICES ASSUME IInv, ActionFails PROVE IInv'
  OBVIOUS
<1>1. /\ Acting /\ Accepted(Current) /\ recovery' = Idle /\ UNCHANGED <<head, registered>>
      /\ \/ Carried(Current) \/ RebindFails(Current)
         \/ UNCHANGED <<runtime, publication, bound, driver>>
      /\ faults' \in 0 .. MaxFaults
  BY DEF ActionFails, Fault, IInv, TypeOK
<1>2. Withdrawn
  BY <1>1, ActionEffects DEF Withdrawn, PublishRuntime, IInv, TypeOK
<1> QED BY <1>2, WithdrawnStep

LEMMA WithdrawnCases ==
    ASSUME IInv, ActionRefused \/ RecoveryConflicts \/ RecoveryEnds
    PROVE  IInv'
<1>1. /\ recovery' = Idle
      /\ UNCHANGED <<head, runtime, publication, registered, bound, driver>>
      /\ faults' \in 0 .. MaxFaults
  BY DEF ActionRefused, RecoveryConflicts, RecoveryEnds, Fault, IInv, TypeOK
<1>2. Withdrawn
  BY <1>1 DEF Withdrawn, IInv, TypeOK
<1> QED BY <1>2, WithdrawnStep

LEMMA CrashStep == IInv /\ Crash => IInv'
<1> SUFFICES ASSUME IInv, Crash PROVE IInv'
  OBVIOUS
<1>1. /\ recovery' = Idle /\ driver' = NoDriver /\ registered' = {} /\ bound' = {}
      /\ UNCHANGED <<head, runtime, publication>> /\ faults' \in 0 .. MaxFaults
  BY DEF Crash, Fault, IInv, TypeOK
<1>2. Withdrawn
  BY <1>1 DEF Withdrawn, IInv, TypeOK
<1> QED BY <1>2, WithdrawnStep

LEMMA ActionSucceedsStep == IInv /\ ActionSucceeds => IInv'
<1> SUFFICES ASSUME IInv, ActionSucceeds PROVE IInv'
  OBVIOUS
<1> DEFINE a == Current
           s == recovery.source
           p == recovery.plan
<1>1. /\ Acting /\ Accepted(a) /\ Carried(a)
      /\ recovery' = [recovery EXCEPT !.index = @ + 1,
                        !.pub = IF a.kind = "publish" THEN a.on ELSE @]
      /\ UNCHANGED <<head, registered, faults>>
  BY DEF ActionSucceeds
<1>2. /\ a \in Action
      /\ runtime' \in [Instances -> Process] /\ bound' \subseteq registered
      /\ publication' \in Identity
      /\ \A i \in Instances : runtime'[i].up = "unborn" => runtime[i].up = "unborn"
      /\ \/ publication' = publication /\ driver' = driver
         \/ /\ PublishRuntime(a)
            /\ a.on = p.next.active
            /\ a.on.inst = s.active.inst \/ a.on.inst = s.previous.inst
  BY <1>1, ActionEffects
<1>3. /\ recovery.step = "acting" /\ recovery.index \in 1 .. Len(p.actions)
      /\ p \in Plan /\ p.actions \in Seq(Action) /\ Len(p.actions) \in Nat
      /\ a = p.actions[recovery.index]
      /\ s \in State /\ Fits(s, p) /\ recovery.sawPublication
  BY <1>1 DEF IInv, TypeOK, Acting, Plan, Current, PlanIsSound
<1>4. /\ recovery'.step = "acting" /\ recovery'.source = s /\ recovery'.plan = p
      /\ recovery'.sawPublication /\ recovery'.index = recovery.index + 1
      /\ recovery'.headFresh = recovery.headFresh /\ recovery'.pubFresh = recovery.pubFresh
      /\ recovery'.pub = IF a.kind = "publish" THEN a.on ELSE recovery.pub
  BY <1>1, <1>3 DEF IInv, TypeOK
<1>5. /\ driver' \in [driving : BOOLEAN, view : State, did : Slot, rebound : BOOLEAN,
                      headFresh : BOOLEAN, pubFresh : BOOLEAN]
      /\ driver'.view = driver.view /\ driver'.did = driver.did
      /\ driver'.rebound = driver.rebound
      /\ driver'.headFresh = driver.headFresh /\ driver'.driving = driver.driving
      /\ driver'.pubFresh => driver.pubFresh
      /\ PublishRuntime(a) => ~driver'.pubFresh
  BY <1>2 DEF IInv, TypeOK, PublishRuntime
<1>6. a.kind # "publish" => publication' = publication /\ driver' = driver
  BY <1>2 DEF PublishRuntime
<1>7. a.kind = "publish" =>
        /\ publication' = a.on /\ a.on = p.next.active /\ recovery.pubFresh /\ ~driver'.pubFresh
        /\ a.on.inst = s.active.inst \/ a.on.inst = s.previous.inst
  <2>1. a.kind = "publish" => PublishRuntime(a) /\ recovery.pubFresh
    BY <1>1 DEF Carried, StopRuntime, ResumeRuntime, RebindManaged, NothingOutside, Accepted
  <2>2. a.kind = "publish" =>
          /\ a.on = p.next.active
          /\ a.on.inst = s.active.inst \/ a.on.inst = s.previous.inst
    BY <1>3 DEF Fits, InOrder
  <2> QED BY <1>5, <2>1, <2>2 DEF PublishRuntime
<1>8. a.kind = "rebind" => bound' = IF recovery.pubFresh THEN registered ELSE {}
  BY <1>1 DEF Carried, StopRuntime, ResumeRuntime, RebindManaged, NothingOutside, PublishRuntime
<1>9. a.kind \notin {"publish", "rebind"} => bound' = bound
  BY <1>1 DEF Carried, StopRuntime, ResumeRuntime, RebindManaged, NothingOutside, PublishRuntime
<1> HIDE DEF a, s, p
<1>10. TypeOK'
  <2>1. recovery.index + 1 \in Nat \ {0} /\ a.on \in Slot
    BY <1>2 DEF IInv, TypeOK, Action
  <2> QED BY <1>1, <1>2, <1>5, <2>1 DEF IInv, TypeOK
<1>11. StatesAreSound'
  BY <1>1, <1>4, <1>5 DEF IInv, StatesAreSound, s
<1>12. UnbornIsUnknown'
  BY <1>1, <1>2, <1>4, <1>5, <1>6, <1>7 DEF IInv, UnbornIsUnknown, Known, s
<1>13. HeadIsKnown'
  BY <1>1, <1>3, <1>4, <1>5 DEF IInv, HeadIsKnown, s
<1>14. PublicationIsKnown'
  BY <1>1, <1>4, <1>5, <1>6, <1>7 DEF IInv, PublicationIsKnown, s
<1>15. CandidateIsNew'
  <2>1. CASE a.kind = "publish"
    BY <1>1, <1>4, <1>5, <1>7, <2>1 DEF IInv, CandidateIsNew, s
  <2>2. CASE a.kind # "publish"
    BY <1>1, <1>4, <1>5, <1>6, <2>2 DEF IInv, CandidateIsNew, s
  <2> QED BY <2>1, <2>2
<1>16. LostToDriver'
  BY <1>1, <1>3, <1>4, <1>7 DEF IInv, LostToDriver
<1>17. PlanIsSound'
  BY <1>3, <1>4 DEF PlanIsSound
<1>18. PlanIsFollowed'
  <2> SUFFICES ASSUME recovery.headFresh
               PROVE  /\ Done("publish")' =>
                            recovery'.pubFresh /\ ~driver'.pubFresh /\ recovery'.pub = p.next.active
                      /\ Keeps(s, recovery'.pub, p)
                      /\ s.phase \in Ending /\ Done("rebind")' => bound' = registered'
    BY <1>4 DEF PlanIsFollowed
  <2>1. /\ Done("publish") =>
              recovery.pubFresh /\ ~driver.pubFresh /\ recovery.pub = p.next.active
        /\ Keeps(s, recovery.pub, p)
        /\ s.phase \in Ending /\ Done("rebind") => bound = registered
    BY <1>3 DEF IInv, PlanIsFollowed, s, p
  <2>2. \A kind : Done(kind)' => Done(kind) \/ a.kind = kind
    BY <1>3, <1>4 DEF Done, p, IInv, TypeOK
  <2>3. Done("publish")' =>
          recovery'.pubFresh /\ ~driver'.pubFresh /\ recovery'.pub = p.next.active
    BY <2>1, <2>2, <1>4, <1>5, <1>7
  <2>4. Keeps(s, recovery'.pub, p)
    <3>1. a.kind = "publish" => Has(p.actions, "publish")
      BY <1>3 DEF Has
    <3> QED BY <2>1, <3>1, <1>4 DEF Keeps
  <2>5. ASSUME s.phase \in Ending, Done("rebind")'  PROVE bound' = registered'
    <3>1. s = head
      BY DEF IInv, HeadIsKnown, s
    <3>2. CASE a.kind = "publish"
      <4>1. Done("rebind")
        BY <2>2, <2>5, <3>2
      <4>2. PICK k \in 1 .. Len(p.actions) : k < recovery.index /\ p.actions[k].kind = "rebind"
        BY <4>1 DEF Done, p
      <4> QED BY <1>3, <3>2, <4>2 DEF Fits, InOrder
    <3>3. CASE a.kind = "rebind"
      <4>1. CASE Done("publish")
        BY <2>1, <4>1, <1>1, <1>8, <3>3
      <4>2. CASE ~Done("publish")
        <5>1. ~Has(p.actions, "publish")
          BY <1>3, <3>3, <4>2 DEF Fits, InOrder, Has, Done, p
        <5>2. p.outcome # "needs-attention"
          BY <1>3, <3>3 DEF Fits, Has
        <5>3. /\ s.phase # "rolling-back"
              /\ s.phase = "publishing" => recovery.pub.inst = s.candidate.inst
          BY <2>1, <5>1, <5>2 DEF Keeps
        <5>4. recovery.pubFresh
          BY <1>3, <2>5, <3>1, <5>3
          DEF IInv, LostToDriver, Moving, Ending, Publishing
        <5> QED BY <5>4, <3>3, <1>1, <1>8
      <4> QED BY <4>1, <4>2
    <3>4. CASE a.kind \notin {"publish", "rebind"}
      BY <2>1, <2>2, <2>5, <3>4, <1>1, <1>9
    <3> QED BY <3>2, <3>3, <3>4
  <2> QED BY <2>3, <2>4, <2>5
<1> QED
  BY <1>10, <1>11, <1>12, <1>13, <1>14, <1>15, <1>16, <1>17, <1>18 DEF IInv

(* A recovery that may be committed has the sessions and the publication.  *)
LEMMA Committed ==
    ASSUME IInv, Finished, Appendable, recovery.plan.outcome # "needs-attention"
    PROVE  /\ publication = recovery.plan.next.active
           /\ ~driver.pubFresh
           /\ head.phase \in Ending => bound = registered
<1> DEFINE p == recovery.plan
<1>1. /\ recovery.step = "acting" /\ recovery.headFresh /\ recovery.source = head
      /\ head.phase # "needs-attention" /\ recovery.sawPublication
      /\ Fits(head, p) /\ head \in State
  BY DEF Finished, Appendable, IInv, HeadIsKnown, PlanIsSound, TypeOK
<1>2. \A kind : Has(p.actions, kind) => Done(kind)
  BY <1>1 DEF Finished, Has, Done, IInv, TypeOK, Plan
<1>3. /\ Done("publish") =>
            recovery.pubFresh /\ ~driver.pubFresh /\ recovery.pub = p.next.active
      /\ Keeps(head, recovery.pub, p)
      /\ head.phase \in Ending /\ Done("rebind") => bound = registered
  BY <1>1 DEF IInv, PlanIsFollowed
<1>4. head.phase \in Ending => bound = registered
  BY <1>1, <1>2, <1>3 DEF Fits
<1>5. CASE Has(p.actions, "publish")
  BY <1>2, <1>3, <1>4, <1>5 DEF IInv, PublicationIsKnown
<1>6. CASE ~Has(p.actions, "publish")
  <2>1. /\ recovery.pub = p.next.active
        /\ head.phase # "rolling-back"
        /\ head.phase = "publishing" => recovery.pub.inst = head.candidate.inst
    BY <1>3, <1>6 DEF Keeps
  <2>2. recovery.pubFresh
    BY <1>1, <2>1 DEF IInv, LostToDriver, Moving
  <2>3. publication = recovery.pub
    BY <2>2 DEF IInv, PublicationIsKnown
  <2>4. driver.pubFresh => head.phase = "publishing"
    BY <1>1, <2>1 DEF IInv, PublicationIsKnown, HeadIsKnown, Moving
  <2>5. ~driver.pubFresh
    BY <2>1, <2>3, <2>4 DEF IInv, CandidateIsNew, Underway, Publishing
  <2> QED BY <1>4, <2>1, <2>3, <2>5
<1> QED BY <1>5, <1>6

LEMMA CommitRecoveryStep == IInv /\ CommitRecovery => IInv'
<1> SUFFICES ASSUME IInv, CommitRecovery PROVE IInv'
  OBVIOUS
<1> DEFINE p == recovery.plan
<1>1. /\ Finished /\ Appendable /\ head' = p.next /\ recovery' = Idle
      /\ driver' = [driver EXCEPT !.headFresh = FALSE]
      /\ UNCHANGED <<runtime, publication, registered, bound, faults>>
  BY DEF CommitRecovery
<1>2. Fits(head, p) /\ p.next \in State
  BY <1>1 DEF Finished, Appendable, IInv, HeadIsKnown, PlanIsSound, TypeOK, Plan
<1>3. /\ driver'.view = driver.view /\ driver'.did = driver.did
      /\ driver'.rebound = driver.rebound
      /\ ~driver'.headFresh /\ driver'.pubFresh = driver.pubFresh
  BY <1>1 DEF IInv, TypeOK
<1>4. driver.pubFresh => p.next.phase = "needs-attention"
  BY <1>1, <1>2, Committed DEF Fits
<1>5. TypeOK'
  BY <1>1, <1>2, IdleTypes DEF IInv, TypeOK
<1>6. StatesAreSound'
  BY <1>1, <1>2, <1>3, IdleTypes, FirstTypes DEF IInv, StatesAreSound, Fits
<1>7. UnbornIsUnknown'
  <2> SUFFICES ASSUME NEW i \in Instances, runtime'[i].up = "unborn"
               PROVE  /\ i \notin (Known(head) \cup Known(driver.view) \cup Known(recovery.source))'
                      /\ i # publication'.inst /\ i # driver'.did.inst /\ i # First
    BY DEF UnbornIsUnknown
  <2>1. /\ i \notin Known(head) \cup Known(driver.view)
        /\ i # publication.inst /\ i # driver.did.inst /\ i # First
    BY <1>1 DEF IInv, UnbornIsUnknown
  <2>2. i \notin Known(FirstState) /\ i \notin Known(p.next)
    BY <1>2, <2>1, FirstTypes DEF Fits
  <2> QED BY <1>1, <1>3, <2>1, <2>2, IdleTypes
<1>8. (HeadIsKnown /\ LostToDriver /\ PlanIsSound /\ PlanIsFollowed)'
  BY <1>1, <1>3, IdleTypes DEF HeadIsKnown, LostToDriver, PlanIsSound, PlanIsFollowed
<1>9. PublicationIsKnown'
  BY <1>1, <1>3, <1>4, IdleTypes DEF IInv, PublicationIsKnown
<1>10. CandidateIsNew'
  BY <1>1, <1>2 DEF Fits, CandidateIsNew, Underway, Preparing, Publishing
<1> QED BY <1>5, <1>6, <1>7, <1>8, <1>9, <1>10 DEF IInv

-----------------------------------------------------------------------------
(* The driver.                                                             *)

(* An event of the transition: what must be so of the state it leads to.   *)
LEMMA DriveStep ==
    ASSUME IInv, NEW next \in State, NEW look \in BOOLEAN, Drive(next, look),
           Sound(next), Known(next) \subseteq Known(head) \cup {None, driver.did.inst},
           look => next.phase \in Moving,
           next.phase \in Underway => head.phase \in Underway /\ next.candidate = head.candidate,
           next.phase \in Underway \ {"publishing"} => head.phase # "publishing",
           next.phase = "publishing" => head.phase # "publishing"
    PROVE  IInv'
<1>1. /\ driver.driving /\ driver.headFresh /\ head' = next
      /\ driver' = IF next.phase \in {"stable", "needs-attention"} THEN NoDriver
                   ELSE [driver EXCEPT !.view = next, !.did = Nobody, !.rebound = FALSE,
                           !.pubFresh = look]
      /\ recovery' = [recovery EXCEPT !.headFresh = FALSE]
      /\ UNCHANGED <<runtime, publication, registered, bound, faults>>
  BY DEF Drive
<1>2. /\ driver' \in [driving : BOOLEAN, view : State, did : Slot, rebound : BOOLEAN,
                      headFresh : BOOLEAN, pubFresh : BOOLEAN]
      /\ driver'.view = next \/ driver'.view = FirstState
      /\ driver'.did = Nobody /\ ~driver'.rebound
      /\ driver'.headFresh => driver'.driving /\ driver'.view = next
      /\ driver'.pubFresh => look /\ driver'.headFresh
  BY <1>1, NoDriverTypes, SlotTypes DEF IInv, TypeOK
<1>3. /\ ~recovery'.headFresh /\ recovery'.source = recovery.source
      /\ recovery'.step = recovery.step /\ recovery'.index = recovery.index
      /\ recovery'.plan = recovery.plan /\ recovery'.pub = recovery.pub
      /\ recovery'.sawPublication = recovery.sawPublication
      /\ recovery'.pubFresh = recovery.pubFresh
  BY <1>1 DEF IInv, TypeOK
<1>4. TypeOK'
  BY <1>1, <1>2 DEF IInv, TypeOK
<1>5. StatesAreSound'
  BY <1>1, <1>2, <1>3, FirstTypes DEF IInv, StatesAreSound
<1>6. UnbornIsUnknown'
  <2> SUFFICES ASSUME NEW i \in Instances, runtime'[i].up = "unborn"
               PROVE  /\ i \notin (Known(head) \cup Known(driver.view) \cup Known(recovery.source))'
                      /\ i # publication'.inst /\ i # driver'.did.inst /\ i # First
    BY DEF UnbornIsUnknown
  <2>1. /\ i \notin Known(head) \cup Known(driver.view) \cup Known(recovery.source)
        /\ i # publication.inst /\ i # driver.did.inst /\ i # First
    BY <1>1 DEF IInv, UnbornIsUnknown
  <2>2. i \notin Known(FirstState) /\ i \notin Known(next)
    BY <2>1, FirstTypes
  <2> QED BY <1>1, <1>2, <1>3, <2>1, <2>2, SlotTypes
<1>7. (HeadIsKnown /\ LostToDriver /\ PlanIsFollowed)'
  BY <1>1, <1>2, <1>3 DEF HeadIsKnown, LostToDriver, PlanIsFollowed
<1>8. PlanIsSound'
  BY <1>1, <1>3 DEF IInv, PlanIsSound
<1>9. PublicationIsKnown'
  BY <1>1, <1>2, <1>3, FirstTypes DEF IInv, PublicationIsKnown, Moving
<1>10. CandidateIsNew'
  BY <1>1, <1>3 DEF IInv, CandidateIsNew
<1> QED BY <1>4, <1>5, <1>6, <1>7, <1>8, <1>9, <1>10 DEF IInv

LEMMA DriveCases ==
    ASSUME IInv,
           \/ CandidateReady \/ BeginQuiesce \/ BeginPublish \/ CandidatePublished
           \/ CommitCandidate \/ BeginRollback \/ RollbackPublished \/ TransitionFails
    PROVE  IInv'
<1> DEFINE v == driver.view
<1>0. driver.headFresh /\ v = head /\ head \in State /\ Sound(head)
  BY DEF CandidateReady, BeginQuiesce, BeginPublish, CandidatePublished, CommitCandidate,
         BeginRollback, RollbackPublished, TransitionFails, Drive, IInv, HeadIsKnown,
         StatesAreSound, TypeOK
<1>1. CASE CandidateReady
  <2> DEFINE next == [v EXCEPT !.phase = "candidate-ready"]
  <2>1. Drive(next, FALSE) /\ head.phase = "candidate-starting"
    BY <1>0, <1>1 DEF CandidateReady
  <2>2. next \in State /\ next.phase = "candidate-ready" /\ Known(next) = Known(head)
        /\ next.candidate = head.candidate /\ Sound(next)
    BY <1>0, <2>1 DEF State, Phases, Preparing, Known, Sound, Underway
  <2> HIDE DEF next
  <2> QED BY <2>1, <2>2, DriveStep DEF Underway, Preparing, Publishing
<1>2. CASE BeginQuiesce
  <2> DEFINE next == [v EXCEPT !.phase = "quiescing"]
  <2>1. Drive(next, FALSE) /\ head.phase = "candidate-ready"
    BY <1>0, <1>2 DEF BeginQuiesce
  <2>2. next \in State /\ next.phase = "quiescing" /\ Known(next) = Known(head)
        /\ next.candidate = head.candidate /\ Sound(next)
    BY <1>0, <2>1 DEF State, Phases, Preparing, Publishing, Known, Sound, Underway
  <2> HIDE DEF next
  <2> QED BY <2>1, <2>2, DriveStep DEF Underway, Preparing, Publishing
<1>3. CASE BeginPublish
  <2> DEFINE next == [v EXCEPT !.phase = "publishing"]
  <2>1. Drive(next, TRUE) /\ head.phase = "quiescing"
    BY <1>0, <1>3 DEF BeginPublish
  <2>2. next \in State /\ next.phase = "publishing" /\ Known(next) = Known(head)
        /\ next.candidate = head.candidate /\ Sound(next)
    BY <1>0, <2>1 DEF State, Phases, Preparing, Publishing, Known, Sound, Underway
  <2> HIDE DEF next
  <2> QED BY <2>1, <2>2, DriveStep DEF Underway, Preparing, Publishing, Moving
<1>4. CASE CandidatePublished
  <2> DEFINE next == [phase |-> "candidate-active", active |-> v.candidate,
                      previous |-> v.active, candidate |-> Nobody]
  <2>1. Drive(next, FALSE) /\ head.phase = "publishing"
    BY <1>0, <1>4 DEF CandidatePublished
  <2>2. head.candidate \in Identity
    BY <1>0, <2>1, StateTypes DEF Sound, Underway, Publishing
  <2>3. next \in State /\ next.phase = "candidate-active" /\ Sound(next)
        /\ Known(next) \subseteq Known(head) \cup {None}
    BY <1>0, <2>2, SlotTypes, StateTypes
    DEF State, Phases, Preparing, Publishing, Known, Sound, Underway
  <2> HIDE DEF next
  <2> QED BY <2>1, <2>3, DriveStep DEF Underway, Preparing, Publishing
<1>5. CASE CommitCandidate
  <2> DEFINE next == [v EXCEPT !.phase = "stable"]
  <2>1. Drive(next, FALSE)
    BY <1>5 DEF CommitCandidate
  <2>2. next \in State /\ next.phase = "stable" /\ Known(next) = Known(head) /\ Sound(next)
    BY <1>0 DEF State, Phases, Preparing, Publishing, Known, Sound, Underway
  <2> HIDE DEF next
  <2> QED BY <2>1, <2>2, DriveStep DEF Underway, Preparing, Publishing
<1>6. CASE BeginRollback
  <2> DEFINE next == [v EXCEPT !.phase = "rolling-back"]
  <2>1. Drive(next, TRUE) /\ head.previous.inst # None
    BY <1>0, <1>6, StateTypes DEF BeginRollback, Slot, Identity
  <2>2. next \in State /\ next.phase = "rolling-back" /\ Known(next) = Known(head) /\ Sound(next)
    BY <1>0, <2>1 DEF State, Phases, Preparing, Publishing, Known, Sound, Underway
  <2> HIDE DEF next
  <2> QED BY <2>1, <2>2, DriveStep DEF Underway, Preparing, Publishing, Moving
<1>7. CASE RollbackPublished
  <2> DEFINE next == Recovered(v, driver.did, Nobody)
  <2>1. Drive(next, FALSE) /\ driver.rebound
    BY <1>7 DEF RollbackPublished
  <2>2. driver.did \in Identity
    BY <2>1 DEF IInv, PublicationIsKnown, TypeOK, Slot
  <2>3. next \in State /\ next.phase = "stable" /\ Sound(next)
        /\ Known(next) \subseteq Known(head) \cup {None, driver.did.inst}
    BY <2>2, SlotTypes
    DEF Recovered, State, Phases, Preparing, Publishing, Known, Sound, Underway, Identity
  <2> HIDE DEF next
  <2> QED BY <2>1, <2>3, DriveStep DEF Underway, Preparing, Publishing
<1>8. CASE TransitionFails
  <2> DEFINE next == Attention(v).next
  <2>1. Drive(next, FALSE)
    BY <1>8 DEF TransitionFails
  <2>2. next \in State /\ next.phase = "needs-attention" /\ Sound(next)
        /\ Known(next) \subseteq Known(head) \cup {None}
    <3>1. Fits(v, Attention(v)) /\ Attention(v).next.phase = "needs-attention"
      BY <1>0, AttentionFits DEF Attention, State
    <3> QED BY <1>0, <3>1 DEF Fits, Plan
  <2> HIDE DEF next
  <2> QED BY <2>1, <2>2, DriveStep DEF Underway, Preparing, Publishing
<1> QED BY <1>1, <1>2, <1>3, <1>4, <1>5, <1>6, <1>7, <1>8

LEMMA DriverTypes ==
    IInv => /\ driver.view \in State /\ driver.did \in Slot /\ head \in State
            /\ publication \in Identity /\ runtime \in [Instances -> Process]
BY DEF IInv, TypeOK

LEMMA StageCandidateStep ==
    ASSUME IInv, NEW c \in Instances, StageCandidate(c)
    PROVE  IInv'
<1> DEFINE id == [inst |-> c, gen |-> head.active.gen + 1]
           next == [head EXCEPT !.phase = "candidate-starting", !.candidate = id]
<1>1. /\ head.phase = "stable" /\ runtime[c].up = "unborn" /\ head.active.gen < MaxGeneration
      /\ head' = next
      /\ driver' = [NoDriver EXCEPT !.driving = TRUE, !.view = head', !.headFresh = TRUE]
      /\ recovery' = [recovery EXCEPT !.headFresh = FALSE]
      /\ runtime' = [runtime EXCEPT ![c].up = "staged"]
      /\ UNCHANGED <<publication, registered, bound, faults>>
  BY DEF StageCandidate
<1>2. /\ c \notin Known(head) \cup Known(recovery.source)
      /\ c # publication.inst /\ c # First /\ c # None
  BY <1>1 DEF IInv, UnbornIsUnknown
<1>3. id \in Identity /\ id \in Slot /\ id.inst = c
  BY <1>1, StateTypes, DriverTypes DEF Identity, Slot, Generation
<1> HIDE DEF id
<1>4. /\ next \in State /\ next.phase = "candidate-starting" /\ next.candidate = id
      /\ next.active = head.active /\ next.previous = head.previous
  BY <1>3, DriverTypes DEF State, Phases, Preparing
<1>5. Sound(next) /\ Known(next) \subseteq Known(head) \cup {c}
  BY <1>2, <1>3, <1>4 DEF Sound, Known, IInv, StatesAreSound
<1> HIDE DEF next
<1>6. /\ driver' \in [driving : BOOLEAN, view : State, did : Slot, rebound : BOOLEAN,
                      headFresh : BOOLEAN, pubFresh : BOOLEAN]
      /\ driver'.view = next /\ driver'.did = Nobody /\ ~driver'.rebound
      /\ driver'.driving /\ ~driver'.pubFresh
  BY <1>1, <1>4, NoDriverTypes
<1>7. /\ ~recovery'.headFresh /\ recovery'.source = recovery.source
      /\ recovery'.step = recovery.step /\ recovery'.index = recovery.index
      /\ recovery'.plan = recovery.plan /\ recovery'.pub = recovery.pub
      /\ recovery'.sawPublication = recovery.sawPublication
      /\ recovery'.pubFresh = recovery.pubFresh
  BY <1>1 DEF IInv, TypeOK
<1>8. /\ runtime' \in [Instances -> Process]
      /\ \A i \in Instances : runtime'[i].up = "unborn" => i # c /\ runtime[i].up = "unborn"
  BY <1>1 DEF IInv, TypeOK, Process
<1>9. TypeOK'
  BY <1>1, <1>4, <1>6, <1>8 DEF IInv, TypeOK
<1>10. StatesAreSound'
  BY <1>1, <1>5, <1>6, <1>7 DEF IInv, StatesAreSound
<1>11. UnbornIsUnknown'
  BY <1>1, <1>5, <1>6, <1>7, <1>8, SlotTypes DEF IInv, UnbornIsUnknown
<1>12. (HeadIsKnown /\ LostToDriver /\ PlanIsFollowed /\ PublicationIsKnown /\ PlanIsSound)'
  BY <1>1, <1>6, <1>7
  DEF IInv, HeadIsKnown, LostToDriver, PlanIsFollowed, PublicationIsKnown, PlanIsSound
<1>13. CandidateIsNew'
  BY <1>1, <1>2, <1>3, <1>4, <1>7 DEF CandidateIsNew, Known
<1> QED BY <1>9, <1>10, <1>11, <1>12, <1>13 DEF IInv

(* A driver that begins or ends where the ledger is.                       *)
LEMMA DriverChanges == ASSUME IInv, TakeOver \/ DriverStops PROVE IInv'
<1>1. /\ driver' = NoDriver
         \/ driver' = [NoDriver EXCEPT !.driving = TRUE, !.view = head, !.headFresh = TRUE]
      /\ UNCHANGED <<head, runtime, publication, registered, bound, recovery, faults>>
  BY DEF TakeOver, DriverStops
<1>2. /\ driver' \in [driving : BOOLEAN, view : State, did : Slot, rebound : BOOLEAN,
                      headFresh : BOOLEAN, pubFresh : BOOLEAN]
      /\ driver'.view = FirstState \/ driver'.view = head
      /\ driver'.headFresh => driver'.driving /\ driver'.view = head
      /\ driver'.did = Nobody /\ ~driver'.rebound /\ ~driver'.pubFresh
  BY <1>1, NoDriverTypes, DriverTypes
<1>3. TypeOK'
  BY <1>1, <1>2 DEF IInv, TypeOK
<1>4. StatesAreSound'
  BY <1>1, <1>2, FirstTypes DEF IInv, StatesAreSound
<1>5. UnbornIsUnknown'
  BY <1>1, <1>2, FirstTypes, SlotTypes DEF IInv, UnbornIsUnknown
<1>6. (HeadIsKnown /\ LostToDriver /\ PublicationIsKnown /\ PlanIsSound /\ CandidateIsNew)'
  BY <1>1, <1>2
  DEF IInv, HeadIsKnown, LostToDriver, PublicationIsKnown, PlanIsSound, CandidateIsNew
<1>7. PlanIsFollowed'
  BY <1>1, <1>2 DEF IInv, PlanIsFollowed, Done
<1> QED BY <1>3, <1>4, <1>5, <1>6, <1>7 DEF IInv

(* The publication of a driver, of a Runtime that is not a stranger.       *)
LEMMA DriverPublishesStep ==
    ASSUME IInv, NEW id \in Identity, DriverPublishes(id),
           id.inst \in Known(driver.view),
           driver.view.phase = "rolling-back" \/ id = driver.view.candidate,
           UNCHANGED <<head, registered, faults>>,
           runtime' \in [Instances -> Process],
           \A i \in Instances : runtime'[i].up = "unborn" => runtime[i].up = "unborn"
    PROVE  IInv'
<1>1. /\ driver.driving /\ driver.pubFresh /\ publication' = id /\ bound' = {}
      /\ driver' = [driver EXCEPT !.pubFresh = FALSE, !.did = id]
      /\ recovery' = [recovery EXCEPT !.pubFresh = FALSE]
  BY DEF DriverPublishes
<1>2. /\ driver.view.phase \in Moving
      /\ driver.view = head \/ head.phase = "needs-attention"
  BY <1>1 DEF IInv, PublicationIsKnown, HeadIsKnown
<1>3. /\ driver' \in [driving : BOOLEAN, view : State, did : Slot, rebound : BOOLEAN,
                      headFresh : BOOLEAN, pubFresh : BOOLEAN]
      /\ driver'.view = driver.view /\ driver'.did = id /\ ~driver'.pubFresh
      /\ driver'.driving = driver.driving /\ driver'.headFresh = driver.headFresh
      /\ id # Nobody /\ id \in Slot
  BY <1>1, SlotTypes DEF IInv, TypeOK, Identity
<1>4. /\ recovery'.headFresh = recovery.headFresh /\ recovery'.source = recovery.source
      /\ recovery'.step = recovery.step /\ recovery'.index = recovery.index
      /\ recovery'.plan = recovery.plan /\ recovery'.pub = recovery.pub
      /\ recovery'.sawPublication = recovery.sawPublication /\ ~recovery'.pubFresh
  BY <1>1 DEF IInv, TypeOK
<1>5. TypeOK'
  BY <1>1, <1>3 DEF IInv, TypeOK
<1>6. StatesAreSound'
  BY <1>3, <1>4 DEF IInv, StatesAreSound
<1>7. UnbornIsUnknown'
  BY <1>1, <1>3, <1>4 DEF IInv, UnbornIsUnknown
<1>8. (HeadIsKnown /\ PublicationIsKnown /\ PlanIsSound)'
  BY <1>3, <1>4 DEF IInv, HeadIsKnown, PublicationIsKnown, PlanIsSound
<1>9. CandidateIsNew'
  <2> SUFFICES ASSUME head.phase \in Underway
               PROVE  /\ head.candidate.inst # First
                      /\ head.candidate.inst # recovery'.source.active.inst
                      /\ head.candidate.inst # recovery'.source.previous.inst
                      /\ publication'.inst = head.candidate.inst =>
                            head.phase = "publishing" /\ ~driver'.pubFresh
    BY DEF CandidateIsNew
  <2>1. head.phase = "publishing"
    BY <1>2 DEF Moving, Underway, Preparing, Publishing
  <2> QED BY <1>3, <1>4, <2>1 DEF IInv, CandidateIsNew
<1>10. LostToDriver'
  <2> SUFFICES ASSUME recovery.headFresh, recovery.sawPublication
               PROVE  /\ head.phase \in Moving \cup {"needs-attention"}
                      /\ head.phase = "publishing" => recovery.pub.inst # head.candidate.inst
    BY <1>4 DEF LostToDriver
  <2>1. head.phase \in Moving \cup {"needs-attention"}
    BY <1>2
  <2>2. head.phase = "publishing" /\ recovery.pubFresh =>
          recovery.pub.inst # head.candidate.inst
    BY <1>1 DEF IInv, CandidateIsNew, PublicationIsKnown, Underway, Publishing
  <2>3. head.phase = "publishing" /\ ~recovery.pubFresh =>
          recovery.pub.inst # head.candidate.inst
    BY DEF IInv, LostToDriver
  <2> QED BY <2>1, <2>2, <2>3
<1>11. PlanIsFollowed'
  <2> SUFFICES ASSUME recovery.step = "acting", recovery.headFresh
               PROVE  /\ ~Done("publish")
                      /\ Keeps(recovery.source, recovery.pub, recovery.plan)
                      /\ recovery.source.phase \in Ending => ~Done("rebind")
    BY <1>4 DEF PlanIsFollowed, Done
  <2>1. ~Done("publish") /\ Keeps(recovery.source, recovery.pub, recovery.plan)
    BY <1>1 DEF IInv, PlanIsFollowed
  <2>2. ASSUME recovery.source.phase \in Ending, Done("rebind")  PROVE FALSE
    <3> DEFINE p == recovery.plan
    <3>1. /\ Fits(head, p) /\ recovery.source = head /\ recovery.sawPublication
          /\ head.phase \in {"publishing", "rolling-back"}
          /\ recovery.index \in Nat /\ Len(p.actions) \in Nat
      BY <1>2, <2>2
      DEF IInv, PlanIsSound, HeadIsKnown, TypeOK, Plan, Ending, Publishing, Moving
    <3>2. PICK k \in 1 .. Len(p.actions) : k < recovery.index /\ p.actions[k].kind = "rebind"
      BY <2>2 DEF Done
    <3>3. ~Has(p.actions, "publish") /\ p.outcome # "needs-attention"
      BY <2>1, <3>1, <3>2 DEF Fits, InOrder, Has, Done
    <3>4. head.phase = "publishing" /\ recovery.pub.inst = head.candidate.inst
      BY <2>1, <3>1, <3>3 DEF Keeps
    <3>5. recovery.pubFresh
      BY <3>1, <3>4 DEF IInv, LostToDriver
    <3> QED BY <1>1, <3>4, <3>5 DEF IInv, PublicationIsKnown, CandidateIsNew, Underway, Publishing
  <2> QED BY <2>1, <2>2
<1> QED BY <1>5, <1>6, <1>7, <1>8, <1>9, <1>10, <1>11 DEF IInv

LEMMA DriverPublishesCases == ASSUME IInv, PublishCandidate \/ RestorePrevious PROVE IInv'
<1>1. CASE PublishCandidate
  <2> DEFINE id == driver.view.candidate
  <2>1. /\ driver.view.phase = "publishing" /\ DriverPublishes(id)
        /\ UNCHANGED <<head, runtime, registered, faults>>
    BY <1>1 DEF PublishCandidate
  <2>2. id \in Identity /\ id.inst \in Known(driver.view)
    BY <2>1, StateTypes, DriverTypes
    DEF IInv, StatesAreSound, Sound, Underway, Publishing, Known
  <2> HIDE DEF id
  <2>3. runtime' \in [Instances -> Process] /\ runtime' = runtime
    BY <2>1, DriverTypes
  <2> QED BY <2>1, <2>2, <2>3, DriverPublishesStep DEF id
<1>2. CASE RestorePrevious
  <2> DEFINE previous == driver.view.previous
             gen == Newest(driver.view, runtime, publication) + 1
             id == [previous EXCEPT !.gen = gen]
  <2>1. /\ driver.view.phase = "rolling-back" /\ DriverPublishes(id)
        /\ Alive(runtime[previous.inst]) /\ gen <= MaxGeneration
        /\ runtime' = [runtime EXCEPT ![previous.inst].gen = gen]
        /\ UNCHANGED <<head, registered, faults>>
    BY <1>2 DEF RestorePrevious
  <2>2. gen \in Generation
    <3>1. Newest(driver.view, runtime, publication) \in Generation
      BY DriverTypes, SlotTypes, NewestTypes
    <3> QED BY <2>1, <3>1 DEF Generation
  <2>3. previous \in Slot /\ previous \in [inst : Instances \cup {None}, gen : Generation]
    BY DriverTypes, StateTypes, SlotTypes DEF Slot, Identity, Nobody
  <2> HIDE DEF gen
  <2>4. /\ runtime' \in [Instances -> Process]
        /\ \A i \in Instances : runtime'[i].up = "unborn" => runtime[i].up = "unborn"
    BY <2>1, <2>2, DriverTypes DEF Process
  <2>5. id.inst = previous.inst
    BY <2>3
  <2>6. previous.inst \in Instances
    BY <2>1, <2>3 DEF IInv, StatesAreSound, Sound
  <2>7. id \in Identity /\ id.inst \in Known(driver.view)
    BY <2>2, <2>3, <2>5, <2>6 DEF Identity, Known
  <2> QED BY <2>1, <2>4, <2>7, DriverPublishesStep
<1> QED BY <1>1, <1>2

-----------------------------------------------------------------------------
(* The sessions and the processes.                                         *)

(* Steps that touch neither the ledger, nor the publication, nor a recovery. *)
Beside ==
    /\ UNCHANGED <<head, publication, recovery>>
    /\ runtime' \in [Instances -> Process]
    /\ \A i \in Instances : runtime'[i].up = "unborn" => runtime[i].up = "unborn"
    /\ registered' \subseteq Sessions /\ bound' \subseteq registered'
    /\ bound = registered => bound' = registered'
    /\ \/ driver' = driver
       \/ driver' = [driver EXCEPT !.rebound = TRUE] /\ driver.did \in Identity
    /\ faults' \in 0 .. MaxFaults

LEMMA BesideStep == IInv /\ Beside => IInv'
<1> SUFFICES ASSUME IInv, Beside PROVE IInv'
  OBVIOUS
<1>1. /\ driver' \in [driving : BOOLEAN, view : State, did : Slot, rebound : BOOLEAN,
                      headFresh : BOOLEAN, pubFresh : BOOLEAN]
      /\ driver'.view = driver.view /\ driver'.did = driver.did
      /\ driver'.driving = driver.driving /\ driver'.headFresh = driver.headFresh
      /\ driver'.pubFresh = driver.pubFresh
      /\ driver'.rebound => driver.rebound \/ driver.did # Nobody
  <2>1. driver \in [driving : BOOLEAN, view : State, did : Slot, rebound : BOOLEAN,
                    headFresh : BOOLEAN, pubFresh : BOOLEAN]
    BY DEF IInv, TypeOK
  <2>2. driver.did \in Identity => driver.did # Nobody
    BY SlotTypes DEF Identity
  <2>3. CASE driver' = driver
    BY <2>1, <2>3
  <2>4. CASE driver' = [driver EXCEPT !.rebound = TRUE] /\ driver.did \in Identity
    BY <2>1, <2>2, <2>4
  <2> QED BY <2>3, <2>4 DEF Beside
<1>2. TypeOK'
  BY <1>1 DEF IInv, TypeOK, Beside
<1>3. (StatesAreSound /\ HeadIsKnown /\ PublicationIsKnown /\ CandidateIsNew /\ LostToDriver
         /\ PlanIsSound)'
  BY <1>1
  DEF Beside, IInv, StatesAreSound, HeadIsKnown, PublicationIsKnown, CandidateIsNew, LostToDriver,
      PlanIsSound
<1>4. UnbornIsUnknown'
  BY <1>1 DEF Beside, IInv, UnbornIsUnknown
<1>5. PlanIsFollowed'
  BY <1>1 DEF Beside, IInv, PlanIsFollowed, Done
<1> QED BY <1>2, <1>3, <1>4, <1>5 DEF IInv

LEMMA BesideCases ==
    ASSUME IInv,
           \/ StartCandidate \/ DriverRebinds
           \/ \E s \in Sessions : Register(s) \/ Unregister(s)
           \/ \E i \in Instances : RuntimeFails(i) \/ RuntimeHeals(i)
    PROVE  IInv'
<1>1. CASE StartCandidate
  <2> DEFINE id == driver.view.candidate
  <2>1. runtime' = [runtime EXCEPT ![id.inst] = [up |-> "well", gen |-> id.gen]]
        /\ UNCHANGED <<head, publication, registered, bound, recovery, driver, faults>>
    BY <1>1 DEF StartCandidate
  <2>2. id.gen \in Generation
    BY DriverTypes, StateTypes DEF Slot, Identity, Nobody, Generation
  <2> HIDE DEF id
  <2>3. /\ runtime' \in [Instances -> Process]
        /\ \A i \in Instances : runtime'[i].up = "unborn" => runtime[i].up = "unborn"
    BY <2>1, <2>2, DriverTypes DEF Process
  <2>4. Beside
    BY <2>1, <2>3 DEF Beside, IInv, TypeOK
  <2> QED BY <2>4, BesideStep
<1>2. CASE DriverRebinds
  BY <1>2, BesideStep DEF DriverRebinds, Beside, IInv, TypeOK
<1>3. CASE \E s \in Sessions : Register(s) \/ Unregister(s)
  BY <1>3, BesideStep DEF Register, Unregister, Beside, IInv, TypeOK
<1>4. CASE \E i \in Instances : RuntimeFails(i) \/ RuntimeHeals(i)
  <2>1. PICK i \in Instances : RuntimeFails(i) \/ RuntimeHeals(i)
    BY <1>4
  <2>2. \E up \in {"sick", "down", "well"} : runtime' = [runtime EXCEPT ![i].up = up]
    BY <2>1 DEF RuntimeFails, RuntimeHeals
  <2>3. /\ UNCHANGED <<head, publication, registered, bound, recovery, driver>>
        /\ faults' \in 0 .. MaxFaults
    BY <2>1 DEF RuntimeFails, RuntimeHeals, Fault, IInv, TypeOK
  <2>4. /\ runtime' \in [Instances -> Process]
        /\ \A j \in Instances : runtime'[j].up = "unborn" => runtime[j].up = "unborn"
    BY <2>2, DriverTypes DEF Process
  <2>5. Beside
    BY <2>3, <2>4 DEF Beside, IInv, TypeOK
  <2> QED BY <2>5, BesideStep
<1> QED BY <1>1, <1>2, <1>3, <1>4

-----------------------------------------------------------------------------
(* The theorems.                                                           *)

LEMMA NextInvariant == IInv /\ [Next]_vars => IInv'
<1> SUFFICES ASSUME IInv, [Next]_vars PROVE IInv'
  OBVIOUS
<1>1. CASE RecoveryStep
  BY <1>1, LoadHeadStep, ObserveRuntimesStep, ReadPublicationStep, DecidePlanStep,
     ActionSucceedsStep, WithdrawnCases, CommitRecoveryStep
  DEF RecoveryStep
<1>2. CASE DriverStep
  BY <1>2, StageCandidateStep, DriverChanges, BesideCases, DriveCases, DriverPublishesCases
  DEF DriverStep
<1>3. CASE Environment
  BY <1>3, ActionFailsStep, WithdrawnCases, CrashStep, BesideCases DEF Environment
<1>4. CASE UNCHANGED vars
  BY <1>4
  DEF vars, IInv, TypeOK, StatesAreSound, UnbornIsUnknown, HeadIsKnown, PublicationIsKnown,
      CandidateIsNew, LostToDriver, PlanIsSound, PlanIsFollowed, Done
<1> QED BY <1>1, <1>2, <1>3, <1>4 DEF Next

LEMMA Invariance == Spec => []IInv
<1>1. Init => IInv
  BY InitInvariant
<1>2. IInv /\ [Next]_vars => IInv'
  BY NextInvariant
<1> QED BY <1>1, <1>2, PTL DEF Spec

(* Every variable of the supervisor keeps its type.                        *)
THEOREM TypeCorrect == Spec => []TypeOK
<1>1. IInv => TypeOK
  BY DEF IInv
<1> QED BY <1>1, Invariance, PTL

(* A recovery that is committed, other than as a need for attention, leaves*)
(* the ledger at the Runtime that is published, and after an interrupted   *)
(* transition every managed session there too (runtime-supervisor.ts,      *)
(* recover; the compare-and-swap of the store).                            *)
THEOREM CommitsArePublished == Spec => CommitIsPublished
<1>1. IInv /\ [Next]_vars =>
        [CommitRecovery /\ recovery.plan.outcome # "needs-attention" =>
           /\ publication = head'.active
           /\ head.phase \in Publishing \cup {"rolling-back"} => bound = registered]_vars
  BY Committed DEF CommitRecovery, Ending
<1> QED BY <1>1, Invariance, PTL DEF Spec, CommitIsPublished

(* A recovery whose ledger nobody else has moved on stops no Runtime that  *)
(* is published at that moment (the order of the actions of a plan).       *)
THEOREM PublishedAreNotStopped == Spec => StopsOnlyLosers
<1>1. ASSUME IInv, NEW i \in Instances, Acting, Current.kind = "stop", Current.on.inst = i,
             recovery.headFresh
      PROVE  publication.inst # i
  <2> DEFINE p == recovery.plan
             k == recovery.index
  <2>1. /\ recovery.step = "acting" /\ Fits(head, p) /\ recovery.source = head
        /\ k \in 1 .. Len(p.actions) /\ Current = p.actions[k] /\ recovery.sawPublication
    BY <1>1 DEF Acting, Current, IInv, PlanIsSound, HeadIsKnown, TypeOK, Plan
  <2>2. /\ i # p.next.active.inst
        /\ \/ \E j \in 1 .. Len(p.actions) : j < k /\ p.actions[j].kind = "publish"
           \/ head.phase \in Preparing /\ Current.on = head.candidate
    BY <1>1, <2>1 DEF Fits, InOrder
  <2>3. CASE \E j \in 1 .. Len(p.actions) : j < k /\ p.actions[j].kind = "publish"
    <3>1. Done("publish")
      BY <2>3 DEF Done
    <3>2. publication = p.next.active
      BY <1>1, <2>1, <3>1 DEF IInv, PlanIsFollowed, PublicationIsKnown
    <3> QED BY <2>2, <3>2
  <2>4. CASE head.phase \in Preparing /\ Current.on = head.candidate
    BY <1>1, <2>4 DEF IInv, CandidateIsNew, Underway, Preparing
  <2> QED BY <2>2, <2>3, <2>4
<1>2. IInv /\ [Next]_vars =>
        [\A i \in Instances :
           /\ Acting /\ Current.kind = "stop" /\ Current.on.inst = i /\ recovery.headFresh
           /\ Alive(runtime[i]) /\ runtime'[i].up = "down"
           => publication.inst # i]_vars
  BY <1>1
<1> QED BY <1>2, Invariance, PTL DEF Spec, StopsOnlyLosers
=============================================================================
