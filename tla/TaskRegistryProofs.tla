------------------------- MODULE TaskRegistryProofs -------------------------
(***************************************************************************)
(* Theorems about TaskRegistry, for every set of Tasks, Agents, principals *)
(* and sessions and every bound of the clock.                              *)
(*                                                                         *)
(* The invariants the runs check are not inductive: that an open lease is  *)
(* the owner's survives a renewal only if the renewed row is valid and     *)
(* seen no later than the clock can be, survives the creation of a Task    *)
(* only if a Task that does not exist has no lease, and survives the       *)
(* reopening of an inferred Task only if that Task never left its          *)
(* principal.  IInv is their conjunction.  The first part holds the lemmas *)
(* about the operators of TaskSessionLeases: what the methods of the lease *)
(* store preserve, for every table.  The last two add to IInv what it      *)
(* takes to prove that one generation of the internal key is open and that *)
(* a success is granted on the latest evidence.                            *)
(***************************************************************************)
EXTENDS TaskRegistry, WellFoundedInduction, TLAPS

-----------------------------------------------------------------------------
(* The lease store.                                                        *)

(* A row no method of the store may leave in a table.                      *)
ValidRow(row) ==
  /\ row.lastSeen <= row.expires
  /\ IsOpen(row) => row.expires = Expiry(row.lastSeen)
  /\ IsClosed(row) => row.lastSeen <= row.closedAt /\ row.expires <= row.closedAt

(* A table whose rows are valid and whose open leases are those of (a, p). *)
HeldOnlyBy(ls, a, p) ==
  \A k \in Key : ls[k] # NoLease =>
    ValidRow(ls[k]) /\ (IsOpen(ls[k]) => HeldBy(ls[k], a, p))

Sound(ls, a, p) == ls \in LeaseTable /\ HeldOnlyBy(ls, a, p)

(* What a call at time at may do to a table: no row disappears or changes  *)
(* hands, no closed row changes, nothing is seen earlier than it was, and  *)
(* what is seen later is seen at that time.                                *)
Evolves(new, old, at) ==
  \A k \in Key :
    /\ old[k] # NoLease =>
         /\ HeldBy(new[k], old[k].agent, old[k].principal)
         /\ IsClosed(old[k]) => new[k] = old[k]
         /\ new[k].lastSeen >= old[k].lastSeen
    /\ new[k] # NoLease =>
         \/ new[k].lastSeen = at
         \/ old[k] # NoLease /\ new[k].lastSeen = old[k].lastSeen

(* A new row is valid, open, and its holder's.                             *)
LEMMA FreshLeaseSound ==
  ASSUME NEW a \in Agent, NEW p \in Principal, NEW at \in Nat
  PROVE  /\ FreshLease(a, p, at) \in Lease
         /\ FreshLease(a, p, at) # NoLease
         /\ ValidRow(FreshLease(a, p, at))
         /\ IsOpen(FreshLease(a, p, at))
         /\ HeldBy(FreshLease(a, p, at), a, p)
         /\ FreshLease(a, p, at).lastSeen = at
<1>1. FreshLease(a, p, at) \in Lease
  BY LeaseTimesAssumption DEF FreshLease, Lease, Expiry, NotClosed
<1>2. FreshLease(a, p, at) # NoLease
  BY <1>1, LeaseNamesAssumption
<1> QED
  BY <1>1, <1>2, LeaseTimesAssumption
  DEF FreshLease, Expiry, NotClosed, ValidRow, IsOpen, IsClosed, HeldBy

(* Renewing an open row keeps it open and its holder's, and seen later.    *)
LEMMA RenewalSound ==
  ASSUME NEW row \in Lease, NEW at \in Nat, IsOpen(row), at >= row.lastSeen
  PROVE  /\ Renewal(row, at) \in Lease
         /\ Renewal(row, at) # NoLease
         /\ ValidRow(Renewal(row, at))
         /\ IsOpen(Renewal(row, at))
         /\ HeldBy(Renewal(row, at), row.agent, row.principal)
         /\ Renewal(row, at).lastSeen = at
<1>1. Renewal(row, at) \in Lease
  <2>1. Expiry(at) \in Nat
    BY LeaseTimesAssumption DEF Expiry
  <2> QED
    BY <2>1 DEF Renewal, Lease
<1>2. Renewal(row, at) # NoLease
  BY <1>1, LeaseNamesAssumption
<1> QED
  BY <1>1, <1>2, LeaseTimesAssumption
  DEF Renewal, Lease, Expiry, NotClosed, ValidRow, IsOpen, IsClosed, HeldBy

(* Closing an open row yields a valid closed row of the same holder.       *)
LEMMA ClosureSound ==
  ASSUME NEW row \in Lease, NEW at \in Nat, IsOpen(row), ValidRow(row)
  PROVE  /\ Closure(row, at) \in Lease
         /\ Closure(row, at) # NoLease
         /\ ValidRow(Closure(row, at))
         /\ ~IsOpen(Closure(row, at))
         /\ HeldBy(Closure(row, at), row.agent, row.principal)
         /\ Closure(row, at).lastSeen = row.lastSeen
<1>1. Closure(row, at) \in Lease
  BY DEF Closure, Lease, Later, Earlier
<1>2. Closure(row, at) # NoLease
  BY <1>1, LeaseNamesAssumption
<1>3. row.lastSeen \in Nat /\ row.expires \in Nat /\ row.lastSeen <= row.expires
  BY DEF Lease, ValidRow
<1>4. ValidRow(Closure(row, at)) /\ ~IsOpen(Closure(row, at))
  BY <1>3, <1>2 DEF Closure, Later, Earlier, ValidRow, IsOpen, IsClosed, NotClosed, Lease
<1> QED
  BY <1>1, <1>2, <1>4 DEF Closure, HeldBy, Lease

(* A table in which one row was put for (a, p), where there was none or an *)
(* open one of the same holder, seen no later.                             *)
LEMMA PutSound ==
  ASSUME NEW ls, NEW a, NEW p, Sound(ls, a, p),
         NEW at, NEW k, NEW row \in Lease,
         row # NoLease, ValidRow(row), HeldBy(row, a, p), row.lastSeen = at,
         k \in Key => \/ ls[k] = NoLease
                      \/ /\ IsOpen(ls[k])
                         /\ row.lastSeen >= ls[k].lastSeen
  PROVE  Sound([ls EXCEPT ![k] = row], a, p) /\ Evolves([ls EXCEPT ![k] = row], ls, at)
<1> DEFINE new == [ls EXCEPT ![k] = row]
<1>1. new \in LeaseTable
  BY DEF Sound, LeaseTable
<1>2. \A j \in Key : new[j] = IF j = k THEN row ELSE ls[j]
  BY DEF Sound, LeaseTable
<1>3. HeldOnlyBy(new, a, p)
  BY <1>2 DEF Sound, HeldOnlyBy
<1>4. ASSUME NEW j \in Key, ls[j] # NoLease
      PROVE  /\ HeldBy(new[j], ls[j].agent, ls[j].principal)
             /\ IsClosed(ls[j]) => new[j] = ls[j]
             /\ new[j].lastSeen >= ls[j].lastSeen
  <2>1. ls[j] \in Lease
    BY <1>4 DEF Sound, LeaseTable
  <2>2. CASE j # k
    BY <1>2, <1>4, <2>1, <2>2 DEF HeldBy, Lease
  <2>3. CASE j = k
    <3>1. IsOpen(ls[j]) /\ row.lastSeen >= ls[j].lastSeen
      BY <1>4, <2>3
    <3>2. HeldBy(ls[j], a, p)
      BY <1>4, <3>1 DEF Sound, HeldOnlyBy
    <3> QED
      BY <1>2, <2>3, <3>1, <3>2 DEF HeldBy, IsOpen, IsClosed
  <2> QED
    BY <2>2, <2>3
<1>5. ASSUME NEW j \in Key, new[j] # NoLease
      PROVE  new[j].lastSeen = at \/ (ls[j] # NoLease /\ new[j].lastSeen = ls[j].lastSeen)
  BY <1>2, <1>5
<1> HIDE DEF new
<1>6. Evolves(new, ls, at)
  BY <1>4, <1>5 DEF Evolves
<1> QED
  BY <1>1, <1>3, <1>6 DEF Sound, new

(* A touch that touchTask lets through: an unbound key, or an open lease   *)
(* of the caller.                                                          *)
TouchAllowed(ls, s, a, p) ==
  LET k == TouchKey(ls, s, a, p)
  IN  Bound(ls, k) => HeldBy(ls[k], a, p) /\ IsOpen(ls[k])

LEMMA TouchedSound ==
  ASSUME NEW ls, NEW a \in Agent, NEW p \in Principal, NEW s, NEW at \in Nat,
         Sound(ls, a, p), TouchAllowed(ls, s, a, p)
  PROVE  Sound(Touched(ls, s, a, p, at), a, p) /\ Evolves(Touched(ls, s, a, p, at), ls, at)
<1> DEFINE k == TouchKey(ls, s, a, p)
<1> HIDE DEF k
<1>1. Touched(ls, s, a, p, at) =
        IF ~Bound(ls, k) THEN [ls EXCEPT ![k] = FreshLease(a, p, at)]
        ELSE IF at > ls[k].lastSeen THEN [ls EXCEPT ![k] = Renewal(ls[k], at)] ELSE ls
  BY DEF Touched, k
<1>2. CASE ~Bound(ls, k)
  <2>1. k \in Key => ls[k] = NoLease
    BY <1>2 DEF Bound
  <2>2. Touched(ls, s, a, p, at) = [ls EXCEPT ![k] = FreshLease(a, p, at)]
    BY <1>1, <1>2
  <2>3. LET row == FreshLease(a, p, at)
        IN  row \in Lease /\ row # NoLease /\ ValidRow(row) /\ HeldBy(row, a, p) /\ row.lastSeen = at
    BY FreshLeaseSound
  <2>4. /\ Sound([ls EXCEPT ![k] = FreshLease(a, p, at)], a, p)
        /\ Evolves([ls EXCEPT ![k] = FreshLease(a, p, at)], ls, at)
    BY <2>1, <2>3, PutSound
  <2> QED
    BY <2>2, <2>4
<1>3. Sound(ls, a, p) /\ Evolves(ls, ls, at)
  BY DEF Sound, Evolves, HeldBy, LeaseTable, Lease
<1>4. CASE Bound(ls, k) /\ at > ls[k].lastSeen
  <2>1. HeldBy(ls[k], a, p) /\ IsOpen(ls[k])
    BY <1>4 DEF TouchAllowed, k
  <2>2. CASE k \in Key
    <3>1. ls[k] \in Lease
      BY <1>4, <2>2 DEF Bound, Sound, LeaseTable
    <3>2. ls[k].lastSeen \in Nat
      BY <3>1 DEF Lease
    <3>3. at >= ls[k].lastSeen
      BY <1>4, <3>2
    <3>4. /\ Renewal(ls[k], at) \in Lease
          /\ Renewal(ls[k], at) # NoLease
          /\ ValidRow(Renewal(ls[k], at))
          /\ HeldBy(Renewal(ls[k], at), ls[k].agent, ls[k].principal)
          /\ Renewal(ls[k], at).lastSeen = at
      BY <3>1, <3>3, <2>1, RenewalSound
    <3>5. HeldBy(Renewal(ls[k], at), a, p)
      BY <3>4, <2>1 DEF HeldBy
    <3> QED
      BY <1>1, <1>4, <2>1, <3>3, <3>4, <3>5, PutSound
  <2>3. CASE k \notin Key
    <3>1. [ls EXCEPT ![k] = Renewal(ls[k], at)] = ls
      BY <2>3 DEF Sound, LeaseTable
    <3> QED
      BY <1>1, <1>4, <3>1, <1>3
  <2> QED
    BY <2>2, <2>3
<1>5. CASE Bound(ls, k) /\ ~(at > ls[k].lastSeen)
  BY <1>1, <1>5, <1>3
<1> QED
  BY <1>2, <1>4, <1>5

(* Renewal by the traffic of a session, of the owner's live leases only.   *)
LEMMA RenewedSound ==
  ASSUME NEW ls, NEW a, NEW p, NEW s, NEW at \in Nat, Sound(ls, a, p)
  PROVE  /\ Sound(Renewed(ls, s, a, p, at), a, p)
         /\ Evolves(Renewed(ls, s, a, p, at), ls, at)
         /\ \A k \in Key : ls[k] # NoLease /\ ~IsLive(ls[k], at)
              => Renewed(ls, s, a, p, at)[k] = ls[k]
<1>1. CASE ~(s \in Session /\ Renewable(ls[s], a, p, at))
  <2>1. Renewed(ls, s, a, p, at) = ls
    BY <1>1 DEF Renewed
  <2> QED
    BY <2>1 DEF Sound, Evolves, HeldBy, LeaseTable, Lease
<1>2. CASE s \in Session /\ Renewable(ls[s], a, p, at)
  <2>1. Renewed(ls, s, a, p, at) = [ls EXCEPT ![s] = Renewal(ls[s], at)]
    BY <1>2 DEF Renewed
  <2>2. s \in Key /\ HeldBy(ls[s], a, p) /\ IsOpen(ls[s]) /\ IsLive(ls[s], at) /\ ls[s].lastSeen < at
    BY <1>2 DEF Renewable, IsLive, Key
  <2>3. ls[s] \in Lease
    BY <2>2 DEF HeldBy, Sound, LeaseTable
  <2>4. ls[s].lastSeen \in Nat
    BY <2>3 DEF Lease
  <2>5. at >= ls[s].lastSeen
    BY <2>2, <2>4
  <2>6. /\ Renewal(ls[s], at) \in Lease
        /\ Renewal(ls[s], at) # NoLease
        /\ ValidRow(Renewal(ls[s], at))
        /\ HeldBy(Renewal(ls[s], at), ls[s].agent, ls[s].principal)
        /\ Renewal(ls[s], at).lastSeen = at
    BY <2>2, <2>3, <2>5, RenewalSound
  <2>7. HeldBy(Renewal(ls[s], at), a, p)
    BY <2>2, <2>6 DEF HeldBy
  <2>8. Sound(Renewed(ls, s, a, p, at), a, p) /\ Evolves(Renewed(ls, s, a, p, at), ls, at)
    <3>1. /\ Sound([ls EXCEPT ![s] = Renewal(ls[s], at)], a, p)
          /\ Evolves([ls EXCEPT ![s] = Renewal(ls[s], at)], ls, at)
      BY <2>2, <2>5, <2>6, <2>7, PutSound
    <3> QED
      BY <2>1, <3>1
  <2>9. \A k \in Key : k # s => Renewed(ls, s, a, p, at)[k] = ls[k]
    BY <2>1 DEF Sound, LeaseTable
  <2> QED
    BY <2>2, <2>8, <2>9
<1> QED
  BY <1>1, <1>2

(* A message binds a first lease or renews a live one, never another's.    *)
LEMMA ObservedSound ==
  ASSUME NEW ls, NEW a \in Agent, NEW p \in Principal, NEW s \in Session, NEW at \in Nat,
         Sound(ls, a, p), CanObserve(ls, s, a, p, at)
  PROVE  /\ Sound(Observed(ls, s, a, p, at), a, p)
         /\ Evolves(Observed(ls, s, a, p, at), ls, at)
         /\ \A k \in Key : ls[k] # NoLease /\ ~IsLive(ls[k], at)
              => Observed(ls, s, a, p, at)[k] = ls[k]
<1>1. CASE Bound(ls, s)
  <2>1. Observed(ls, s, a, p, at) = Renewed(ls, s, a, p, at)
    BY <1>1 DEF Observed
  <2> QED
    BY <2>1, RenewedSound
<1>2. CASE ~Bound(ls, s)
  <2>1. TouchKey(ls, s, a, p) = s
    BY LeaseNamesAssumption DEF TouchKey
  <2>2. TouchAllowed(ls, s, a, p)
    BY <1>2, <2>1 DEF TouchAllowed
  <2>3. Observed(ls, s, a, p, at) = Touched(ls, s, a, p, at)
    BY <1>2 DEF Observed
  <2>4. Touched(ls, s, a, p, at) = [ls EXCEPT ![s] = FreshLease(a, p, at)]
    BY <1>2, <2>1 DEF Touched
  <2>5. \A k \in Key : ls[k] # NoLease => Observed(ls, s, a, p, at)[k] = ls[k]
    BY <1>2, <2>3, <2>4 DEF Bound, Sound, LeaseTable
  <2> QED
    BY <2>2, <2>3, <2>5, TouchedSound
<1> QED
  BY <1>1, <1>2

(* A table in which some open rows were closed.                            *)
LEMMA ClosingSound ==
  ASSUME NEW ls, NEW a, NEW p, NEW at \in Nat, Sound(ls, a, p),
         NEW closed \in SUBSET Key, \A k \in closed : IsOpen(ls[k]),
         NEW new, new = [k \in Key |-> IF k \in closed THEN Closure(ls[k], at) ELSE ls[k]]
  PROVE  /\ Sound(new, a, p)
         /\ Evolves(new, ls, at)
         /\ \A k \in closed : ~IsOpen(new[k])
<1>1. ASSUME NEW k \in closed
      PROVE  /\ ls[k] \in Lease /\ ls[k] # NoLease
             /\ Closure(ls[k], at) \in Lease
             /\ Closure(ls[k], at) # NoLease
             /\ ValidRow(Closure(ls[k], at))
             /\ ~IsOpen(Closure(ls[k], at))
             /\ HeldBy(Closure(ls[k], at), ls[k].agent, ls[k].principal)
             /\ Closure(ls[k], at).lastSeen = ls[k].lastSeen
  <2>1. IsOpen(ls[k]) /\ ls[k] # NoLease
    BY DEF IsOpen
  <2>2. ls[k] \in Lease /\ ValidRow(ls[k])
    BY <2>1 DEF Sound, LeaseTable, HeldOnlyBy
  <2> QED
    BY <2>1, <2>2, ClosureSound
<1>2. new \in LeaseTable
  BY <1>1 DEF Sound, LeaseTable
<1>3. HeldOnlyBy(new, a, p)
  BY <1>1 DEF Sound, HeldOnlyBy
<1>4. ASSUME NEW k \in Key, ls[k] # NoLease
      PROVE  /\ HeldBy(new[k], ls[k].agent, ls[k].principal)
             /\ IsClosed(ls[k]) => new[k] = ls[k]
             /\ new[k].lastSeen = ls[k].lastSeen
             /\ new[k].lastSeen >= ls[k].lastSeen
  <2>1. ls[k] \in Lease
    BY <1>4 DEF Sound, LeaseTable
  <2>2. CASE k \in closed
    <3>1. ~IsClosed(ls[k])
      BY <2>2 DEF IsOpen, IsClosed
    <3>2. ls[k].lastSeen \in Nat
      BY <2>1 DEF Lease
    <3> QED
      BY <1>1, <2>2, <3>1, <3>2
  <2>3. CASE k \notin closed
    BY <1>4, <2>1, <2>3 DEF HeldBy, Lease
  <2> QED
    BY <2>2, <2>3
<1>5. \A k \in Key : new[k] # NoLease => ls[k] # NoLease
  BY <1>1
<1> QED
  BY <1>1, <1>2, <1>3, <1>4, <1>5 DEF Sound, Evolves

(* Closing a session leaves the owner's other leases alone.                *)
LEMMA SessionClosedSound ==
  ASSUME NEW ls, NEW a, NEW p, NEW s, NEW q, NEW at \in Nat, Sound(ls, a, p)
  PROVE  Sound(SessionClosed(ls, s, q, at), a, p) /\ Evolves(SessionClosed(ls, s, q, at), ls, at)
<1> DEFINE closed == {k \in Key : k = s /\ IsOpen(ls[k]) /\ ls[k].principal = q}
<1>1. SessionClosed(ls, s, q, at) = [k \in Key |-> IF k \in closed THEN Closure(ls[k], at) ELSE ls[k]]
  BY DEF SessionClosed
<1>2. closed \in SUBSET Key /\ \A k \in closed : IsOpen(ls[k])
  OBVIOUS
<1> HIDE DEF closed
<1> QED
  BY <1>1, <1>2, ClosingSound

(* Closing the owner's leases leaves no open lease: the table suits any    *)
(* next owner, or none.                                                    *)
LEMMA OwnerClosedSound ==
  ASSUME NEW ls, NEW a, NEW p, NEW at \in Nat, Sound(ls, a, p), NEW b
  PROVE  Sound(OwnerClosed(ls, a, p, at), b, p) /\ Evolves(OwnerClosed(ls, a, p, at), ls, at)
<1> DEFINE closed == {k \in Key : IsOpen(ls[k]) /\ HeldBy(ls[k], a, p)}
           new == OwnerClosed(ls, a, p, at)
<1>1. new = [k \in Key |-> IF k \in closed THEN Closure(ls[k], at) ELSE ls[k]]
  BY DEF OwnerClosed
<1>2. closed \in SUBSET Key /\ \A k \in closed : IsOpen(ls[k])
  OBVIOUS
<1>4. \A k \in Key \ closed : ~IsOpen(ls[k])
  BY DEF Sound, HeldOnlyBy, IsOpen
<1> HIDE DEF closed, new
<1>3. Sound(new, a, p) /\ Evolves(new, ls, at) /\ \A k \in closed : ~IsOpen(new[k])
  BY <1>1, <1>2, ClosingSound
<1>5. \A k \in Key : ~IsOpen(new[k])
  BY <1>1, <1>3, <1>4
<1> QED
  BY <1>3, <1>5 DEF Sound, HeldOnlyBy, new

(* Doing nothing, and doing two things at one time.                        *)
LEMMA EvolvesReflexive ==
  ASSUME NEW ls \in LeaseTable, NEW at
  PROVE  Evolves(ls, ls, at)
BY DEF Evolves, HeldBy, LeaseTable, Lease

LEMMA EvolvesTransitive ==
  ASSUME NEW ls \in LeaseTable, NEW mid \in LeaseTable, NEW new \in LeaseTable, NEW at,
         Evolves(mid, ls, at), Evolves(new, mid, at)
  PROVE  Evolves(new, ls, at)
<1> SUFFICES ASSUME NEW k \in Key
    PROVE  /\ ls[k] # NoLease =>
                /\ HeldBy(new[k], ls[k].agent, ls[k].principal)
                /\ IsClosed(ls[k]) => new[k] = ls[k]
                /\ new[k].lastSeen >= ls[k].lastSeen
           /\ new[k] # NoLease =>
                \/ new[k].lastSeen = at
                \/ ls[k] # NoLease /\ new[k].lastSeen = ls[k].lastSeen
  BY DEF Evolves
<1>1. ASSUME ls[k] # NoLease
      PROVE  /\ HeldBy(new[k], ls[k].agent, ls[k].principal)
             /\ IsClosed(ls[k]) => new[k] = ls[k]
             /\ new[k].lastSeen >= ls[k].lastSeen
  <2>1. /\ HeldBy(mid[k], ls[k].agent, ls[k].principal)
        /\ IsClosed(ls[k]) => mid[k] = ls[k]
        /\ mid[k].lastSeen >= ls[k].lastSeen
    BY <1>1 DEF Evolves
  <2>2. mid[k] # NoLease
    BY <2>1 DEF HeldBy
  <2>3. /\ HeldBy(new[k], mid[k].agent, mid[k].principal)
        /\ IsClosed(mid[k]) => new[k] = mid[k]
        /\ new[k].lastSeen >= mid[k].lastSeen
    BY <2>2 DEF Evolves
  <2>4. ls[k].lastSeen \in Nat /\ mid[k].lastSeen \in Nat /\ new[k].lastSeen \in Nat
    BY <1>1, <2>2, <2>3 DEF HeldBy, LeaseTable, Lease
  <2> QED
    BY <2>1, <2>3, <2>4 DEF HeldBy
<1>2. new[k] # NoLease =>
        new[k].lastSeen = at \/ (ls[k] # NoLease /\ new[k].lastSeen = ls[k].lastSeen)
  BY DEF Evolves
<1> QED
  BY <1>1, <1>2

(* Among rows seen no later than a bound there is a latest one.            *)
LEMMA LatestRowExists ==
  ASSUME NEW ls \in LeaseTable, NEW keys \in SUBSET Key, keys # {},
         \A k \in keys : ls[k] # NoLease,
         NEW bound \in Nat, \A k \in keys : ls[k].lastSeen <= bound
  PROVE  \E m \in keys : \A k \in keys : ls[m].lastSeen >= ls[k].lastSeen
<1> DEFINE age(k) == bound - ls[k].lastSeen
           ages == {age(k) : k \in keys}
<1>1. \A k \in keys : ls[k].lastSeen \in Nat /\ age(k) \in Nat
  BY DEF LeaseTable, Lease
<1>2. ages \subseteq Nat /\ ages # {}
  BY <1>1
<1>3. PICK youngest \in ages : \A g \in ages : <<g, youngest>> \notin OpToRel(<, Nat)
  BY <1>2, NatLessThanWellFounded, WFMin
<1>4. PICK m \in keys : youngest = age(m)
  OBVIOUS
<1>5. ASSUME NEW k \in keys
      PROVE  ls[m].lastSeen >= ls[k].lastSeen
  <2>1. ~(age(k) < age(m))
    BY <1>1, <1>3, <1>4 DEF OpToRel
  <2> QED
    BY <1>1, <2>1
<1> QED
  BY <1>5

(* An owner with a live lease seen within OnlineAfter shows as online: the *)
(* one row that presence is read from is open and seen no earlier.         *)
THEOREM OnlineWhenSeen ==
  ASSUME NEW ls, NEW a, NEW p, NEW at \in Nat, Sound(ls, a, p),
         NEW bound \in Nat, \A k \in Key : ls[k] # NoLease => ls[k].lastSeen <= bound,
         NEW k \in Key, HeldBy(ls[k], a, p), IsLive(ls[k], at),
         at - ls[k].lastSeen <= OnlineAfter
  PROVE  Presence(ls, a, p, at) = "online"
<1> DEFINE own == OwnerKeys(ls, a, p)
           open == {j \in own : IsOpen(ls[j])}
           q == ProjectedKey(ls, a, p)
<1>1. \A j \in own : j \in Key /\ ls[j] # NoLease /\ ls[j] \in Lease /\ ls[j].lastSeen \in Nat
                     /\ ls[j].expires \in Nat
  BY DEF OwnerKeys, HeldBy, Sound, LeaseTable, Lease
<1>2. k \in open
  BY DEF OwnerKeys, IsLive
<1>3. PICK m \in open : \A j \in open : ls[m].lastSeen >= ls[j].lastSeen
  <2>1. open \in SUBSET Key /\ open # {} /\ ls \in LeaseTable
    BY <1>1, <1>2 DEF Sound
  <2>2. \A j \in open : ls[j] # NoLease /\ ls[j].lastSeen <= bound
    BY <1>1
  <2> HIDE DEF open
  <2> QED
    BY <2>1, <2>2, LatestRowExists
<1>4. m \in own /\ \A other \in own : Precedes(ls[m], ls[other])
  BY <1>3 DEF Precedes
<1>5. q \in own /\ \A other \in own : Precedes(ls[q], ls[other])
  BY <1>4 DEF ProjectedKey
<1>6. IsOpen(ls[q]) /\ ls[q].lastSeen >= ls[k].lastSeen
  BY <1>2, <1>5 DEF Precedes
<1>7. ls[q].expires = Expiry(ls[q].lastSeen) /\ ls[k].expires = Expiry(ls[k].lastSeen)
  BY <1>1, <1>2, <1>5, <1>6 DEF Sound, HeldOnlyBy, ValidRow
<1>8. ls[q].expires > at /\ at - ls[q].lastSeen <= OnlineAfter
  BY <1>1, <1>2, <1>5, <1>6, <1>7, LeaseTimesAssumption DEF Expiry, IsLive
<1>9. Presence(ls, a, p, at) = RowPresence(ls[q], at)
  BY <1>2 DEF Presence
<1> QED
  BY <1>6, <1>8, <1>9 DEF RowPresence, IsLive

-----------------------------------------------------------------------------
(* The registry.                                                           *)

(* The lease table of every Task is sound for its owner and principal.     *)
LeasesSound == \A t \in Task : HeldOnlyBy(lease[t], owner[t], principal[t])

AbsentUnleased == \A t \in Task : ~Exists(t) => \A k \in Key : lease[t][k] = NoLease

InferredStaysOwned == \A t \in Task : Exists(t) /\ ~formal[t] => owner[t] = principal[t]

SeenWithinClock ==
  /\ \A t \in Task, k \in Key : Bound(lease[t], k) => lease[t][k].lastSeen <= MaxNow
  /\ \A t \in Task : heartbeatAt[t] <= MaxNow

AttributedExists ==
  \A x \in Activity : attributed[x].phase = "started" =>
    attributed[x].task \in Task /\ Exists(attributed[x].task)

IInv ==
  /\ TypeOK
  /\ LeasesSound
  /\ AbsentUnleased
  /\ InferredStaysOwned
  /\ AttributedExists
  /\ SeenWithinClock

(* What every step does to the lease table of every Task.                  *)
LeaseStep ==
  /\ lease' = [t \in Task |-> lease'[t]]
  /\ \A t \in Task : /\ Sound(lease'[t], owner'[t], principal'[t])
                     /\ \E at \in 0 .. MaxNow : Evolves(lease'[t], lease[t], at)

(* The tables of an IInv state are sound, and now is a time of the clock.  *)
LEMMA SoundTables ==
  ASSUME IInv
  PROVE  /\ now \in 0 .. MaxNow /\ now \in Nat
         /\ \A t \in Task : Sound(lease[t], owner[t], principal[t])
         /\ \A t \in Task : lease[t] \in LeaseTable
         /\ lease = [t \in Task |-> lease[t]]
BY ClockAssumption DEF IInv, TypeOK, LeasesSound, Sound

(* A step that leaves the tables and the owners alone.                     *)
LEMMA IdleLeaseStep ==
  ASSUME IInv, UNCHANGED <<lease, owner, principal>>
  PROVE  LeaseStep
BY SoundTables, EvolvesReflexive DEF LeaseStep

(* A step that changes the table, and perhaps the owner, of one Task.      *)
LEMMA OneTableStep ==
  ASSUME IInv, NEW t \in Task, NEW new, lease' = [lease EXCEPT ![t] = new],
         \A u \in Task \ {t} : owner'[u] = owner[u] /\ principal'[u] = principal[u],
         Sound(new, owner'[t], principal'[t]), Evolves(new, lease[t], now)
  PROVE  LeaseStep
<1>1. /\ \A u \in Task : lease'[u] = IF u = t THEN new ELSE lease[u]
      /\ lease' = [u \in Task |-> lease'[u]]
  BY DEF IInv, TypeOK
<1> QED
  BY <1>1, SoundTables, EvolvesReflexive DEF LeaseStep

(* An operation that only touches the session of the owner.                *)
LEMMA TouchLeaseStep ==
  ASSUME IInv, NEW t \in Task, NEW a \in Agent, NEW s, owner[t] = a, MayTouch(t, s),
         lease' = TouchedLease(t, s), UNCHANGED <<owner, principal>>
  PROVE  LeaseStep
<1>1. CASE IsTerminal(t)
  BY <1>1, IdleLeaseStep DEF TouchedLease
<1>2. CASE ~IsTerminal(t)
  <2>1. principal[t] \in Principal
    BY DEF IInv, TypeOK
  <2>2. TouchAllowed(lease[t], s, a, principal[t])
    BY <1>2 DEF MayTouch, CanTouch, TouchAllowed
  <2>3. LET new == Touched(lease[t], s, a, principal[t], now)
        IN  Sound(new, a, principal[t]) /\ Evolves(new, lease[t], now)
    BY <2>1, <2>2, SoundTables, TouchedSound
  <2>4. lease' = [lease EXCEPT ![t] = Touched(lease[t], s, a, principal[t], now)]
    BY <1>2 DEF TouchedLease
  <2> HIDE DEF IInv
  <2> QED
    BY <2>3, <2>4, OneTableStep
<1> QED
  BY <1>1, <1>2

(* The traffic of a session renews leases and takes nobody's ownership.    *)
LEMMA RenewalLeaseStep ==
  ASSUME IInv, NEW p, NEW s, lease' = SessionRenewed(p, s), UNCHANGED <<owner, principal>>
  PROVE  LeaseStep
<1>1. ASSUME NEW t \in Task
      PROVE  Sound(lease'[t], owner[t], principal[t]) /\ Evolves(lease'[t], lease[t], now)
  <2>1. CASE Owned(t) /\ principal[t] = p
    <3>1. lease'[t] = Renewed(lease[t], s, owner[t], principal[t], now)
      BY <2>1 DEF SessionRenewed
    <3> QED
      BY <3>1, SoundTables, RenewedSound
  <2>2. CASE ~(Owned(t) /\ principal[t] = p)
    <3>1. lease'[t] = lease[t]
      BY <2>2 DEF SessionRenewed
    <3> QED
      BY <3>1, SoundTables, EvolvesReflexive
  <2> QED
    BY <2>1, <2>2
<1>2. lease' = [t \in Task |-> lease'[t]]
  BY DEF SessionRenewed
<1> QED
  BY <1>1, <1>2, SoundTables DEF LeaseStep

(* A table without a row suits any owner.                                  *)
LEMMA EmptyTableSound ==
  ASSUME NEW ls \in LeaseTable, \A k \in Key : ls[k] = NoLease, NEW a, NEW p
  PROVE  Sound(ls, a, p)
BY DEF Sound, HeldOnlyBy

(* A Task that is created has no lease yet, so its owner may touch it.     *)
LEMMA CreatedTable ==
  ASSUME IInv, NEW t \in Task, NEW a \in Agent, NEW p \in Principal, NEW s \in AnySession,
         ~Exists(t)
  PROVE  Sound(lease[t], a, p) /\ TouchAllowed(lease[t], s, a, p)
<1>1. \A k \in Key : lease[t][k] = NoLease
  BY DEF IInv, AbsentUnleased
<1>2. Sound(lease[t], a, p)
  BY <1>1, SoundTables, EmptyTableSound
<1>3. Generations(lease[t], a, p) = {}
  BY <1>1 DEF Generations, Bound, Key
<1>4. TouchKey(lease[t], s, a, p) \in Key
  <2>1. CASE s # NoSession
    BY <2>1 DEF TouchKey, Key, AnySession
  <2>2. CASE s = NoSession
    <3>1. TouchKey(lease[t], s, a, p) = [agent |-> a, principal |-> p, gen |-> 0]
      BY <1>3, <2>2 DEF TouchKey
    <3>2. 0 \in 0 .. MaxLeasesPerTask + 1
      BY LeaseCapAssumption
    <3> QED
      BY <3>1, <3>2 DEF LegacyKey, Key
  <2> QED
    BY <2>1, <2>2
<1> QED
  BY <1>1, <1>2, <1>4 DEF TouchAllowed, Bound

(* The creation of a Task: its table is empty, or gets the owner's lease.  *)
LEMMA CreateLeaseStep ==
  ASSUME IInv, NEW t \in Task, NEW a \in Agent, NEW p \in Principal, NEW s \in AnySession,
         NEW st \in Status, CreateTask(t, a, p, s, st)
  PROVE  LeaseStep
<1>1. Sound(lease[t], a, p) /\ TouchAllowed(lease[t], s, a, p)
  BY CreatedTable DEF CreateTask
<1>2. owner'[t] = a /\ principal'[t] = p
  BY DEF CreateTask, IInv, TypeOK
<1>3. \A u \in Task \ {t} : owner'[u] = owner[u] /\ principal'[u] = principal[u]
  BY DEF CreateTask, IInv, TypeOK
<1>4. CASE st \in Terminal
  <2>1. lease' = lease
    BY <1>4 DEF CreateTask
  <2> QED
    BY <1>1, <1>2, <1>3, <2>1, SoundTables, EvolvesReflexive DEF LeaseStep
<1>5. CASE st \notin Terminal
  <2>1. LET new == Touched(lease[t], s, a, p, now)
        IN  Sound(new, a, p) /\ Evolves(new, lease[t], now)
    BY <1>1, SoundTables, TouchedSound
  <2>2. lease' = [lease EXCEPT ![t] = Touched(lease[t], s, a, p, now)]
    BY <1>5 DEF CreateTask
  <2> HIDE DEF IInv
  <2> QED
    BY <1>2, <1>3, <2>1, <2>2, OneTableStep
<1> QED
  BY <1>4, <1>5

LEMMA UnassignLeaseStep ==
  ASSUME IInv, NEW t \in Task, NEW a \in Agent, UnassignTask(t, a)
  PROVE  LeaseStep
<1> DEFINE new == OwnerClosed(lease[t], a, principal[t], now)
<1>1. Sound(new, NoAgent, principal[t]) /\ Evolves(new, lease[t], now)
  BY SoundTables, OwnerClosedSound DEF UnassignTask
<1>2. lease' = [lease EXCEPT ![t] = new]
  BY DEF UnassignTask
<1>3. /\ owner'[t] = NoAgent /\ principal'[t] = principal[t]
      /\ \A u \in Task \ {t} : owner'[u] = owner[u] /\ principal'[u] = principal[u]
  BY DEF UnassignTask, IInv, TypeOK
<1> HIDE DEF new
<1> QED
  BY <1>1, <1>2, <1>3, OneTableStep

(* Before it binds its own lease, a claim leaves no open lease of another. *)
HeldForClaim(t, a) ==
  IF owner[t] \in {NoAgent, a} THEN lease[t]
  ELSE OwnerClosed(lease[t], owner[t], principal[t], now)

LEMMA ClaimedTable ==
  ASSUME IInv, NEW t \in Task, NEW a \in Agent
  PROVE  /\ Sound(HeldForClaim(t, a), a, principal[t])
         /\ Evolves(HeldForClaim(t, a), lease[t], now)
<1> DEFINE p == principal[t]
<1>1. CASE owner[t] = a
  BY <1>1, SoundTables, EvolvesReflexive DEF HeldForClaim
<1>2. CASE owner[t] = NoAgent
  <2>1. Sound(lease[t], NoAgent, p)
    BY <1>2, SoundTables
  <2>2. \A k \in Key : ~IsOpen(lease[t][k])
    BY <2>1, NoValuesAssumption DEF Sound, HeldOnlyBy, IsOpen, HeldBy, LeaseTable, Lease
  <2> QED
    BY <1>2, <2>1, <2>2, EvolvesReflexive DEF Sound, HeldOnlyBy, HeldForClaim
<1>3. CASE owner[t] \notin {NoAgent, a}
  BY <1>3, SoundTables, OwnerClosedSound DEF HeldForClaim
<1> QED
  BY <1>1, <1>2, <1>3

LEMMA ClaimLeaseStep ==
  ASSUME IInv, NEW t \in Task, NEW a \in Agent, NEW s, NEW renamed, ClaimTask(t, a, s, renamed)
  PROVE  LeaseStep
<1> DEFINE p == principal[t]
           held == HeldForClaim(t, a)
           new == Touched(held, s, a, p, now)
<1>1. p \in Principal
  BY DEF IInv, TypeOK
<1>2. Sound(held, a, p) /\ Evolves(held, lease[t], now)
  BY ClaimedTable
<1>3. CanTouch(held, s, a, p) /\ lease' = [lease EXCEPT ![t] = new]
  BY DEF ClaimTask, HeldForClaim
<1>4. /\ owner'[t] = a /\ principal'[t] = p
      /\ \A u \in Task \ {t} : owner'[u] = owner[u] /\ principal'[u] = principal[u]
  BY DEF ClaimTask, IInv, TypeOK
<1> HIDE DEF held, p
<1>5. TouchAllowed(held, s, a, p)
  BY <1>3 DEF CanTouch, TouchAllowed
<1>6. Sound(new, a, p) /\ Evolves(new, held, now)
  BY <1>1, <1>2, <1>5, SoundTables, TouchedSound
<1> HIDE DEF new
<1>7. Evolves(new, lease[t], now)
  BY <1>2, <1>6, SoundTables, EvolvesTransitive DEF Sound
<1> QED
  BY <1>3, <1>4, <1>6, <1>7, OneTableStep

LEMMA MessageLeaseStep ==
  ASSUME IInv, NEW t \in Task, NEW a \in Agent, NEW s \in AnySession, AddAgentMessage(t, a, s)
  PROVE  LeaseStep
<1> DEFINE new == Observed(lease[t], s, a, principal[t], now)
<1>1. s \in Session /\ principal[t] \in Principal
  BY DEF AddAgentMessage, AnySession, IInv, TypeOK
<1>2. Sound(new, a, principal[t]) /\ Evolves(new, lease[t], now)
  BY <1>1, SoundTables, ObservedSound DEF AddAgentMessage
<1>3. lease' = [lease EXCEPT ![t] = new]
  BY DEF AddAgentMessage
<1>4. owner' = owner /\ principal' = principal /\ owner[t] = a
  BY DEF AddAgentMessage, ownership
<1> HIDE DEF new
<1> QED
  BY <1>2, <1>3, <1>4, OneTableStep

LEMMA CloseSessionLeaseStep ==
  ASSUME IInv, NEW p, NEW s, CloseSession(p, s)
  PROVE  LeaseStep
<1>1. ASSUME NEW t \in Task
      PROVE  Sound(lease'[t], owner[t], principal[t]) /\ Evolves(lease'[t], lease[t], now)
  <2>1. lease'[t] = SessionClosed(lease[t], s, p, now)
    BY DEF CloseSession
  <2> QED
    BY <2>1, SoundTables, SessionClosedSound
<1>2. owner' = owner /\ principal' = principal /\ lease' = [t \in Task |-> lease'[t]]
  BY DEF CloseSession, ownership
<1> QED
  BY <1>1, <1>2, SoundTables DEF LeaseStep

(* An activity attributed to a new or a reopened inferred Task renews      *)
(* leases as well; the owner of an existing one does not change.           *)
LEMMA StartLeaseStep ==
  ASSUME IInv, NEW x \in Activity, NEW p \in Principal, NEW s, NEW isExec,
         StartActivity(x, p, s, isExec)
  PROVE  LeaseStep
<1>1. lease' = SessionRenewed(p, s)
  BY DEF StartActivity
<1>2. CASE UNCHANGED <<owner, principal>>
  BY <1>1, <1>2, RenewalLeaseStep
<1>3. CASE \E t \in Task : InferTask(t, p)
  <2>1. PICK t \in Task : InferTask(t, p)
    BY <1>3
  <2>2. CASE Exists(t)
    <3>1. owner[t] = p /\ principal[t] = p
      BY <2>1, <2>2 DEF InferTask, Inferred, IInv, InferredStaysOwned
    <3>2. owner' = owner /\ principal' = principal
      BY <2>1, <3>1 DEF InferTask, IInv, TypeOK
    <3> QED
      BY <1>2, <3>2
  <2>3. CASE ~Exists(t)
    <3>1. lease'[t] = lease[t] /\ \A k \in Key : lease[t][k] = NoLease
      BY <1>1, <2>3 DEF SessionRenewed, Owned, IInv, AbsentUnleased
    <3>2. Sound(lease'[t], owner'[t], principal'[t]) /\ Evolves(lease'[t], lease[t], now)
      BY <3>1, SoundTables, EmptyTableSound, EvolvesReflexive
    <3>3. ASSUME NEW u \in Task, u # t
          PROVE  Sound(lease'[u], owner'[u], principal'[u]) /\ Evolves(lease'[u], lease[u], now)
      <4>1. owner'[u] = owner[u] /\ principal'[u] = principal[u]
        BY <2>1, <3>3 DEF InferTask, IInv, TypeOK
      <4>2. CASE Owned(u) /\ principal[u] = p
        <5>1. lease'[u] = Renewed(lease[u], s, owner[u], principal[u], now)
          BY <1>1, <4>2 DEF SessionRenewed
        <5> QED
          BY <4>1, <5>1, SoundTables, RenewedSound
      <4>3. CASE ~(Owned(u) /\ principal[u] = p)
        <5>1. lease'[u] = lease[u]
          BY <1>1, <4>3 DEF SessionRenewed
        <5> QED
          BY <4>1, <5>1, SoundTables, EvolvesReflexive
      <4> QED
        BY <4>2, <4>3
    <3>4. lease' = [u \in Task |-> lease'[u]]
      BY <1>1 DEF SessionRenewed
    <3> QED
      BY <3>2, <3>3, <3>4, SoundTables DEF LeaseStep
  <2> QED
    BY <2>2, <2>3
<1> QED
  BY <1>2, <1>3 DEF StartActivity, ownership

(* The lease a restart seeds is the owner's, last seen at its heartbeat.   *)
LEMMA StartHostLeaseStep ==
  ASSUME IInv, StartHost
  PROVE  LeaseStep
<1>1. owner' = owner /\ principal' = principal /\ lease' = [t \in Task |-> lease'[t]]
  BY DEF StartHost, ownership
<1>2. ASSUME NEW t \in Task
      PROVE  /\ Sound(lease'[t], owner[t], principal[t])
             /\ \E at \in 0 .. MaxNow : Evolves(lease'[t], lease[t], at)
  <2>1. CASE ~NeedsSeed(t)
    <3>1. lease'[t] = lease[t]
      BY <2>1 DEF StartHost
    <3> QED
      BY <3>1, SoundTables, EvolvesReflexive
  <2>2. CASE NeedsSeed(t)
    <3> DEFINE k == [agent |-> owner[t], principal |-> principal[t], gen |-> 0]
               at == heartbeatAt[t]
               row == FreshLease(owner[t], principal[t], at)
    <3>1. owner[t] \in Agent /\ principal[t] \in Principal
      BY <2>2 DEF NeedsSeed, Owned, IInv, TypeOK
    <3>2. at \in Nat /\ at \in 0 .. MaxNow
      BY <2>2, ClockAssumption DEF NeedsSeed, IInv, TypeOK, SeenWithinClock
    <3>3. row \in Lease /\ row # NoLease /\ ValidRow(row) /\ HeldBy(row, owner[t], principal[t])
          /\ row.lastSeen = at
      BY <3>1, <3>2, FreshLeaseSound
    <3>4. lease'[t] = [lease[t] EXCEPT ![k] = row]
      BY <2>2 DEF StartHost, Seeded
    <3>5. \A j \in Key : lease[t][j] = NoLease
      BY <2>2 DEF NeedsSeed, Bound
    <3> HIDE DEF k, row, at
    <3>6. /\ Sound([lease[t] EXCEPT ![k] = row], owner[t], principal[t])
          /\ Evolves([lease[t] EXCEPT ![k] = row], lease[t], at)
      BY <3>3, <3>5, SoundTables, PutSound
    <3> QED
      BY <3>2, <3>4, <3>6
  <2> QED
    BY <2>1, <2>2
<1> QED
  BY <1>1, <1>2 DEF LeaseStep

(* The five operations that touch the lease of a Task they do not take.    *)
LEMMA OwnerOpLeaseStep ==
  ASSUME IInv, NEW t \in Task, NEW a \in Agent, NEW s \in AnySession, NEW st,
         \/ ReplayCreate(t, a, s) \/ UpdateTask(t, a, s, st) \/ Heartbeat(t, a, s, st)
  PROVE  LeaseStep
<1>1. owner[t] = a /\ MayTouch(t, s) /\ lease' = TouchedLease(t, s)
  BY DEF ReplayCreate, UpdateTask, Heartbeat
<1>2. UNCHANGED <<owner, principal>>
  BY DEF ReplayCreate, UpdateTask, Heartbeat, ownership
<1> QED
  BY <1>1, <1>2, TouchLeaseStep

LEMMA NextLeaseStep ==
  ASSUME IInv, [Next]_vars
  PROVE  LeaseStep
<1> USE DEF ownership, hostVars, execVars
<1>1. ASSUME NEW t \in Task, TaskStep(t)
      PROVE  LeaseStep
  <2>1. ASSUME NEW a \in Agent, NEW s \in AnySession,
               \E p \in Principal, st \in Status : CreateTask(t, a, p, s, st)
        PROVE  LeaseStep
    BY <2>1, CreateLeaseStep
  <2>2. ASSUME NEW a \in Agent, NEW s \in AnySession,
               \/ ReplayCreate(t, a, s)
               \/ \E st \in Status : UpdateTask(t, a, s, st) \/ Heartbeat(t, a, s, st)
        PROVE  LeaseStep
    BY <2>2, OwnerOpLeaseStep
  <2>3. ASSUME NEW a \in Agent, NEW s \in AnySession,
               \E renamed \in BOOLEAN : ClaimTask(t, a, s, renamed)
        PROVE  LeaseStep
    BY <2>3, ClaimLeaseStep
  <2>4. ASSUME NEW a \in Agent, NEW s \in AnySession, AddAgentMessage(t, a, s)
        PROVE  LeaseStep
    BY <2>4, MessageLeaseStep
  <2>5. ASSUME NEW a \in Agent, UnassignTask(t, a)
        PROVE  LeaseStep
    BY <2>5, UnassignLeaseStep
  <2> HIDE DEF IInv, LeaseStep
  <2> QED
    BY <1>1, <2>1, <2>2, <2>3, <2>4, <2>5 DEF TaskStep
<1>2. ASSUME NEW p \in Principal, NEW s \in Session, SessionStep(p, s)
      PROVE  LeaseStep
  <2>1. CASE TouchSessionActivity(p, s)
    <3>1. lease' = SessionRenewed(p, s) /\ UNCHANGED <<owner, principal>>
      BY <2>1 DEF TouchSessionActivity
    <3> QED
      BY <3>1, RenewalLeaseStep
  <2>2. CASE CloseSession(p, s)
    BY <2>2, CloseSessionLeaseStep
  <2> QED
    BY <1>2, <2>1, <2>2 DEF SessionStep
<1>3. ASSUME NEW x \in Activity, ActivityStep(x)
      PROVE  LeaseStep
  <2>1. ASSUME NEW p \in Principal, NEW s \in AnySession, NEW isExec \in BOOLEAN,
               StartActivity(x, p, s, isExec)
        PROVE  LeaseStep
    BY <2>1, StartLeaseStep
  <2>2. ASSUME NEW outcome, CompleteActivity(x, outcome)
        PROVE  LeaseStep
    <3>1. /\ lease' = SessionRenewed(principal[attributed[x].task], attributed[x].session)
          /\ UNCHANGED <<owner, principal>>
      BY <2>2 DEF CompleteActivity
    <3> QED
      BY <3>1, RenewalLeaseStep
  <2> QED
    BY <1>3, <2>1, <2>2 DEF ActivityStep
<1>4. CASE StopHost
  BY <1>4, IdleLeaseStep DEF StopHost
<1>5. CASE StartHost
  BY <1>5, StartHostLeaseStep
<1>6. CASE Tick \/ SetBackClock
  BY <1>6, IdleLeaseStep DEF Tick, SetBackClock
<1>7. CASE UNCHANGED vars
  BY <1>7, IdleLeaseStep DEF vars
<1> HIDE DEF IInv, LeaseStep
<1> QED
  BY <1>1, <1>2, <1>3, <1>4, <1>5, <1>6, <1>7 DEF Next, HostStep

-----------------------------------------------------------------------------
(* The variables a step changes besides the lease table keep their types.  *)
RowTypes ==
  /\ status \in [Task -> Status \cup {"absent"}]
  /\ formal \in [Task -> BOOLEAN]
  /\ principal \in [Task -> Principal]
  /\ owner \in [Task -> Agent \cup {NoAgent}]
  /\ heartbeatAt \in [Task -> Nat \cup {Never}]

HostTypes == hostUp \in BOOLEAN /\ now \in 0 .. MaxNow /\ setBacks \in 0 .. MaxSetBacks

ExecTypes ==
  /\ evidence \in [Task -> Evidence]
  /\ attributed \in [Activity -> Event]
  /\ lastExec \in [Task -> Exec]

LEMMA TypeParts == TypeOK <=> HostTypes /\ RowTypes /\ ExecTypes /\ lease \in [Task -> LeaseTable]
BY DEF TypeOK, HostTypes, RowTypes, ExecTypes

LEMMA NextHostTypes ==
  ASSUME IInv, [Next]_vars
  PROVE  HostTypes'
<1> USE DEF HostTypes, hostVars
<1>1. HostTypes
  BY DEF IInv, TypeOK
<1>2. CASE UNCHANGED hostVars
  BY <1>1, <1>2
<1>3. CASE StopHost \/ StartHost
  BY <1>1, <1>3 DEF StopHost, StartHost
<1>4. CASE Tick \/ SetBackClock
  BY <1>1, <1>4, ClockAssumption DEF Tick, SetBackClock
<1>5. ASSUME NEW t \in Task, TaskStep(t)
      PROVE  UNCHANGED hostVars
  BY <1>5 DEF TaskStep, CreateTask, ReplayCreate, UpdateTask, Heartbeat, ClaimTask,
              AddAgentMessage, UnassignTask
<1>6. ASSUME NEW p \in Principal, NEW s \in Session, SessionStep(p, s)
      PROVE  UNCHANGED hostVars
  BY <1>6 DEF SessionStep, TouchSessionActivity, CloseSession
<1>7. ASSUME NEW x \in Activity, ActivityStep(x)
      PROVE  UNCHANGED hostVars
  BY <1>7 DEF ActivityStep, StartActivity, CompleteActivity
<1> QED
  BY <1>2, <1>3, <1>4, <1>5, <1>6, <1>7 DEF Next, HostStep, vars

LEMMA NextRowTypes ==
  ASSUME IInv, [Next]_vars
  PROVE  RowTypes'
<1> USE DEF ownership, hostVars, execVars
<1>1. RowTypes /\ now \in Nat
  BY SoundTables DEF IInv, TypeOK, RowTypes
<1>2. CASE UNCHANGED <<status, ownership, heartbeatAt>>
  BY <1>1, <1>2 DEF RowTypes
<1>3. ASSUME NEW t \in Task, TaskStep(t)
      PROVE  RowTypes'
  <2>1. ASSUME NEW a \in Agent, NEW s \in AnySession, NEW p \in Principal, NEW st \in Status,
               CreateTask(t, a, p, s, st)
        PROVE  RowTypes'
    BY <1>1, <2>1 DEF CreateTask, RowTypes
  <2>2. ASSUME NEW a \in Agent, NEW s \in AnySession,
               \/ ReplayCreate(t, a, s)
               \/ \E st \in Status : UpdateTask(t, a, s, st) \/ Heartbeat(t, a, s, st)
               \/ \E renamed \in BOOLEAN : ClaimTask(t, a, s, renamed)
               \/ AddAgentMessage(t, a, s)
        PROVE  RowTypes'
    BY <1>1, <2>2
       DEF ReplayCreate, UpdateTask, Heartbeat, ClaimTask, AddAgentMessage, RowTypes
  <2>3. ASSUME NEW a \in Agent, UnassignTask(t, a)
        PROVE  RowTypes'
    BY <1>1, <2>3 DEF UnassignTask, RowTypes
  <2> QED
    BY <1>3, <2>1, <2>2, <2>3 DEF TaskStep
<1>4. ASSUME NEW p \in Principal, NEW s \in Session, SessionStep(p, s)
      PROVE  RowTypes'
  BY <1>2, <1>4 DEF SessionStep, TouchSessionActivity, CloseSession
<1>5. ASSUME NEW x \in Activity, ActivityStep(x)
      PROVE  RowTypes'
  <2>1. ASSUME NEW p \in Principal, NEW s \in AnySession, NEW isExec \in BOOLEAN,
               StartActivity(x, p, s, isExec)
        PROVE  RowTypes'
    <3>1. ASSUME NEW t \in Task, InferTask(t, p)
          PROVE  RowTypes'
      BY <1>1, <3>1, PrincipalsAreAgents DEF InferTask, RowTypes, LiveStatus, Status
    <3> QED
      BY <1>2, <2>1, <3>1 DEF StartActivity
  <2>2. ASSUME NEW outcome \in {"succeeded", "failed"}, CompleteActivity(x, outcome)
        PROVE  RowTypes'
    <3>1. VerifiedOutcome(attributed[x].task, x, outcome) \in Status
      BY DEF VerifiedOutcome, Status, Terminal
    <3>2. /\ UNCHANGED <<ownership, heartbeatAt>>
          /\ status' \in {[status EXCEPT ![attributed[x].task] =
                             VerifiedOutcome(attributed[x].task, x, outcome)], status}
      BY <2>2 DEF CompleteActivity
    <3> QED
      BY <1>1, <3>1, <3>2 DEF RowTypes
  <2> QED
    BY <1>5, <2>1, <2>2 DEF ActivityStep
<1>6. CASE StopHost \/ StartHost \/ Tick \/ SetBackClock
  BY <1>2, <1>6 DEF StopHost, StartHost, Tick, SetBackClock
<1> QED
  BY <1>2, <1>3, <1>4, <1>5, <1>6 DEF Next, HostStep, vars

(* A completion writes the row of its own activity, or none.               *)
LEMMA CompletionTypes ==
  ASSUME ExecTypes, now \in Nat, NEW x \in Activity, NEW outcome \in {"succeeded", "failed"},
         CompleteActivity(x, outcome)
  PROVE  ExecTypes'
<1> DEFINE t == attributed[x].task
           ended == Ended(attributed[x])
<1>1. ended \in Event
  BY DEF ExecTypes, Ended, Event, Phase
<1>2. attributed' = [attributed EXCEPT ![x] = ended]
  BY DEF CompleteActivity, ExecTypes
<1>3. attributed' \in [Activity -> Event]
  <2> HIDE DEF ended
  <2> QED
    BY <1>1, <1>2 DEF ExecTypes
<1>4. evidence' \in [Task -> Evidence]
  <2>1. CASE t \in Task
    <3>1. CompletedRow(t, x, outcome) \in Evidence
      BY <2>1 DEF CompletedRow, ExecTypes, Evidence, Exec, Outcome
    <3>2. evidence' \in {evidence, [evidence EXCEPT ![t] = CompletedRow(t, x, outcome)]}
      BY DEF CompleteActivity
    <3> HIDE DEF t
    <3> QED
      BY <2>1, <3>1, <3>2 DEF ExecTypes
  <2>2. CASE t \notin Task
    <3>1. evidence' = evidence
      BY <2>2 DEF CompleteActivity, ExecTypes
    <3> QED
      BY <3>1 DEF ExecTypes
  <2> QED
    BY <2>1, <2>2
<1>5. lastExec' \in [Task -> Exec]
  <2> DEFINE last == [lastExec[t] EXCEPT !.outcome = outcome]
  <2>1. lastExec' \in {lastExec, [lastExec EXCEPT ![t] = last]}
    BY DEF CompleteActivity
  <2>2. t \in Task => last \in Exec
    BY DEF ExecTypes, Exec, Outcome
  <2> HIDE DEF last, t
  <2> QED
    BY <2>1, <2>2 DEF ExecTypes
<1> QED
  BY <1>3, <1>4, <1>5 DEF ExecTypes

LEMMA NextExecTypes ==
  ASSUME IInv, [Next]_vars
  PROVE  ExecTypes'
<1> USE DEF hostVars, execVars
<1>1. ExecTypes /\ now \in Nat
  BY SoundTables DEF IInv, TypeOK, ExecTypes
<1>2. CASE UNCHANGED execVars
  BY <1>1, <1>2 DEF ExecTypes
<1>3. ASSUME NEW t \in Task, TaskStep(t)
      PROVE  UNCHANGED execVars
  BY <1>3 DEF TaskStep, CreateTask, ReplayCreate, UpdateTask, Heartbeat, ClaimTask,
              AddAgentMessage, UnassignTask
<1>4. ASSUME NEW p \in Principal, NEW s \in Session, SessionStep(p, s)
      PROVE  UNCHANGED execVars
  BY <1>4 DEF SessionStep, TouchSessionActivity, CloseSession
<1>5. ASSUME NEW x \in Activity, ActivityStep(x)
      PROVE  ExecTypes'
  <2>1. ASSUME NEW p \in Principal, NEW s \in AnySession, NEW isExec \in BOOLEAN,
               NEW t \in Task, StartedExec(t, x, s, isExec)
        PROVE  ExecTypes'
    <3> DEFINE started == [activity |-> x, outcome |-> "pending"]
               row == [exec |-> started, at |-> now]
               event == [phase |-> "started", task |-> t, session |-> s, isExec |-> isExec]
    <3>1. started \in Exec /\ row \in Evidence /\ event \in Event
      BY <1>1 DEF Exec, Evidence, Event, Outcome, Phase, AnySession
    <3>2. /\ evidence' \in {evidence, [evidence EXCEPT ![t] = row]}
          /\ lastExec' \in {lastExec, [lastExec EXCEPT ![t] = started]}
          /\ attributed' = [attributed EXCEPT ![x] = event]
      BY <2>1 DEF StartedExec
    <3> HIDE DEF started, row, event
    <3> QED
      BY <1>1, <3>1, <3>2 DEF ExecTypes
  <2>2. ASSUME NEW outcome \in {"succeeded", "failed"}, CompleteActivity(x, outcome)
        PROVE  ExecTypes'
    BY <1>1, <2>2, CompletionTypes
  <2> QED
    BY <1>5, <2>1, <2>2 DEF ActivityStep, StartActivity
<1>6. CASE StopHost
  <2>1. \A x \in Activity : Ended(attributed[x]) \in Event
    BY <1>1 DEF ExecTypes, Ended, Event, Phase
  <2>2. attributed' \in [Activity -> Event]
    BY <1>1, <1>6, <2>1 DEF StopHost, ExecTypes
  <2> QED
    BY <1>1, <1>6, <2>2 DEF StopHost, ExecTypes
<1>7. CASE StartHost \/ Tick \/ SetBackClock
  BY <1>2, <1>7 DEF StartHost, Tick, SetBackClock
<1> QED
  BY <1>2, <1>3, <1>4, <1>5, <1>6, <1>7 DEF Next, HostStep, vars

-----------------------------------------------------------------------------
(* A row that was not there appears only in the table of a Task that exists*)
(* after the step, and no Task is ever deleted.                            *)
LEMMA NextAbsentUnleased ==
  ASSUME IInv, [Next]_vars
  PROVE  AbsentUnleased'
<1> USE DEF ownership, hostVars, execVars, Exists
<1> DEFINE Kept(t) == status[t] = "absent" /\ lease'[t] = lease[t]
           Stays == \A t \in Task : status'[t] = "absent" => Kept(t)
<1>1. RowTypes /\ AbsentUnleased /\ lease = [t \in Task |-> lease[t]]
  BY SoundTables DEF IInv, TypeOK, RowTypes
<1>2. SUFFICES Stays
  BY <1>1 DEF AbsentUnleased
<1>3. ASSUME NEW p, NEW s, lease' = SessionRenewed(p, s)
      PROVE  \A t \in Task : status[t] = "absent" => lease'[t] = lease[t]
  BY <1>3 DEF SessionRenewed, Owned
<1>4. ASSUME NEW t \in Task, TaskStep(t)
      PROVE  Stays
  <2>1. ASSUME NEW a \in Agent, NEW s \in AnySession, NEW p \in Principal, NEW st \in Status,
               CreateTask(t, a, p, s, st)
        PROVE  Stays
    <3>1. st # "absent"
      BY DEF Status, LiveStatus, Terminal
    <3>2. \A u \in Task \ {t} : lease'[u] = lease[u]
      BY <1>1, <2>1 DEF CreateTask
    <3> QED
      BY <1>1, <2>1, <3>1, <3>2 DEF CreateTask, RowTypes
  <2>2. ASSUME NEW a \in Agent, NEW s \in AnySession,
               \/ ReplayCreate(t, a, s)
               \/ \E st \in Status : UpdateTask(t, a, s, st) \/ Heartbeat(t, a, s, st)
               \/ \E renamed \in BOOLEAN : ClaimTask(t, a, s, renamed)
               \/ AddAgentMessage(t, a, s)
               \/ UnassignTask(t, a)
        PROVE  Stays
    <3>1. /\ status[t] # "absent"
          /\ \E st \in Status \cup {status[t]} : status' \in {status, [status EXCEPT ![t] = st]}
      BY <2>2 DEF ReplayCreate, UpdateTask, Heartbeat, ClaimTask, CanClaim, AddAgentMessage,
                  UnassignTask, Status
    <3>2. \E new : lease' \in {lease, [lease EXCEPT ![t] = new]}
      BY <2>2 DEF ReplayCreate, UpdateTask, Heartbeat, ClaimTask, AddAgentMessage,
                  UnassignTask, TouchedLease
    <3>3. "absent" \notin Status
      BY DEF Status, LiveStatus, Terminal
    <3> QED
      BY <1>1, <3>1, <3>2, <3>3 DEF RowTypes
  <2>3. NoSession \in AnySession
    BY DEF AnySession
  <2> HIDE DEF Stays
  <2> QED
    BY <1>4, <2>1, <2>2, <2>3 DEF TaskStep
<1>5. ASSUME NEW p \in Principal, NEW s \in Session, SessionStep(p, s)
      PROVE  Stays
  <2>1. CASE TouchSessionActivity(p, s)
    BY <1>3, <2>1 DEF TouchSessionActivity
  <2>2. CASE CloseSession(p, s)
    <3>1. ASSUME NEW t \in Task, status[t] = "absent"
          PROVE  lease'[t] = lease[t]
      <4>1. lease[t] = [k \in Key |-> lease[t][k]] /\ \A k \in Key : lease[t][k] = NoLease
        BY <1>1, <3>1, SoundTables DEF AbsentUnleased, LeaseTable
      <4>2. lease'[t] = [k \in Key |-> lease[t][k]]
        BY <2>2, <4>1 DEF CloseSession, SessionClosed, IsOpen
      <4> QED
        BY <4>1, <4>2
    <3> QED
      BY <2>2, <3>1 DEF CloseSession
  <2> QED
    BY <1>5, <2>1, <2>2 DEF SessionStep
<1>6. ASSUME NEW x \in Activity, ActivityStep(x)
      PROVE  Stays
  <2>1. ASSUME NEW p \in Principal, NEW s \in AnySession, NEW isExec \in BOOLEAN,
               StartActivity(x, p, s, isExec)
        PROVE  Stays
    <3>1. \A t \in Task : status[t] = "absent" => lease'[t] = lease[t]
      BY <1>3, <2>1 DEF StartActivity
    <3>2. status' = status \/ \E t \in Task : status' = [status EXCEPT ![t] = "running"]
      BY <2>1 DEF StartActivity, InferTask
    <3> QED
      BY <1>1, <3>1, <3>2 DEF RowTypes
  <2>2. ASSUME NEW outcome \in {"succeeded", "failed"}, CompleteActivity(x, outcome)
        PROVE  Stays
    <3>1. \A t \in Task : status[t] = "absent" => lease'[t] = lease[t]
      BY <1>3, <2>2 DEF CompleteActivity
    <3>2. \/ status' = status
          \/ status' = [status EXCEPT ![attributed[x].task] =
                          VerifiedOutcome(attributed[x].task, x, outcome)]
      BY <2>2 DEF CompleteActivity
    <3>3. VerifiedOutcome(attributed[x].task, x, outcome) # "absent"
      BY DEF VerifiedOutcome
    <3> QED
      BY <1>1, <3>1, <3>2, <3>3 DEF RowTypes
  <2> HIDE DEF Stays
  <2> QED
    BY <1>6, <2>1, <2>2 DEF ActivityStep
<1>7. CASE StartHost
  BY <1>7 DEF StartHost, NeedsSeed, Owned
<1>8. CASE StopHost \/ Tick \/ SetBackClock \/ UNCHANGED vars
  BY <1>8 DEF StopHost, Tick, SetBackClock, vars
<1> HIDE DEF Stays
<1> QED
  BY <1>4, <1>5, <1>6, <1>7, <1>8 DEF Next, HostStep

(* An inferred Task is never claimed nor unassigned.                       *)
LEMMA NextInferredStaysOwned ==
  ASSUME IInv, [Next]_vars
  PROVE  InferredStaysOwned'
<1> USE DEF ownership, hostVars, execVars, Exists
<1>1. /\ RowTypes
      /\ \A t \in Task : status[t] # "absent" /\ ~formal[t] => owner[t] = principal[t]
  BY DEF IInv, TypeOK, RowTypes, InferredStaysOwned
<1>2. CASE UNCHANGED <<status, ownership>>
  BY <1>1, <1>2 DEF InferredStaysOwned
<1>3. ASSUME NEW t \in Task, TaskStep(t)
      PROVE  InferredStaysOwned'
  <2>1. ASSUME NEW a \in Agent, NEW s \in AnySession, NEW p \in Principal, NEW st \in Status,
               CreateTask(t, a, p, s, st)
        PROVE  InferredStaysOwned'
    BY <1>1, <2>1 DEF CreateTask, InferredStaysOwned, RowTypes
  <2>2. ASSUME NEW a \in Agent, NEW s \in AnySession,
               \/ ReplayCreate(t, a, s)
               \/ \E st \in Status : UpdateTask(t, a, s, st) \/ Heartbeat(t, a, s, st)
        PROVE  InferredStaysOwned'
    <3>1. /\ status[t] # "absent" /\ UNCHANGED ownership
          /\ \E st : status' \in {status, [status EXCEPT ![t] = st]}
      BY <2>2 DEF ReplayCreate, UpdateTask, Heartbeat
    <3> QED
      BY <1>1, <3>1 DEF InferredStaysOwned, RowTypes
  <2>3. ASSUME NEW a \in Agent, NEW s \in AnySession,
               \/ \E renamed \in BOOLEAN : ClaimTask(t, a, s, renamed)
               \/ AddAgentMessage(t, a, s)
        PROVE  InferredStaysOwned'
    BY <1>1, <2>3 DEF ClaimTask, CanClaim, AddAgentMessage, InferredStaysOwned, RowTypes
  <2>4. ASSUME NEW a \in Agent, UnassignTask(t, a)
        PROVE  InferredStaysOwned'
    BY <1>1, <2>4 DEF UnassignTask, InferredStaysOwned, RowTypes
  <2> QED
    BY <1>3, <2>1, <2>2, <2>3, <2>4 DEF TaskStep
<1>4. ASSUME NEW p \in Principal, NEW s \in Session, SessionStep(p, s)
      PROVE  InferredStaysOwned'
  BY <1>2, <1>4 DEF SessionStep, TouchSessionActivity, CloseSession
<1>5. ASSUME NEW x \in Activity, ActivityStep(x)
      PROVE  InferredStaysOwned'
  <2>1. ASSUME NEW p \in Principal, NEW s \in AnySession, NEW isExec \in BOOLEAN,
               StartActivity(x, p, s, isExec)
        PROVE  InferredStaysOwned'
    <3>1. ASSUME NEW t \in Task, InferTask(t, p)
          PROVE  InferredStaysOwned'
      BY <1>1, <3>1 DEF InferTask, InferredStaysOwned, RowTypes
    <3> QED
      BY <1>2, <2>1, <3>1 DEF StartActivity
  <2>2. ASSUME NEW outcome \in {"succeeded", "failed"}, CompleteActivity(x, outcome)
        PROVE  InferredStaysOwned'
    <3>1. /\ attributed[x].phase = "started" /\ UNCHANGED ownership
          /\ \E st : status' \in {status, [status EXCEPT ![attributed[x].task] = st]}
      BY <2>2 DEF CompleteActivity
    <3>2. attributed[x].task \in Task /\ status[attributed[x].task] # "absent"
      BY <3>1 DEF IInv, AttributedExists
    <3> QED
      BY <1>1, <3>1, <3>2 DEF InferredStaysOwned, RowTypes
  <2> QED
    BY <1>5, <2>1, <2>2 DEF ActivityStep
<1>6. CASE StopHost \/ StartHost \/ Tick \/ SetBackClock
  BY <1>2, <1>6 DEF StopHost, StartHost, Tick, SetBackClock
<1> QED
  BY <1>2, <1>3, <1>4, <1>5, <1>6 DEF Next, HostStep, vars

(* No step deletes a Task.                                                 *)
LEMMA NextKeepsTasks ==
  ASSUME IInv, [Next]_vars
  PROVE  \A t \in Task : Exists(t) => status'[t] # "absent"
<1> USE DEF ownership, hostVars, execVars, Exists
<1> DEFINE Kept == \A t \in Task : status[t] # "absent" => status'[t] # "absent"
<1> SUFFICES Kept
  OBVIOUS
<1>1. RowTypes /\ "absent" \notin Status
  BY DEF IInv, TypeOK, RowTypes, Status, LiveStatus, Terminal
<1>2. ASSUME NEW t, NEW st, st # "absent", status' \in {status, [status EXCEPT ![t] = st]}
      PROVE  Kept
  BY <1>1, <1>2 DEF RowTypes
<1>3. CASE UNCHANGED status
  BY <1>3
<1>4. ASSUME NEW t \in Task, TaskStep(t)
      PROVE  Kept
  <2>1. ASSUME NEW a \in Agent, NEW s \in AnySession, NEW p \in Principal, NEW st \in Status,
               CreateTask(t, a, p, s, st)
        PROVE  Kept
    BY <1>1, <1>2, <2>1 DEF CreateTask
  <2>2. ASSUME NEW a \in Agent, NEW s \in AnySession, NEW st \in Status,
               UpdateTask(t, a, s, st) \/ Heartbeat(t, a, s, st)
        PROVE  Kept
    BY <1>1, <1>2, <2>2 DEF UpdateTask, Heartbeat
  <2>3. ASSUME NEW a \in Agent, NEW s \in AnySession,
               \/ ReplayCreate(t, a, s)
               \/ \E renamed \in BOOLEAN : ClaimTask(t, a, s, renamed)
               \/ AddAgentMessage(t, a, s)
        PROVE  Kept
    BY <1>3, <2>3 DEF ReplayCreate, ClaimTask, AddAgentMessage
  <2>4. ASSUME NEW a \in Agent, UnassignTask(t, a)
        PROVE  Kept
    BY <1>3, <2>4 DEF UnassignTask
  <2> HIDE DEF Kept
  <2> QED
    BY <1>4, <2>1, <2>2, <2>3, <2>4 DEF TaskStep
<1>5. ASSUME NEW p \in Principal, NEW s \in Session, SessionStep(p, s)
      PROVE  Kept
  BY <1>3, <1>5 DEF SessionStep, TouchSessionActivity, CloseSession
<1>6. ASSUME NEW x \in Activity, ActivityStep(x)
      PROVE  Kept
  <2>1. ASSUME NEW p \in Principal, NEW s \in AnySession, NEW isExec \in BOOLEAN,
               StartActivity(x, p, s, isExec)
        PROVE  Kept
    BY <1>2, <1>3, <2>1 DEF StartActivity, InferTask
  <2>2. ASSUME NEW outcome \in {"succeeded", "failed"}, CompleteActivity(x, outcome)
        PROVE  Kept
    <3>1. VerifiedOutcome(attributed[x].task, x, outcome) # "absent"
      BY DEF VerifiedOutcome
    <3> QED
      BY <1>2, <2>2, <3>1 DEF CompleteActivity
  <2> HIDE DEF Kept
  <2> QED
    BY <1>6, <2>1, <2>2 DEF ActivityStep
<1>7. CASE StopHost \/ StartHost \/ Tick \/ SetBackClock \/ UNCHANGED vars
  BY <1>3, <1>7 DEF StopHost, StartHost, Tick, SetBackClock, vars
<1> HIDE DEF Kept
<1> QED
  BY <1>4, <1>5, <1>6, <1>7 DEF Next, HostStep

LEMMA NextAttributedExists ==
  ASSUME IInv, [Next]_vars
  PROVE  AttributedExists'
<1> USE DEF ownership, hostVars, execVars, Exists
<1>1. /\ \A t \in Task : status[t] # "absent" => status'[t] # "absent"
      /\ \A x \in Activity : attributed[x].phase = "started" =>
           attributed[x].task \in Task /\ status[attributed[x].task] # "absent"
      /\ attributed \in [Activity -> Event]
  BY NextKeepsTasks DEF IInv, AttributedExists, TypeOK
<1>2. CASE UNCHANGED attributed
  BY <1>1, <1>2 DEF AttributedExists
<1>3. ASSUME NEW t \in Task, TaskStep(t)
      PROVE  UNCHANGED attributed
  BY <1>3 DEF TaskStep, CreateTask, ReplayCreate, UpdateTask, Heartbeat, ClaimTask,
              AddAgentMessage, UnassignTask
<1>4. ASSUME NEW p \in Principal, NEW s \in Session, SessionStep(p, s)
      PROVE  UNCHANGED attributed
  BY <1>4 DEF SessionStep, TouchSessionActivity, CloseSession
<1>5. ASSUME NEW x \in Activity, ActivityStep(x)
      PROVE  AttributedExists'
  <2>1. ASSUME NEW p \in Principal, NEW s \in AnySession, NEW isExec \in BOOLEAN,
               StartActivity(x, p, s, isExec)
        PROVE  AttributedExists'
    <3>1. PICK t \in Task :
            /\ StartedExec(t, x, s, isExec)
            /\ \/ t \in AttachesTo(p, s, lease') /\ UNCHANGED <<status, ownership, heartbeatAt>>
               \/ InferTask(t, p)
      BY <2>1 DEF StartActivity
    <3>2. status'[t] # "absent"
      <4>1. CASE t \in AttachesTo(p, s, lease') /\ UNCHANGED status
        BY <4>1 DEF AttachesTo, LiveFormal, Inferred
      <4>2. CASE InferTask(t, p)
        BY <4>2 DEF InferTask, IInv, TypeOK
      <4> QED
        BY <3>1, <4>1, <4>2
    <3> DEFINE event == [phase |-> "started", task |-> t, session |-> s, isExec |-> isExec]
    <3>3. attributed' = [attributed EXCEPT ![x] = event] /\ event.task = t
      BY <3>1 DEF StartedExec
    <3> HIDE DEF event
    <3> QED
      BY <1>1, <3>2, <3>3 DEF AttributedExists
  <2>2. ASSUME NEW outcome, CompleteActivity(x, outcome)
        PROVE  AttributedExists'
    <3>1. attributed' = [attributed EXCEPT ![x] = Ended(attributed[x])]
      BY <2>2 DEF CompleteActivity
    <3>2. Ended(attributed[x]).phase = "ended"
      BY <1>1 DEF Ended, Event
    <3> QED
      BY <1>1, <3>1, <3>2 DEF AttributedExists
  <2> QED
    BY <1>5, <2>1, <2>2 DEF ActivityStep
<1>6. CASE StopHost
  <2>1. ASSUME NEW x \in Activity
        PROVE  attributed'[x].phase = "started" => attributed'[x] = attributed[x]
    BY <1>1, <1>6 DEF StopHost, Ended, Event
  <2> QED
    BY <1>1, <2>1 DEF AttributedExists
<1>7. CASE StartHost \/ Tick \/ SetBackClock
  BY <1>2, <1>7 DEF StartHost, Tick, SetBackClock
<1> QED
  BY <1>2, <1>3, <1>4, <1>5, <1>6, <1>7 DEF Next, HostStep, vars

(* A row is written with the time of the clock, or with an earlier row's.  *)
LEMMA NextSeenWithinClock ==
  ASSUME IInv, [Next]_vars
  PROVE  SeenWithinClock'
<1> USE DEF ownership, hostVars, execVars
<1> DEFINE Bounded == \A t \in Task : heartbeatAt'[t] <= MaxNow
<1>1. /\ \A t \in Task : heartbeatAt[t] <= MaxNow
      /\ heartbeatAt \in [Task -> Nat \cup {Never}]
      /\ now <= MaxNow /\ now \in Nat /\ MaxNow \in Nat
  BY SoundTables, ClockAssumption DEF IInv, TypeOK, SeenWithinClock
<1>2. ASSUME NEW t, NEW at \in {now, Never},
             heartbeatAt' \in {heartbeatAt, [heartbeatAt EXCEPT ![t] = at]}
      PROVE  Bounded
  BY <1>1, <1>2 DEF Never
<1>3. Bounded
  <2>1. CASE UNCHANGED heartbeatAt
    BY <1>2, <2>1
  <2>2. ASSUME NEW t \in Task, TaskStep(t)
        PROVE  Bounded
    <3>1. \E at \in {now, Never} : heartbeatAt' \in {heartbeatAt, [heartbeatAt EXCEPT ![t] = at]}
      BY <2>2 DEF TaskStep, CreateTask, ReplayCreate, UpdateTask, Heartbeat, ClaimTask,
                  AddAgentMessage, UnassignTask
    <3> HIDE DEF Bounded
    <3> QED
      BY <1>2, <3>1
  <2>3. ASSUME NEW p \in Principal, NEW s \in Session, SessionStep(p, s)
        PROVE  UNCHANGED heartbeatAt
    BY <2>3 DEF SessionStep, TouchSessionActivity, CloseSession
  <2>4. ASSUME NEW x \in Activity, ActivityStep(x)
        PROVE  Bounded
    <3>1. \E t : heartbeatAt' \in {heartbeatAt, [heartbeatAt EXCEPT ![t] = now]}
      BY <2>4 DEF ActivityStep, StartActivity, InferTask, CompleteActivity
    <3> HIDE DEF Bounded
    <3> QED
      BY <1>2, <3>1
  <2>5. CASE StopHost \/ StartHost \/ Tick \/ SetBackClock
    BY <2>1, <2>5 DEF StopHost, StartHost, Tick, SetBackClock
  <2> HIDE DEF Bounded
  <2> QED
    BY <2>1, <2>2, <2>3, <2>4, <2>5 DEF Next, HostStep, vars
<1>4. ASSUME NEW t \in Task, NEW k \in Key, Bound(lease'[t], k)
      PROVE  lease'[t][k].lastSeen <= MaxNow
  <2>1. PICK at \in 0 .. MaxNow : Evolves(lease'[t], lease[t], at)
    BY NextLeaseStep DEF LeaseStep
  <2>2. \/ lease'[t][k].lastSeen = at
        \/ lease[t][k] # NoLease /\ lease'[t][k].lastSeen = lease[t][k].lastSeen
    BY <1>4, <2>1 DEF Evolves, Bound
  <2> QED
    BY <1>1, <2>2 DEF IInv, SeenWithinClock, Bound
<1> QED
  BY <1>3, <1>4 DEF SeenWithinClock, Bound

-----------------------------------------------------------------------------
LEMMA InitInv ==
  ASSUME Init
  PROVE  IInv
<1> USE DEF Init
<1>1. TypeOK
  <2>1. EmptyTable \in LeaseTable
    BY DEF EmptyTable, LeaseTable
  <2>2. NoEvidence \in Evidence /\ NoExec \in Exec /\ NewEvent \in Event
    BY DEF NoEvidence, NoExec, NewEvent, Evidence, Exec, Event, Outcome, Phase
  <2> QED
    BY <2>1, <2>2, ClockAssumption DEF TypeOK
<1>2. \A t \in Task : status[t] = "absent" /\ \A k \in Key : lease[t][k] = NoLease
  BY DEF EmptyTable
<1>3. \A x \in Activity : attributed[x].phase = "new"
  BY DEF NewEvent
<1> QED
  BY <1>1, <1>2, <1>3, ClockAssumption
     DEF IInv, LeasesSound, HeldOnlyBy, AbsentUnleased, InferredStaysOwned, AttributedExists,
         SeenWithinClock, Exists, Bound, Never

LEMMA NextInv ==
  ASSUME IInv, [Next]_vars
  PROVE  IInv'
<1>1. LeaseStep
  BY NextLeaseStep
<1>2. lease' \in [Task -> LeaseTable] /\ LeasesSound'
  BY <1>1 DEF LeaseStep, Sound, LeasesSound
<1>3. TypeOK'
  BY <1>2, TypeParts, NextHostTypes, NextRowTypes, NextExecTypes
     DEF TypeOK, HostTypes, RowTypes, ExecTypes
<1> QED
  BY <1>2, <1>3, NextAbsentUnleased, NextInferredStaysOwned, NextAttributedExists,
     NextSeenWithinClock DEF IInv

(* The inductive invariant holds always.                                   *)
THEOREM Invariance == Spec => []IInv
BY InitInv, NextInv, PTL DEF Spec

(* The variables keep their types in every reachable state: no operation   *)
(* leaves a row of another shape behind.                                   *)
THEOREM TypeCorrect == Spec => []TypeOK
<1>1. IInv => TypeOK
  BY DEF IInv
<1> QED
  BY <1>1, Invariance, PTL

(* Whatever sequence of claims, unassignments, messages, renewals,         *)
(* closures and restarts: an open lease is the current owner's.            *)
THEOREM OpenLeasesAreOwners == Spec => []OpenLeaseIsOwners
<1>1. IInv => OpenLeaseIsOwners
  BY DEF IInv, LeasesSound, HeldOnlyBy, OpenLeaseIsOwners, IsOpen
<1> QED
  BY <1>1, Invariance, PTL

(* No operation ever fails on a CHECK constraint of the lease table, also  *)
(* when the clock is set back.                                             *)
THEOREM LeaseRowsAreValid == Spec => []LeaseRowsValid
<1>1. IInv => LeaseRowsValid
  BY DEF IInv, LeasesSound, HeldOnlyBy, LeaseRowsValid, ValidRow, Bound
<1> QED
  BY <1>1, Invariance, PTL

(* A lease never changes hands, no observation takes back a later one, and *)
(* a closed lease never changes.                                           *)
THEOREM LeasesAdvance == Spec => LeasesOnlyAdvance
<1>1. IInv /\ [Next]_vars =>
        [\A t \in Task : lease'[t] # lease[t] => \A k \in Key : Bound(lease[t], k) =>
           /\ HeldBy(lease'[t][k], lease[t][k].agent, lease[t][k].principal)
           /\ lease'[t][k].lastSeen >= lease[t][k].lastSeen
           /\ IsClosed(lease[t][k]) => lease'[t][k] = lease[t][k]]_vars
  BY NextLeaseStep DEF LeaseStep, Evolves, Bound
<1> QED
  BY <1>1, Invariance, PTL DEF Spec, LeasesOnlyAdvance

(* The owner seen on any live lease is shown online, so a claim by another *)
(* Agent is refused.                                                       *)
LEMMA SeenOwnerIsOnline ==
  ASSUME IInv, NEW t \in Task, SeenRecently(t)
  PROVE  Presence(lease[t], owner[t], principal[t], now) = "online"
<1>1. PICK k \in Key : /\ HeldBy(lease[t][k], owner[t], principal[t])
                       /\ IsLive(lease[t][k], now)
                       /\ now - lease[t][k].lastSeen <= OnlineAfter
  BY DEF SeenRecently
<1>2. \A j \in Key : lease[t][j] # NoLease => lease[t][j].lastSeen <= MaxNow
  BY DEF IInv, SeenWithinClock, Bound
<1>3. Sound(lease[t], owner[t], principal[t]) /\ now \in Nat /\ MaxNow \in Nat
  BY SoundTables, ClockAssumption
<1> HIDE DEF IInv
<1> QED
  BY <1>1, <1>2, <1>3, OnlineWhenSeen

LEMMA NextKeepsOnlineOwner ==
  ASSUME IInv, [Next]_vars, NEW t \in Task, Owned(t), SeenRecently(t)
  PROVE  owner'[t] \in {owner[t], NoAgent}
<1> USE DEF ownership, hostVars, execVars
<1>1. /\ owner \in [Task -> Agent \cup {NoAgent}] /\ principal \in [Task -> Principal]
      /\ Exists(t) /\ owner[t] # NoAgent
      /\ Presence(lease[t], owner[t], principal[t], now) = "online"
  BY SeenOwnerIsOnline DEF IInv, TypeOK, Owned
<1>2. CASE UNCHANGED owner
  BY <1>2
<1>3. ASSUME NEW u \in Task, TaskStep(u)
      PROVE  owner'[t] \in {owner[t], NoAgent}
  <2>1. ASSUME NEW a \in Agent, NEW s \in AnySession, NEW p \in Principal, NEW st \in Status,
               CreateTask(u, a, p, s, st)
        PROVE  owner'[t] = owner[t]
    BY <1>1, <2>1 DEF CreateTask
  <2>2. ASSUME NEW a \in Agent, NEW s \in AnySession,
               \/ ReplayCreate(u, a, s)
               \/ \E st \in Status : UpdateTask(u, a, s, st) \/ Heartbeat(u, a, s, st)
               \/ AddAgentMessage(u, a, s)
        PROVE  UNCHANGED owner
    BY <2>2 DEF ReplayCreate, UpdateTask, Heartbeat, AddAgentMessage
  <2>3. ASSUME NEW a \in Agent, NEW s \in AnySession, NEW renamed, ClaimTask(u, a, s, renamed)
        PROVE  owner'[t] = owner[t]
    BY <1>1, <2>3 DEF ClaimTask, CanClaim
  <2>4. ASSUME NEW a \in Agent, UnassignTask(u, a)
        PROVE  owner'[t] \in {owner[t], NoAgent}
    BY <1>1, <2>4 DEF UnassignTask
  <2> QED
    BY <1>2, <1>3, <2>1, <2>2, <2>3, <2>4 DEF TaskStep
<1>4. ASSUME NEW p \in Principal, NEW s \in Session, SessionStep(p, s)
      PROVE  UNCHANGED owner
  BY <1>4 DEF SessionStep, TouchSessionActivity, CloseSession
<1>5. ASSUME NEW x \in Activity, ActivityStep(x)
      PROVE  owner'[t] = owner[t]
  <2>1. ASSUME NEW p, NEW u \in Task, InferTask(u, p)
        PROVE  owner'[t] = owner[t]
    BY <1>1, <2>1 DEF InferTask, Inferred, IInv, InferredStaysOwned
  <2> QED
    BY <1>5, <2>1 DEF ActivityStep, StartActivity, CompleteActivity
<1>6. CASE StopHost \/ StartHost \/ Tick \/ SetBackClock
  BY <1>6 DEF StopHost, StartHost, Tick, SetBackClock
<1> QED
  BY <1>2, <1>3, <1>4, <1>5, <1>6 DEF Next, HostStep, vars

(* An owner seen within OnlineAfter on any of its live leases is not       *)
(* replaced by another Agent.                                              *)
THEOREM OnlineOwnersAreKept == Spec => OnlineOwnerIsKept
<1>1. IInv /\ [Next]_vars =>
        [\A t \in Task :
           Owned(t) /\ owner'[t] \notin {owner[t], NoAgent} => ~SeenRecently(t)]_vars
  BY NextKeepsOnlineOwner
<1> QED
  BY <1>1, Invariance, PTL DEF Spec, OnlineOwnerIsKept

(* What the traffic of a session or of its activities renews is live.      *)
LEMMA TrafficRenewsLive ==
  ASSUME IInv, TrafficStep, NEW t \in Task, NEW k \in Key, Bound(lease[t], k),
         ~IsLive(lease[t][k], now)
  PROVE  lease'[t][k] = lease[t][k]
<1>1. ASSUME NEW p, NEW s, lease' = SessionRenewed(p, s)
      PROVE  lease'[t][k] = lease[t][k]
  <2>1. CASE Owned(t) /\ principal[t] = p
    <3>1. lease'[t] = Renewed(lease[t], s, owner[t], principal[t], now)
      BY <1>1, <2>1 DEF SessionRenewed
    <3> QED
      BY <3>1, SoundTables, RenewedSound DEF Bound
  <2>2. CASE ~(Owned(t) /\ principal[t] = p)
    BY <1>1, <2>2 DEF SessionRenewed
  <2> QED
    BY <2>1, <2>2
<1>2. ASSUME NEW u \in Task, NEW a \in Agent, NEW s \in Session, AddAgentMessage(u, a, s)
      PROVE  lease'[t][k] = lease[t][k]
  <2>1. CASE u = t
    <3>1. lease'[t] = Observed(lease[t], s, a, principal[t], now)
      BY <1>2, <2>1, SoundTables DEF AddAgentMessage
    <3>2. principal[t] \in Principal /\ CanObserve(lease[t], s, a, principal[t], now)
          /\ Sound(lease[t], a, principal[t])
      BY <1>2, <2>1, SoundTables DEF AddAgentMessage, IInv, TypeOK
    <3> QED
      BY <3>1, <3>2, SoundTables, ObservedSound DEF Bound
  <2>2. CASE u # t
    BY <1>2, <2>2, SoundTables DEF AddAgentMessage
  <2> QED
    BY <2>1, <2>2
<1>3. CASE StartHost
  BY <1>3 DEF StartHost, NeedsSeed
<1>4. ASSUME NEW x \in Activity, ActivityStep(x)
      PROVE  lease'[t][k] = lease[t][k]
  BY <1>1, <1>4 DEF ActivityStep, StartActivity, CompleteActivity
<1>5. ASSUME NEW p \in Principal, NEW s \in Session, TouchSessionActivity(p, s)
      PROVE  lease'[t][k] = lease[t][k]
  BY <1>1, <1>5 DEF TouchSessionActivity
<1> QED
  BY <1>2, <1>3, <1>4, <1>5 DEF TrafficStep

(* Neither traffic nor a restart revives an expired lease.                 *)
THEOREM TrafficRevivesNothing == Spec => TrafficNeverRevives
<1>1. IInv /\ [Next]_vars =>
        [(\E t \in Task : \E k \in Key :
            Bound(lease[t], k) /\ ~IsLive(lease[t][k], now) /\ lease'[t][k] # lease[t][k])
          => ~TrafficStep]_vars
  BY TrafficRenewsLive
<1> QED
  BY <1>1, Invariance, PTL DEF Spec, TrafficNeverRevives

(* A Task that exists keeps its principal, and is not made formal.         *)
LEMMA ExistingTask ==
  ASSUME IInv, [Next]_vars, NEW t \in Task, Exists(t)
  PROVE  principal'[t] = principal[t] /\ (formal'[t] => formal[t])
<1> USE DEF ownership, hostVars, execVars
<1>1. principal \in [Task -> Principal] /\ formal \in [Task -> BOOLEAN]
  BY DEF IInv, TypeOK
<1>2. CASE UNCHANGED <<formal, principal>>
  BY <1>2
<1>3. ASSUME NEW u \in Task, TaskStep(u)
      PROVE  principal'[t] = principal[t] /\ (formal'[t] => formal[t])
  <2>1. ASSUME NEW a \in Agent, NEW s \in AnySession, NEW p \in Principal, NEW st \in Status,
               CreateTask(u, a, p, s, st)
        PROVE  principal'[t] = principal[t] /\ (formal'[t] => formal[t])
    BY <1>1, <2>1 DEF CreateTask
  <2> QED
    BY <1>2, <1>3, <2>1 DEF TaskStep, ReplayCreate, UpdateTask, Heartbeat, ClaimTask,
       AddAgentMessage, UnassignTask
<1>4. ASSUME NEW x \in Activity, ActivityStep(x)
      PROVE  principal'[t] = principal[t] /\ (formal'[t] => formal[t])
  <2>1. ASSUME NEW u \in Task, NEW p \in Principal, InferTask(u, p)
        PROVE  principal'[t] = principal[t] /\ (formal'[t] => formal[t])
    BY <1>1, <2>1 DEF InferTask, Inferred
  <2>2. ASSUME NEW p \in Principal, NEW s \in AnySession, NEW isExec \in BOOLEAN,
               StartActivity(x, p, s, isExec)
        PROVE  principal'[t] = principal[t] /\ (formal'[t] => formal[t])
    BY <1>2, <2>1, <2>2 DEF StartActivity
  <2> QED
    BY <1>2, <1>4, <2>2 DEF ActivityStep, CompleteActivity
<1> QED
  BY <1>2, <1>3, <1>4 DEF Next, HostStep, SessionStep, TouchSessionActivity, CloseSession, StopHost,
     StartHost, Tick, SetBackClock, vars

(* An activity is in flight as it was, or just started.                    *)
LEMMA InFlight ==
  ASSUME IInv, [Next]_vars, NEW x \in Activity, attributed'[x].phase = "started"
  PROVE  \/ attributed'[x] = attributed[x]
         \/ \E p \in Principal, s \in AnySession, isExec \in BOOLEAN : StartActivity(x, p, s, isExec)
<1> USE DEF ownership, hostVars, execVars
<1>1. attributed \in [Activity -> Event]
  BY DEF IInv, TypeOK
<1>2. CASE StopHost
  BY <1>1, <1>2 DEF StopHost, Ended, Event
<1>3. ASSUME NEW y \in Activity, ActivityStep(y)
      PROVE  \/ attributed'[x] = attributed[x]
             \/ \E p \in Principal, s \in AnySession, isExec \in BOOLEAN :
                  StartActivity(x, p, s, isExec)
  <2>1. ASSUME NEW p \in Principal, NEW s \in AnySession, NEW isExec \in BOOLEAN,
               StartActivity(y, p, s, isExec)
        PROVE  attributed'[x] = attributed[x] \/ x = y
    BY <1>1, <2>1 DEF StartActivity, StartedExec
  <2>2. ASSUME NEW outcome, CompleteActivity(y, outcome)
        PROVE  attributed'[x] = attributed[x]
    BY <1>1, <2>2 DEF CompleteActivity, Ended, Event
  <2> QED
    BY <1>3, <2>1, <2>2 DEF ActivityStep
<1>4. ASSUME NEW t \in Task, TaskStep(t)
      PROVE  UNCHANGED attributed
  BY <1>4 DEF TaskStep, CreateTask, ReplayCreate, UpdateTask, Heartbeat, ClaimTask,
              AddAgentMessage, UnassignTask
<1> QED
  BY <1>2, <1>3, <1>4 DEF Next, HostStep, SessionStep, TouchSessionActivity, CloseSession,
        StartHost,
     Tick, SetBackClock, vars

(* Whoever owns the Task now, the session that an activity came from stays *)
(* bound to it.                                                            *)
LEMMA NextAttributionIsBound ==
  ASSUME IInv, AttributionIsBound, [Next]_vars
  PROVE  AttributionIsBound'
<1> SUFFICES ASSUME NEW x \in Activity, attributed'[x].phase = "started",
                    formal'[attributed'[x].task]
             PROVE  LET t == attributed'[x].task
                        s == attributed'[x].session
                    IN  /\ s \in Session /\ Bound(lease'[t], s)
                        /\ lease'[t][s].principal = principal'[t]
  BY DEF AttributionIsBound
<1> DEFINE t == attributed'[x].task
           s == attributed'[x].session
<1>1. CASE attributed'[x] = attributed[x]
  <2>1. t \in Task /\ Exists(t)
    BY <1>1 DEF IInv, AttributedExists
  <2>2. principal'[t] = principal[t] /\ formal[t]
    BY <2>1, ExistingTask
  <2>3. s \in Session /\ Bound(lease[t], s) /\ lease[t][s].principal = principal[t]
    BY <1>1, <2>2 DEF AttributionIsBound
  <2>4. PICK at \in 0 .. MaxNow : Evolves(lease'[t], lease[t], at)
    BY <2>1, NextLeaseStep DEF LeaseStep
  <2>5. HeldBy(lease'[t][s], lease[t][s].agent, lease[t][s].principal)
    BY <2>3, <2>4 DEF Evolves, Bound, Key
  <2> QED
    BY <2>2, <2>3, <2>5 DEF HeldBy, Bound
<1>2. ASSUME NEW p \in Principal, NEW q \in AnySession, NEW isExec \in BOOLEAN,
             StartActivity(x, p, q, isExec)
      PROVE  s \in Session /\ Bound(lease'[t], s) /\ lease'[t][s].principal = principal'[t]
  <2>1. PICK u \in Task :
          /\ StartedExec(u, x, q, isExec)
          /\ \/ u \in AttachesTo(p, q, lease') /\ UNCHANGED <<status, ownership, heartbeatAt>>
             \/ InferTask(u, p)
    BY <1>2 DEF StartActivity
  <2>2. t = u /\ s = q
    BY <2>1 DEF StartedExec, IInv, TypeOK
  <2>3. ~InferTask(u, p)
    BY <2>2 DEF InferTask, IInv, TypeOK
  <2>4. u \in AttachesTo(p, q, lease') /\ formal[u] /\ principal'[u] = principal[u]
    BY <2>1, <2>2, <2>3 DEF ownership
  <2>5. u \in LiveFormal(p, q, lease')
    BY <2>4 DEF AttachesTo, Inferred
  <2>6. principal[u] = p /\ HasLiveSession(lease'[u], q, owner[u], p, now)
    BY <2>5 DEF LiveFormal
  <2> QED
    BY <2>2, <2>4, <2>6 DEF HasLiveSession, HeldBy, Bound
<1> QED
  BY <1>1, <1>2, InFlight

(* An activity in flight for a formal Task came from a session bound to it.*)
THEOREM AttributionsAreBound == Spec => []AttributionIsBound
<1>1. Init => AttributionIsBound
  BY DEF Init, AttributionIsBound, NewEvent
<1> QED
  BY <1>1, NextAttributionIsBound, Invariance, PTL DEF Spec

-----------------------------------------------------------------------------
(* The generations of the internal key.                                    *)

(* A row under an internal key is held by the owner the key is derived     *)
(* from, and of all generations at most one is open.                       *)
Single(ls) ==
  /\ \A k \in LegacyKey : ls[k] # NoLease => HeldBy(ls[k], k.agent, k.principal)
  /\ \A j, k \in LegacyKey : IsOpen(ls[j]) /\ IsOpen(ls[k]) => j = k

(* A table where generations were closed, and no other changed.            *)
LEMMA ClosingSingle ==
  ASSUME NEW ls, NEW new, Single(ls),
         \A k \in LegacyKey :
           \/ new[k] = ls[k]
           \/ ls[k] # NoLease /\ ~IsOpen(new[k]) /\ HeldBy(new[k], ls[k].agent, ls[k].principal)
  PROVE  Single(new)
<1>1. ASSUME NEW k \in LegacyKey
      PROVE  /\ new[k] # NoLease => HeldBy(new[k], k.agent, k.principal)
             /\ IsOpen(new[k]) => IsOpen(ls[k])
  BY DEF Single, HeldBy
<1> QED
  BY <1>1 DEF Single

(* A call without a session finds the open generation of its owner, and    *)
(* opens a new one only if there is none.                                  *)
LEMMA TouchedSingle ==
  ASSUME NEW ls, NEW a \in Agent, NEW p \in Principal, NEW s \in AnySession, NEW at \in Nat,
         Sound(ls, a, p), Single(ls), TouchAllowed(ls, s, a, p)
  PROVE  Single(Touched(ls, s, a, p, at))
<1> DEFINE k == TouchKey(ls, s, a, p)
           new == Touched(ls, s, a, p, at)
           open == {j \in Generations(ls, a, p) : IsOpen(ls[j])}
<1>1. new = IF ~Bound(ls, k) THEN [ls EXCEPT ![k] = FreshLease(a, p, at)]
            ELSE IF at > ls[k].lastSeen THEN [ls EXCEPT ![k] = Renewal(ls[k], at)] ELSE ls
  BY DEF Touched
<1>2. TouchAllowed(ls, s, a, p) <=> (Bound(ls, k) => HeldBy(ls[k], a, p) /\ IsOpen(ls[k]))
  BY DEF TouchAllowed
<1>3. s # NoSession => k = s
  BY DEF TouchKey
<1>4. s = NoSession =>
        k = IF open # {} THEN CHOOSE j \in open : TRUE
            ELSE [agent |-> a, principal |-> p,
                  gen |-> IF Generations(ls, a, p) = {} THEN 0 ELSE LeaseCount(ls) + 1]
  BY DEF TouchKey
<1> SUFFICES Single(new)
  OBVIOUS
<1> HIDE DEF k, new
<1>5. ls \in LeaseTable /\ LegacyKey \subseteq Key
  BY DEF Sound, Key
<1>6. \A j \in Key : j # k => new[j] = ls[j]
  BY <1>1, <1>5 DEF LeaseTable
<1>7. CASE k \notin LegacyKey
  <2>1. \A j \in LegacyKey : new[j] = ls[j]
    BY <1>5, <1>6, <1>7
  <2> QED
    BY <2>1, ClosingSingle
<1>8. CASE k \in LegacyKey
  <2>1. s = NoSession
    BY <1>3, <1>8, LeaseNamesAssumption DEF AnySession
  <2>2. CASE open # {}
    <3>1. k \in open
      BY <1>4, <2>1, <2>2
    <3>2. IsOpen(ls[k]) /\ ls[k] # NoLease
      BY <3>1 DEF IsOpen
    <3>3. new[k] = ls[k] \/ new[k] = Renewal(ls[k], at)
      BY <1>1, <1>5, <1>8, <3>2 DEF Bound, LeaseTable
    <3>4. HeldBy(ls[k], k.agent, k.principal) /\ ls[k] \in Lease
      BY <1>5, <1>8, <3>2 DEF Single, LeaseTable
    <3>5. HeldBy(new[k], k.agent, k.principal)
      <4>1. Renewal(ls[k], at) \in Lease
        <5>1. Expiry(at) \in Nat
          BY LeaseTimesAssumption DEF Expiry
        <5> QED
          BY <3>4, <5>1 DEF Renewal, Lease
      <4>2. Renewal(ls[k], at).agent = ls[k].agent /\ Renewal(ls[k], at).principal = ls[k].principal
        BY <3>4 DEF Renewal, Lease
      <4> QED
        BY <3>3, <3>4, <4>1, <4>2, LeaseNamesAssumption DEF HeldBy
    <3>6. \A j \in LegacyKey : IsOpen(new[j]) => IsOpen(ls[j])
      BY <1>5, <1>6, <3>2
    <3>7. \A j \in LegacyKey : new[j] # NoLease => HeldBy(new[j], j.agent, j.principal)
      BY <1>5, <1>6, <3>5 DEF Single
    <3> QED
      BY <3>6, <3>7 DEF Single
  <2>3. CASE open = {}
    <3>1. k.agent = a /\ k.principal = p
      BY <1>4, <2>1, <2>3
    <3>2. ~Bound(ls, k)
      BY <1>2, <1>8, <2>3, <3>1 DEF Generations
    <3>3. new[k] = FreshLease(a, p, at)
      BY <1>1, <1>5, <1>8, <3>2 DEF LeaseTable
    <3>4. HeldBy(new[k], a, p)
      BY <3>3, FreshLeaseSound
    <3>5. ASSUME NEW j \in LegacyKey, IsOpen(ls[j])
          PROVE  FALSE
      <4>1. HeldBy(ls[j], a, p) /\ HeldBy(ls[j], j.agent, j.principal)
        BY <1>5, <3>5 DEF Sound, HeldOnlyBy, Single, IsOpen
      <4>2. j \in open
        BY <3>5, <4>1 DEF Generations, Bound, HeldBy
      <4> QED
        BY <2>3, <4>2
    <3>6. \A j \in LegacyKey : IsOpen(new[j]) => j = k
      BY <1>5, <1>6, <3>5
    <3> QED
      <4>1. \A j \in LegacyKey : new[j] # NoLease => HeldBy(new[j], j.agent, j.principal)
        BY <1>5, <1>6, <3>1, <3>4 DEF Single
      <4> QED
        BY <3>6, <4>1 DEF Single
  <2> QED
    BY <2>2, <2>3
<1> QED
  BY <1>7, <1>8

(* Only a session's own lease is renewed by its traffic.                   *)
LEMMA RenewedSingle ==
  ASSUME NEW ls \in LeaseTable, NEW a, NEW p, NEW s, NEW at, Single(ls)
  PROVE  Single(Renewed(ls, s, a, p, at))
<1>1. \A k \in LegacyKey : Renewed(ls, s, a, p, at)[k] = ls[k]
  BY LeaseNamesAssumption DEF Renewed, LeaseTable, Key
<1> QED
  BY <1>1, ClosingSingle

(* A message binds or renews the lease of a session.                       *)
LEMMA ObservedSingle ==
  ASSUME NEW ls \in LeaseTable, NEW a, NEW p, NEW s \in Session, NEW at, Single(ls)
  PROVE  Single(Observed(ls, s, a, p, at))
<1>1. CASE Bound(ls, s)
  BY <1>1, RenewedSingle DEF Observed
<1>2. CASE ~Bound(ls, s)
  <2>1. TouchKey(ls, s, a, p) = s /\ s \notin LegacyKey
    BY LeaseNamesAssumption DEF TouchKey
  <2>2. \A k \in LegacyKey : Observed(ls, s, a, p, at)[k] = ls[k]
    BY <1>2, <2>1 DEF Observed, Touched, LeaseTable, Key
  <2> QED
    BY <2>2, ClosingSingle
<1> QED
  BY <1>1, <1>2

(* Closing opens nothing.                                                  *)
LEMMA SessionClosedSingle ==
  ASSUME NEW ls, NEW a, NEW p, NEW s, NEW q, NEW at \in Nat, Sound(ls, a, p), Single(ls)
  PROVE  Single(SessionClosed(ls, s, q, at))
<1>1. ASSUME NEW k \in LegacyKey
      PROVE  \/ SessionClosed(ls, s, q, at)[k] = ls[k]
             \/ /\ ls[k] # NoLease /\ ~IsOpen(SessionClosed(ls, s, q, at)[k])
                /\ HeldBy(SessionClosed(ls, s, q, at)[k], ls[k].agent, ls[k].principal)
  <2>1. CASE IsOpen(ls[k])
    <3>1. ls[k] \in Lease /\ ValidRow(ls[k]) /\ ls[k] # NoLease
      BY <2>1 DEF Sound, HeldOnlyBy, LeaseTable, Key, IsOpen
    <3>2. ~IsOpen(Closure(ls[k], at)) /\ HeldBy(Closure(ls[k], at), ls[k].agent, ls[k].principal)
      BY <2>1, <3>1, ClosureSound
    <3> QED
      BY <3>1, <3>2 DEF SessionClosed, Key
  <2>2. CASE ~IsOpen(ls[k])
    BY <2>2 DEF SessionClosed, Key
  <2> QED
    BY <2>1, <2>2
<1> QED
  BY <1>1, ClosingSingle

(* So does closing the leases of the owner that is replaced.               *)
LEMMA OwnerClosedSingle ==
  ASSUME NEW ls, NEW a, NEW p, NEW b, NEW q, NEW at \in Nat, Sound(ls, a, p), Single(ls)
  PROVE  Single(OwnerClosed(ls, b, q, at))
<1>1. ASSUME NEW k \in LegacyKey
      PROVE  \/ OwnerClosed(ls, b, q, at)[k] = ls[k]
             \/ /\ ls[k] # NoLease /\ ~IsOpen(OwnerClosed(ls, b, q, at)[k])
                /\ HeldBy(OwnerClosed(ls, b, q, at)[k], ls[k].agent, ls[k].principal)
  <2>1. CASE IsOpen(ls[k])
    <3>1. ls[k] \in Lease /\ ValidRow(ls[k]) /\ ls[k] # NoLease
      BY <2>1 DEF Sound, HeldOnlyBy, LeaseTable, Key, IsOpen
    <3>2. ~IsOpen(Closure(ls[k], at)) /\ HeldBy(Closure(ls[k], at), ls[k].agent, ls[k].principal)
      BY <2>1, <3>1, ClosureSound
    <3> QED
      BY <3>1, <3>2 DEF OwnerClosed, Key
  <2>2. CASE ~IsOpen(ls[k])
    BY <2>2 DEF OwnerClosed, Key
  <2> QED
    BY <2>1, <2>2
<1> QED
  BY <1>1, ClosingSingle

AllSingle == \A t \in Task : Single(lease[t])

(* A step that changes the table of one Task only.                         *)
LEMMA OneTableSingle ==
  ASSUME IInv, AllSingle, NEW t \in Task, NEW new, lease' = [lease EXCEPT ![t] = new], Single(new)
  PROVE  AllSingle'
<1>1. \A u \in Task : lease'[u] = IF u = t THEN new ELSE lease[u]
  BY DEF IInv, TypeOK
<1> QED
  BY <1>1 DEF AllSingle

(* A touch by the owner of a Task.                                         *)
LEMMA OwnerOpSingle ==
  ASSUME IInv, AllSingle, NEW t \in Task, NEW s \in AnySession, owner[t] \in Agent,
         MayTouch(t, s), lease' = TouchedLease(t, s)
  PROVE  AllSingle'
<1>1. CASE IsTerminal(t)
  BY <1>1 DEF TouchedLease, AllSingle
<1>2. CASE ~IsTerminal(t)
  <2>1. principal[t] \in Principal
    BY DEF IInv, TypeOK
  <2>2. TouchAllowed(lease[t], s, owner[t], principal[t])
    BY <1>2 DEF MayTouch, CanTouch, TouchAllowed
  <2>3. Single(Touched(lease[t], s, owner[t], principal[t], now))
    BY <2>1, <2>2, SoundTables, TouchedSingle DEF AllSingle
  <2>4. lease' = [lease EXCEPT ![t] = Touched(lease[t], s, owner[t], principal[t], now)]
    BY <1>2 DEF TouchedLease
  <2> HIDE DEF IInv
  <2> QED
    BY <2>3, <2>4, OneTableSingle
<1> QED
  BY <1>1, <1>2

(* Every operation of an Agent.                                            *)
LEMMA TaskStepSingle ==
  ASSUME IInv, AllSingle, NEW t \in Task, TaskStep(t)
  PROVE  AllSingle'
<1>1. ASSUME NEW a \in Agent, NEW s \in AnySession, NEW p \in Principal, NEW st \in Status,
             CreateTask(t, a, p, s, st)
      PROVE  AllSingle'
  <2>1. Single(Touched(lease[t], s, a, p, now))
    BY <1>1, CreatedTable, SoundTables, TouchedSingle DEF CreateTask, AllSingle
  <2>2. lease' \in {lease, [lease EXCEPT ![t] = Touched(lease[t], s, a, p, now)]}
    BY <1>1 DEF CreateTask
  <2> QED
    BY <2>1, <2>2, OneTableSingle DEF AllSingle
<1>2. ASSUME NEW a \in Agent, NEW s \in AnySession,
             \/ ReplayCreate(t, a, s)
             \/ \E st \in Status : UpdateTask(t, a, s, st) \/ Heartbeat(t, a, s, st)
      PROVE  AllSingle'
  <2>1. owner[t] = a /\ MayTouch(t, s) /\ lease' = TouchedLease(t, s)
    BY <1>2 DEF ReplayCreate, UpdateTask, Heartbeat
  <2> QED
    BY <2>1, OwnerOpSingle
<1>3. ASSUME NEW a \in Agent, NEW s \in AnySession, NEW renamed, ClaimTask(t, a, s, renamed)
      PROVE  AllSingle'
  <2> DEFINE held == HeldForClaim(t, a)
  <2>1. principal[t] \in Principal
    BY DEF IInv, TypeOK
  <2>2. Sound(held, a, principal[t])
    BY ClaimedTable
  <2>3. Single(held)
    BY SoundTables, OwnerClosedSingle DEF HeldForClaim, AllSingle
  <2>4. /\ CanTouch(held, s, a, principal[t])
        /\ lease' = [lease EXCEPT ![t] = Touched(held, s, a, principal[t], now)]
    BY <1>3 DEF ClaimTask, HeldForClaim
  <2> HIDE DEF held
  <2>5. TouchAllowed(held, s, a, principal[t])
    BY <2>4 DEF CanTouch, TouchAllowed
  <2>6. Single(Touched(held, s, a, principal[t], now))
    BY <2>1, <2>2, <2>3, <2>5, SoundTables, TouchedSingle
  <2> QED
    BY <2>4, <2>6, OneTableSingle
<1>4. ASSUME NEW a \in Agent, NEW s \in AnySession, AddAgentMessage(t, a, s)
      PROVE  AllSingle'
  <2>1. /\ s \in Session
        /\ lease' = [lease EXCEPT ![t] = Observed(lease[t], s, a, principal[t], now)]
    BY <1>4 DEF AddAgentMessage, AnySession
  <2>2. Single(Observed(lease[t], s, a, principal[t], now))
    BY <2>1, SoundTables, ObservedSingle DEF AllSingle
  <2> QED
    BY <2>1, <2>2, OneTableSingle
<1>5. ASSUME NEW a \in Agent, UnassignTask(t, a)
      PROVE  AllSingle'
  <2>1. lease' = [lease EXCEPT ![t] = OwnerClosed(lease[t], a, principal[t], now)]
    BY <1>5 DEF UnassignTask
  <2>2. Single(OwnerClosed(lease[t], a, principal[t], now))
    BY SoundTables, OwnerClosedSingle DEF AllSingle
  <2> QED
    BY <2>1, <2>2, OneTableSingle
<1> HIDE DEF IInv, AllSingle
<1> QED
  BY <1>1, <1>2, <1>3, <1>4, <1>5 DEF TaskStep

(* The traffic of a session, which renews what the session holds.          *)
LEMMA TrafficSingle ==
  ASSUME IInv, AllSingle, NEW p, NEW s, lease' = SessionRenewed(p, s)
  PROVE  AllSingle'
<1> SUFFICES ASSUME NEW t \in Task
             PROVE  Single(lease'[t])
  BY DEF AllSingle
<1>1. lease'[t] \in {lease[t], Renewed(lease[t], s, owner[t], p, now)}
  BY DEF SessionRenewed
<1> QED
  BY <1>1, SoundTables, RenewedSingle DEF AllSingle

(* The lease a restart seeds is the only one of its Task.                  *)
LEMMA StartHostSingle ==
  ASSUME IInv, AllSingle, StartHost
  PROVE  AllSingle'
<1> SUFFICES ASSUME NEW t \in Task, NeedsSeed(t)
             PROVE  Single(lease'[t])
  BY DEF AllSingle, StartHost
<1> DEFINE k == [agent |-> owner[t], principal |-> principal[t], gen |-> 0]
           row == FreshLease(owner[t], principal[t], heartbeatAt[t])
<1>1. /\ owner[t] \in Agent /\ principal[t] \in Principal /\ heartbeatAt[t] \in Nat
      /\ lease[t] \in LeaseTable
  BY SoundTables DEF NeedsSeed, Owned, IInv, TypeOK
<1>2. HeldBy(row, owner[t], principal[t])
  BY <1>1, FreshLeaseSound
<1>3. lease'[t] = [lease[t] EXCEPT ![k] = row]
  BY DEF StartHost, Seeded
<1>4. \A j \in LegacyKey : lease[t][j] = NoLease
  BY DEF NeedsSeed, Bound, Key
<1>5. k.agent = owner[t] /\ k.principal = principal[t]
  OBVIOUS
<1> HIDE DEF k, row
<1>6. \A j \in LegacyKey : lease'[t][j] = IF j = k THEN row ELSE NoLease
  BY <1>1, <1>3, <1>4 DEF LeaseTable, Key
<1> QED
  BY <1>2, <1>5, <1>6 DEF Single, IsOpen

(* Every step leaves one open generation.                                  *)
LEMMA NextSingle ==
  ASSUME IInv, AllSingle, [Next]_vars
  PROVE  AllSingle'
<1>1. CASE UNCHANGED lease
  BY <1>1 DEF AllSingle
<1>2. ASSUME NEW p \in Principal, NEW s \in Session, SessionStep(p, s)
      PROVE  AllSingle'
  <2>1. CASE TouchSessionActivity(p, s)
    BY <2>1, TrafficSingle DEF TouchSessionActivity
  <2>2. CASE CloseSession(p, s)
    <3>1. \A t \in Task : lease'[t] = SessionClosed(lease[t], s, p, now)
      BY <2>2 DEF CloseSession
    <3> QED
      BY <3>1, SoundTables, SessionClosedSingle DEF AllSingle
  <2> QED
    BY <1>2, <2>1, <2>2 DEF SessionStep
<1>3. ASSUME NEW x \in Activity, ActivityStep(x)
      PROVE  AllSingle'
  <2>1. \E p, s : lease' = SessionRenewed(p, s)
    BY <1>3 DEF ActivityStep, StartActivity, CompleteActivity
  <2> QED
    BY <2>1, TrafficSingle
<1> HIDE DEF IInv, AllSingle
<1> QED
  BY <1>1, <1>2, <1>3, TaskStepSingle, StartHostSingle
     DEF Next, HostStep, StopHost, Tick, SetBackClock, vars

(* However often the host restarts, the clock is set back or the Task      *)
(* changes hands: at most one generation of the internal key is open.      *)
THEOREM OneGenerationIsOpen == Spec => []OneOpenGeneration
<1>1. Init => AllSingle
  BY DEF Init, AllSingle, Single, EmptyTable, IsOpen, Key
<1>2. AllSingle => OneOpenGeneration
  BY DEF AllSingle, Single, OneOpenGeneration
<1> QED
  BY <1>1, <1>2, NextSingle, Invariance, PTL DEF Spec
-----------------------------------------------------------------------------
(* The evidence a success is granted on.                                   *)

(* Until the clock is set back, the row of a Task is about the exec last   *)
(* started for it, was written no later than now, and an exec under way    *)
(* whose start was recorded has not left the row empty.                    *)
RowIsLatest ==
  \A t \in Task : evidence[t].exec = lastExec[t] /\ evidence[t].at <= now

StartsAreRecorded ==
  \A x \in Activity : attributed[x].phase = "started" /\
                      Recorded(attributed[x].session, attributed[x].isExec)
    => lastExec[attributed[x].task].activity # NoActivity

EvidenceInv == setBacks = 0 => RowIsLatest /\ StartsAreRecorded

(* A start that is recorded replaces the row: its time is now or earlier.  *)
LEMMA StartKeepsEvidence ==
  ASSUME IInv, RowIsLatest, StartsAreRecorded, NEW x \in Activity, NEW p, NEW s, NEW isExec,
         StartActivity(x, p, s, isExec)
  PROVE  RowIsLatest' /\ StartsAreRecorded'
<1> DEFINE started == [activity |-> x, outcome |-> "pending"]
<1>1. PICK t \in Task : StartedExec(t, x, s, isExec)
  BY DEF StartActivity
<1>2. now' = now
  BY DEF StartActivity, hostVars
<1>3. /\ now \in Nat /\ now >= evidence[t].at /\ evidence \in [Task -> Evidence]
      /\ lastExec \in [Task -> Exec] /\ attributed \in [Activity -> Event]
  BY DEF IInv, TypeOK, RowIsLatest, Evidence
<1>4. \A y \in Activity : attributed'[y] =
        IF y = x THEN [phase |-> "started", task |-> t, session |-> s, isExec |-> isExec]
        ELSE attributed[y]
  BY <1>1, <1>3 DEF StartedExec
<1>5. CASE Recorded(s, isExec)
  <2>1. \A u \in Task : /\ evidence'[u] = IF u = t THEN [exec |-> started, at |-> now]
                                          ELSE evidence[u]
                        /\ lastExec'[u] = IF u = t THEN started ELSE lastExec[u]
    BY <1>1, <1>3, <1>5 DEF StartedExec
  <2>2. RowIsLatest'
    BY <1>2, <1>3, <2>1 DEF RowIsLatest
  <2>3. \A u \in Task : lastExec'[u].activity \in {x, lastExec[u].activity}
    BY <2>1
  <2>4. StartsAreRecorded'
    <3> SUFFICES ASSUME NEW y \in Activity, y # x, attributed[y].phase = "started",
                        Recorded(attributed[y].session, attributed[y].isExec)
                 PROVE  lastExec'[attributed[y].task].activity # NoActivity
      BY <1>4, <2>1, NoValuesAssumption DEF StartsAreRecorded, Recorded
    <3>1. attributed[y].task \in Task
      BY DEF IInv, AttributedExists
    <3> QED
      BY <2>3, <3>1, NoValuesAssumption DEF StartsAreRecorded
  <2> QED
    BY <2>2, <2>4
<1>6. CASE ~Recorded(s, isExec)
  <2>1. evidence' = evidence /\ lastExec' = lastExec
    BY <1>1, <1>6 DEF StartedExec
  <2> QED
    BY <1>2, <1>4, <1>6, <2>1 DEF RowIsLatest, StartsAreRecorded, Recorded
<1> QED
  BY <1>5, <1>6

(* A completion writes into the row what it says of the exec last started, *)
(* and nothing if it is of an earlier one.                                 *)
LEMMA CompletionKeepsEvidence ==
  ASSUME IInv, RowIsLatest, StartsAreRecorded, NEW x \in Activity,
         NEW outcome \in {"succeeded", "failed"}, CompleteActivity(x, outcome)
  PROVE  RowIsLatest' /\ StartsAreRecorded'
<1> DEFINE t == attributed[x].task
           recorded == Recorded(attributed[x].session, attributed[x].isExec)
<1>1. /\ now \in Nat /\ now' = now /\ evidence \in [Task -> Evidence]
      /\ lastExec \in [Task -> Exec] /\ attributed \in [Activity -> Event]
  BY DEF IInv, TypeOK, CompleteActivity, hostVars
<1>2. /\ attributed[x].phase = "started" /\ attributed' = [attributed EXCEPT ![x] = Ended(@)]
      /\ evidence' = IF recorded THEN [evidence EXCEPT ![t] = CompletedRow(t, x, outcome)]
                     ELSE evidence
      /\ lastExec' = IF recorded /\ lastExec[t].activity = x
                     THEN [lastExec EXCEPT ![t].outcome = outcome] ELSE lastExec
  BY DEF CompleteActivity
<1>3. t \in Task
  BY <1>2 DEF IInv, AttributedExists
<1>4. /\ Ended(attributed[x]).phase = "ended"
      /\ \A y \in Activity \ {x} : attributed'[y] = attributed[y]
      /\ attributed'[x].phase = "ended"
  BY <1>1, <1>2 DEF Ended, Event
<1>5. \A u \in Task : lastExec'[u].activity = lastExec[u].activity
  <2>1. \A e \in Exec : [e EXCEPT !.outcome = outcome].activity = e.activity
    BY DEF Exec
  <2> QED
    BY <1>1, <1>2, <1>3, <2>1
<1>6. StartsAreRecorded'
  <2> SUFFICES ASSUME NEW y \in Activity, attributed'[y].phase = "started",
                      Recorded(attributed'[y].session, attributed'[y].isExec)
               PROVE  lastExec'[attributed'[y].task].activity # NoActivity
    BY DEF StartsAreRecorded, Recorded
  <2>1. y # x /\ attributed'[y] = attributed[y]
    BY <1>4
  <2>2. attributed[y].task \in Task
    BY <2>1 DEF IInv, AttributedExists
  <2> QED
    BY <1>5, <2>1, <2>2 DEF StartsAreRecorded
<1>7. RowIsLatest'
  <2>1. CASE ~recorded
    BY <1>1, <1>2, <2>1 DEF RowIsLatest
  <2>2. CASE recorded /\ lastExec[t].activity # x
    <3>1. evidence[t].exec.activity \notin {x, NoActivity}
      BY <1>2, <1>3, <2>2 DEF RowIsLatest, StartsAreRecorded
    <3>2. evidence' = evidence /\ lastExec' = lastExec
      BY <1>1, <1>2, <2>2, <3>1 DEF CompletedRow
    <3> QED
      BY <1>1, <3>2 DEF RowIsLatest
  <2>3. CASE recorded /\ lastExec[t].activity = x
    <3> DEFINE done == [activity |-> x, outcome |-> outcome]
    <3>1. evidence[t].exec.activity = x
      BY <1>3, <2>3 DEF RowIsLatest
    <3>2. \A u \in Task : evidence'[u] = IF u = t THEN [exec |-> done, at |-> now]
                                         ELSE evidence[u]
      BY <1>1, <1>2, <2>3, <3>1 DEF CompletedRow
    <3>3. \A u \in Task : lastExec'[u] = IF u = t THEN done ELSE lastExec[u]
      <4>1. \A e \in Exec : e.activity = x => [e EXCEPT !.outcome = outcome] = done
        BY DEF Exec
      <4> QED
        BY <1>1, <1>2, <1>3, <2>3, <4>1
    <3> QED
      BY <1>1, <3>2, <3>3 DEF RowIsLatest
  <2> QED
    BY <2>1, <2>2, <2>3
<1> QED
  BY <1>6, <1>7

(* The end of a host lets no exec start; the rest leaves the rows alone.   *)
LEMMA NextEvidence ==
  ASSUME IInv, EvidenceInv, [Next]_vars
  PROVE  EvidenceInv'
<1> SUFFICES ASSUME setBacks' = 0
             PROVE  RowIsLatest' /\ StartsAreRecorded'
  BY DEF EvidenceInv
<1>1. setBacks = 0 /\ now' >= now
  <2>1. setBacks \in Nat /\ now \in Nat
    BY DEF IInv, TypeOK
  <2>2. CASE SetBackClock
    BY <2>1, <2>2 DEF SetBackClock
  <2>3. CASE Tick
    BY <2>1, <2>3 DEF Tick
  <2>4. CASE UNCHANGED <<now, setBacks>>
    BY <2>1, <2>4
  <2>5. ASSUME NEW t \in Task, TaskStep(t)
        PROVE  UNCHANGED hostVars
    BY <2>5 DEF TaskStep, CreateTask, ReplayCreate, UpdateTask, Heartbeat, ClaimTask,
       AddAgentMessage, UnassignTask
  <2>6. ASSUME NEW x \in Activity, ActivityStep(x)
        PROVE  UNCHANGED hostVars
    BY <2>6 DEF ActivityStep, StartActivity, CompleteActivity
  <2> QED
    BY <2>2, <2>3, <2>4, <2>5, <2>6 DEF Next, vars, hostVars, HostStep, SessionStep,
       TouchSessionActivity, CloseSession, StopHost, StartHost
<1>2. RowIsLatest /\ StartsAreRecorded
  BY <1>1 DEF EvidenceInv
<1>3. CASE UNCHANGED execVars
  <2>1. evidence' = evidence /\ lastExec' = lastExec /\ attributed' = attributed
    BY <1>3 DEF execVars
  <2>2. now \in Nat /\ now' \in Nat /\ evidence \in [Task -> Evidence]
    BY NextHostTypes DEF IInv, TypeOK, HostTypes
  <2>3. \A t \in Task : evidence[t].at \in Nat
    BY <2>2 DEF Evidence
  <2> QED
    BY <1>1, <1>2, <2>1, <2>2, <2>3 DEF RowIsLatest, StartsAreRecorded
<1>4. CASE StopHost
  <2>1. evidence' = evidence /\ lastExec' = lastExec /\ now' = now
    BY <1>4 DEF StopHost
  <2>2. \A x \in Activity : attributed'[x].phase = "started" => attributed'[x] = attributed[x]
    <3>1. \A e \in Event : Ended(e).phase = "ended"
      BY DEF Ended, Event
    <3> QED
      BY <1>4, <3>1 DEF StopHost, IInv, TypeOK
  <2> QED
    BY <1>2, <2>1, <2>2 DEF RowIsLatest, StartsAreRecorded
<1>5. ASSUME NEW x \in Activity, ActivityStep(x)
      PROVE  RowIsLatest' /\ StartsAreRecorded'
  BY <1>2, <1>5, StartKeepsEvidence, CompletionKeepsEvidence DEF ActivityStep
<1>6. \/ UNCHANGED execVars
      \/ StopHost
      \/ \E x \in Activity : ActivityStep(x)
  BY DEF Next, vars, HostStep, TaskStep, SessionStep, execVars,
     CreateTask, ReplayCreate, UpdateTask, Heartbeat, ClaimTask, AddAgentMessage, UnassignTask,
     TouchSessionActivity, CloseSession, StartHost, Tick, SetBackClock
<1> QED
  BY <1>3, <1>4, <1>5, <1>6

(* The row is the latest exec's as long as the clock is not set back.      *)
LEMMA EvidenceInvariance == Spec => []EvidenceInv
<1>1. Init => EvidenceInv
  BY DEF Init, EvidenceInv, RowIsLatest, StartsAreRecorded, NoEvidence, NewEvent
<1> QED
  BY <1>1, NextEvidence, Invariance, PTL DEF Spec

(* Only an update of the owner marks a formal Task that is live succeeded. *)
LEMMA OnlyUpdatesSucceed ==
  ASSUME IInv, [Next]_vars, NEW t \in Task,
         formal[t], status[t] \in LiveStatus, status'[t] = "succeeded"
  PROVE  ExecutionAllowsSuccess(t)
<1>1. status \in [Task -> Status \cup {"absent"}]
  BY DEF IInv, TypeOK
<1>2. status'[t] # status[t] /\ Exists(t) /\ ~IsTerminal(t)
  BY DEF LiveStatus, Exists, IsTerminal, Terminal
<1>3. ASSUME NEW u \in Task, TaskStep(u)
      PROVE  ExecutionAllowsSuccess(t)
  <2>1. ASSUME NEW a \in Agent, NEW s \in AnySession, NEW p \in Principal, NEW st \in Status,
               CreateTask(u, a, p, s, st)
        PROVE  FALSE
    BY <1>1, <1>2, <2>1 DEF CreateTask
  <2>2. ASSUME NEW a \in Agent, NEW s \in AnySession, NEW st \in Status, UpdateTask(u, a, s, st)
        PROVE  ExecutionAllowsSuccess(t)
    BY <1>1, <1>2, <2>2 DEF UpdateTask
  <2>3. ASSUME NEW a \in Agent, NEW s \in AnySession, NEW st \in Status, Heartbeat(u, a, s, st)
        PROVE  FALSE
    BY <1>1, <1>2, <2>3 DEF Heartbeat, LiveStatus
  <2>4. ASSUME UNCHANGED status
        PROVE  FALSE
    BY <1>2, <2>4
  <2> QED
    BY <1>3, <2>1, <2>2, <2>3, <2>4
       DEF TaskStep, ReplayCreate, ClaimTask, AddAgentMessage, UnassignTask
<1>4. ASSUME NEW x \in Activity, NEW p, NEW s, NEW isExec, StartActivity(x, p, s, isExec)
      PROVE  FALSE
  BY <1>1, <1>2, <1>4 DEF StartActivity, InferTask
<1>5. ASSUME NEW x \in Activity, NEW outcome, CompleteActivity(x, outcome)
      PROVE  FALSE
  BY <1>1, <1>2, <1>5 DEF CompleteActivity
<1>6. CASE UNCHANGED status
  BY <1>2, <1>6
<1> QED
  BY <1>3, <1>4, <1>5, <1>6 DEF Next, vars, HostStep, SessionStep, ActivityStep,
     TouchSessionActivity, CloseSession, StopHost, StartHost, Tick, SetBackClock

(* Until the clock is set back, a live formal Task is marked succeeded only *)
(* if the exec last started for it, if any, has a receipt: whatever the     *)
(* order in which the execs of the Task started and ended, and however     *)
(* often the host restarted in between.                                    *)
THEOREM SuccessHasAReceipt == Spec => LatestExecSucceeded
<1>1. IInv /\ EvidenceInv /\ [Next]_vars =>
        [setBacks = 0 =>
           \A t \in Task : formal[t] /\ status[t] \in LiveStatus /\ status'[t] = "succeeded" =>
              lastExec[t].outcome \in {"none", "succeeded"}]_vars
  <2> SUFFICES ASSUME IInv, EvidenceInv, [Next]_vars, setBacks = 0, NEW t \in Task,
                      formal[t], status[t] \in LiveStatus, status'[t] = "succeeded"
               PROVE  lastExec[t].outcome \in {"none", "succeeded"}
    OBVIOUS
  <2>1. evidence[t].exec = lastExec[t]
    BY DEF EvidenceInv, RowIsLatest
  <2> QED
    BY <2>1, OnlyUpdatesSucceed DEF ExecutionAllowsSuccess
<1> QED
  BY <1>1, Invariance, EvidenceInvariance, PTL DEF Spec, LatestExecSucceeded
=============================================================================
