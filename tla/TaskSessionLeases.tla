------------------------- MODULE TaskSessionLeases -------------------------
(***************************************************************************)
(* The persistent session leases of one Task: the rows of                  *)
(* task_agent_session_leases_v1 that share a task_id, and what the methods *)
(* of TaskSessionLeaseStore do to them.  A lease table is a function from  *)
(* session keys to rows (or to NoLease where the table holds no row), so   *)
(* that the primary key (task_id, session_id) is the key itself.           *)
(*                                                                         *)
(* The operators are pure: the registry that owns the table (TaskRegistry) *)
(* applies them inside its transactions.  A method that throws rolls the   *)
(* whole transaction back, so each method is a guard (CanTouch ...) and a  *)
(* result (Touched ...).                                                   *)
(***************************************************************************)
EXTENDS Integers, FiniteSets

CONSTANTS
  Agent,             \* Agent identifiers
  Principal,         \* authenticated principals
  Session,           \* transport session ids injected by the Gateway
  NoSession,         \* the call carries no transport session (null)
  NoLease,           \* the table holds no row for this key
  OnlineAfter,       \* TASK_SESSION_ONLINE_AFTER_MS
  LeaseTtl,          \* TASK_SESSION_LEASE_TTL_MS
  MaxLeasesPerTask   \* MAX_LEASES_PER_TASK

ASSUME LeaseTimesAssumption ==
  /\ OnlineAfter \in Nat
  /\ LeaseTtl \in Nat
  /\ OnlineAfter < LeaseTtl

ASSUME LeaseCapAssumption == MaxLeasesPerTask \in Nat \ {0}

(***************************************************************************)
(* A call without a transport session is bound to an internal key derived  *)
(* from the owner (leaseSessionId); once such a lease is closed its next   *)
(* use opens a new generation, numbered by the rows the Task already has.  *)
(***************************************************************************)
LegacyKey == [agent : Agent, principal : Principal, gen : 0 .. MaxLeasesPerTask + 1]
Key == Session \cup LegacyKey

NotClosed == -1

Lease == [agent     : Agent,
          principal : Principal,
          lastSeen  : Nat,
          expires   : Nat,
          closedAt  : Nat \cup {NotClosed}]

ASSUME LeaseNamesAssumption ==
  /\ NoLease \notin Lease
  /\ NoSession \notin Session
  /\ Session \cap LegacyKey = {}

LeaseTable == [Key -> Lease \cup {NoLease}]

EmptyTable == [k \in Key |-> NoLease]

-----------------------------------------------------------------------------
Bound(ls, k) == ls[k] # NoLease
IsOpen(row) == row # NoLease /\ row.closedAt = NotClosed
IsClosed(row) == row # NoLease /\ row.closedAt # NotClosed
HeldBy(row, a, p) == row # NoLease /\ row.agent = a /\ row.principal = p

Expiry(at) == at + LeaseTtl
Later(m, n) == IF m < n THEN n ELSE m
Earlier(m, n) == IF m < n THEN m ELSE n

FreshLease(a, p, at) ==
  [agent |-> a, principal |-> p, lastSeen |-> at, expires |-> Expiry(at), closedAt |-> NotClosed]

Renewal(row, at) == [row EXCEPT !.lastSeen = at, !.expires = Expiry(at)]

(* Mutant: a closure is stamped with an observation older than the last.   *)
ClosureBeforeSeen(row, at) == [row EXCEPT !.closedAt = at, !.expires = Earlier(row.expires, at)]

(* The UPDATE that closeSession and closeTaskOwner share.                  *)
Closure(row, at) ==
  [row EXCEPT !.closedAt = Later(row.lastSeen, at),
              !.expires  = Earlier(row.expires, Later(row.lastSeen, at))]

LeaseCount(ls) == Cardinality({k \in Key : Bound(ls, k)})

-----------------------------------------------------------------------------
(* The generations of the internal key of owner (a, p) that have a row.    *)
Generations(ls, a, p) == {k \in LegacyKey : k.agent = a /\ k.principal = p /\ Bound(ls, k)}

(* Mutant: a call without a session opens a new generation every time.     *)
TouchNewGeneration(ls, s, a, p) ==
  IF s # NoSession THEN s
  ELSE [agent |-> a, principal |-> p,
        gen |-> IF Generations(ls, a, p) = {} THEN 0 ELSE LeaseCount(ls) + 1]

(* Which row a touch addresses: the session's own, or for a call without a *)
(* session the open generation, else a generation that has no row yet.     *)
TouchKey(ls, s, a, p) ==
  IF s # NoSession THEN s
  ELSE LET open == {k \in Generations(ls, a, p) : IsOpen(ls[k])}
       IN  IF open # {} THEN CHOOSE k \in open : TRUE
           ELSE [agent |-> a, principal |-> p,
                 gen |-> IF Generations(ls, a, p) = {} THEN 0 ELSE LeaseCount(ls) + 1]

(* touchTask: the explicit operations of the owner bind and renew a lease. *)
(* An expired lease that was never closed is renewed like any open one.    *)
CanTouch(ls, s, a, p) ==
  LET k == TouchKey(ls, s, a, p)
  IN  IF Bound(ls, k) THEN HeldBy(ls[k], a, p) /\ IsOpen(ls[k])
                      ELSE LeaseCount(ls) < MaxLeasesPerTask

(* Mutant: an old observation renews as well.                              *)
TouchedByAnyObservation(ls, s, a, p, at) ==
  LET k == TouchKey(ls, s, a, p)
  IN  [ls EXCEPT ![k] = IF Bound(ls, k) THEN Renewal(ls[k], at) ELSE FreshLease(a, p, at)]

Touched(ls, s, a, p, at) ==
  LET k == TouchKey(ls, s, a, p)
  IN  IF ~Bound(ls, k) THEN [ls EXCEPT ![k] = FreshLease(a, p, at)]
      ELSE IF at > ls[k].lastSeen THEN [ls EXCEPT ![k] = Renewal(ls[k], at)]
      ELSE ls

(* A lease that counts at time at: neither closed nor expired.             *)
IsLive(row, at) == IsOpen(row) /\ row.expires > at

(* Mutant: the expiry of the lease is not looked at.                       *)
RenewableThoughExpired(row, a, p, at) == HeldBy(row, a, p) /\ IsOpen(row) /\ row.lastSeen < at

(* renewTask and touchSession renew a live lease of the current owner      *)
(* (a, p) that was last seen before.                                       *)
Renewable(row, a, p, at) == HeldBy(row, a, p) /\ IsLive(row, at) /\ row.lastSeen < at

Renewed(ls, s, a, p, at) ==
  IF s \in Session /\ Renewable(ls[s], a, p, at)
  THEN [ls EXCEPT ![s] = Renewal(ls[s], at)]
  ELSE ls

(* touchTaskWithoutReopen, with the liveness check its caller adds: a      *)
(* session never seen is bound, a seen one must be the owner's and live.   *)
CanObserve(ls, s, a, p, at) ==
  IF Bound(ls, s) THEN HeldBy(ls[s], a, p) /\ IsLive(ls[s], at)
                  ELSE LeaseCount(ls) < MaxLeasesPerTask

Observed(ls, s, a, p, at) ==
  IF Bound(ls, s) THEN Renewed(ls, s, a, p, at) ELSE Touched(ls, s, a, p, at)

(* hasLiveCurrentSession, for the current owner a of a Task of p.          *)
HasLiveSession(ls, s, a, p, at) == s \in Session /\ HeldBy(ls[s], a, p) /\ IsLive(ls[s], at)

(* closeSession closes what the session holds, closeTaskOwner what the     *)
(* owner holds.                                                            *)
SessionClosed(ls, s, p, at) ==
  [k \in Key |-> IF k = s /\ IsOpen(ls[k]) /\ ls[k].principal = p
                 THEN Closure(ls[k], at) ELSE ls[k]]

OwnerClosed(ls, a, p, at) ==
  [k \in Key |-> IF IsOpen(ls[k]) /\ HeldBy(ls[k], a, p)
                 THEN Closure(ls[k], at) ELSE ls[k]]

-----------------------------------------------------------------------------
(* The row that stands for the owner's presence: taskSessionLeaseProjection *)
(* orders the owner's rows open first, then the latest seen, and takes one.*)
OwnerKeys(ls, a, p) == {k \in Key : HeldBy(ls[k], a, p)}

(* Mutant: the latest row stands for the owner, open or closed.            *)
PrecedesByTimeOnly(row, other) == row.lastSeen >= other.lastSeen

Precedes(row, other) ==
  \/ IsOpen(row) /\ ~IsOpen(other)
  \/ (IsOpen(row) <=> IsOpen(other)) /\ row.lastSeen >= other.lastSeen

ProjectedKey(ls, a, p) ==
  CHOOSE k \in OwnerKeys(ls, a, p) : \A other \in OwnerKeys(ls, a, p) : Precedes(ls[k], ls[other])

RowPresence(row, at) ==
  IF ~IsLive(row, at) THEN "offline"
  ELSE IF at - row.lastSeen <= OnlineAfter THEN "online" ELSE "stale"

(* taskSessionPresence of the Task whose owner is (a, p).                  *)
Presence(ls, a, p, at) ==
  IF OwnerKeys(ls, a, p) = {} THEN "unknown"
  ELSE RowPresence(ls[ProjectedKey(ls, a, p)], at)
=============================================================================
