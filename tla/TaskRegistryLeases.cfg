\* One Task, two Agents, two sessions, no tool activity: the leases.
SPECIFICATION Spec
CONSTANTS
  a1 = a1
  p1 = p1
  p2 = p2
  s1 = s1
  s2 = s2
  t1 = t1
  t2 = t2
  x1 = x1
  x2 = x2
  NoSession = NoSession
  NoLease = NoLease
  NoAgent = NoAgent
  NoTask = NoTask
  NoActivity = NoActivity
  Agent <- TwoAgents
  Principal <- OnePrincipal
  Session <- TwoSessions
  Task <- OneTask
  Activity <- NoActivities
  OnlineAfter = 0
  LeaseTtl = 2
  MaxLeasesPerTask = 3
  MaxNow = 2
  MaxSetBacks = 1
SYMMETRY Symmetric
INVARIANTS
  OpenLeaseIsOwners
  LeaseRowsValid
  OneOpenGeneration
PROPERTIES
  LeasesOnlyAdvance
  OnlineOwnerIsKept
  TrafficNeverRevives
