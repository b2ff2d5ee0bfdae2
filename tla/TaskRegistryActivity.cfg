\* Two tool activities, a formal Task and an inferred one.
SPECIFICATION Spec
CONSTANTS
  a1 = a1
  p1 = p1
  p2 = p2
  s1 = s1
  s2 = s2
  t1 = t1
  t2 = t2
  x1 = x1
  x2 = x2
  NoSession = NoSession
  NoLease = NoLease
  NoAgent = NoAgent
  NoTask = NoTask
  NoActivity = NoActivity
  Agent <- OneAgent
  Principal <- OnePrincipal
  Session <- OneSession
  Task <- TwoTasks
  Activity <- TwoActivities
  OnlineAfter = 0
  LeaseTtl = 1
  MaxLeasesPerTask = 1
  MaxNow = 0
  MaxSetBacks = 0
SYMMETRY Symmetric
INVARIANTS
  AttributionIsBound
PROPERTIES LatestExecSucceeded
