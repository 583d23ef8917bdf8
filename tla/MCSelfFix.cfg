SPECIFICATION Spec
CONSTANTS
  t1 = t1
  t2 = t2
  app = app
  lib = lib
  e1 = e1
  e2 = e2
  e3 = e3
  e4 = e4
  d1 = d1
  d2 = d2
  d3 = d3
  NoTask = NoTask
  Tasks <- MCTasks
  Repos <- MCRepos
  Iids = {7, 8}
  MrOf <- MCMrOf
  Forks <- MCForks
  Events <- MCEvents
  About <- MCAbout
  Kind <- MCKind
  Deliveries <- MCDeliveries
  MaxFixes = 1
  MaxFlushes = 1
  MaxExpiries = 1
  MaxReruns = 1
SYMMETRY MCSym
CONSTRAINT RedisKept
CHECK_DEADLOCK FALSE
INVARIANT FixesWithinLimit
INVARIANT EventCountsOnce
INVARIANT RepairsWithinLimit
