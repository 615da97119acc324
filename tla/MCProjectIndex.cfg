CONSTANTS
  i1 = i1
  i2 = i2
  s1 = s1
  s2 = s2
  t1 = t1
  k1 = k1
  w1 = w1
  NoJob = NoJob
  Indexers = {i1}
  Searchers = {s1, s2}
  Refreshers = {s1}
  Cancellable = {s1}
  Statuses = {}
  Compactors = {k1}
  Workflows = {}
  MaxEdits = 2

SPECIFICATION Spec

INVARIANTS
  TypeOK
  OneWriter
  StatsTrackPass
  FirstPassVisible
  OneEnsurePass
  RefreshIsFresh

PROPERTY TakesTurns

CHECK_DEADLOCK FALSE
