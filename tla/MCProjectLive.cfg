CONSTANTS
  i1 = i1
  i2 = i2
  s1 = s1
  s2 = s2
  t1 = t1
  k1 = k1
  w1 = w1
  NoJob = NoJob
  Indexers = {i1}
  Searchers = {s1}
  Refreshers = {s1}
  Cancellable = {s1}
  Statuses = {t1}
  Compactors = {}
  Workflows = {w1}
  MaxEdits = 1

SPECIFICATION Spec

INVARIANT NobodyStranded

PROPERTY EveryoneAnswered

CHECK_DEADLOCK FALSE
