CONSTANTS
  c1 = c1
  c2 = c2
  k1 = k1
  r1 = r1
  NoDaemon = NoDaemon
  Callers = {}
  Stoppers = {}
  Restarters = {r1}
  Supervision = {TRUE}
  MaxDaemons = 2
  MaxEdits = 1

SPECIFICATION Spec

INVARIANT OneServer

CHECK_DEADLOCK FALSE
