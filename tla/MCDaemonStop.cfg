CONSTANTS
  c1 = c1
  c2 = c2
  k1 = k1
  r1 = r1
  NoDaemon = NoDaemon
  Callers = {c1}
  Stoppers = {}
  Restarters = {}
  Supervision = {TRUE, FALSE}
  MaxDaemons = 2
  MaxEdits = 1

SPECIFICATION Spec

PROPERTY StopIsGraceful

CHECK_DEADLOCK FALSE
