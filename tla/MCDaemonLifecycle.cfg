CONSTANTS
  c1 = c1
  c2 = c2
  k1 = k1
  r1 = r1
  NoDaemon = NoDaemon
  Callers = {c1}
  Stoppers = {}
  Restarters = {r1}
  Supervision = {TRUE, FALSE}
  MaxDaemons = 2
  MaxEdits = 1

SPECIFICATION Spec

INVARIANTS
  TypeOK
  ServedFresh
  OneSupervisedDaemon

PROPERTIES
  SuccessorKeepsPid
  CallsEnd

CHECK_DEADLOCK FALSE
