CONSTANTS
  c1 = c1
  c2 = c2
  c3 = c3
  c4 = c4
  c5 = c5
  Callers <- MCCallers
  Maximum = 3
  RequestedFloor = 1

SPECIFICATION Spec
SYMMETRY Symmetry

INVARIANTS
  TypeOK
  PermitsConserved
  DepthConserved
  NoLostWakeup

PROPERTY ExcessDrains
