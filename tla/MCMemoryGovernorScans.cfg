CONSTANTS
  f1 = f1
  f2 = f2
  s1 = s1
  s2 = s2
  s3 = s3
  Files <- MCFiles
  Scans <- MCScans
  Abandonable <- MCScans
  IndexMaximum = 2
  ScanMaximum = 2
  MinInflight = 1

SPECIFICATION Spec

INVARIANT ScansBounded
