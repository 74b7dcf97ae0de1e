SPECIFICATION FairSpec
CONSTANTS
  c1 = c1
  c2 = c2
  employees = employees
  acme = acme
  globex = globex
  x = x
  y = y
  blank = blank
  Calls = {c1, c2}
  Rows <- ThreeRows
  Pieces = {employees, acme, globex, x, y, blank}
  Blank = blank
  Absent = {1}
  MaxVersion = 1
  Nothing = Nothing
INVARIANTS
  TypeOK
  OwnAnswers
  FailuresCostOneLoad
  InvalidatedStaysGone
PROPERTY EveryCallEnds
