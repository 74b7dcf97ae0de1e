SPECIFICATION Spec
CONSTANTS
  u1 = u1
  u2 = u2
  r1 = r1
  r2 = r2
  Users = {u1, u2}
  Requests = {r1, r2}
  AccessTTL = 1
  RefreshTTL = 2
  MaxTime = 2
  MaxAnswers = 2
  NoToken = NoToken
  NoUser = NoUser
CONSTRAINT Bounded
SYMMETRY Symmetry
INVARIANTS
  TypeOK
  TablesAgree
  AloneIsWhole
PROPERTIES
  LogoutKillsHeld
  LedgerSpec
