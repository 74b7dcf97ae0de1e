SPECIFICATION RegFairSpec
CONSTANTS
  p1 = p1
  p2 = p2
  r1 = r1
  r2 = r2
  ann = ann
  admin = admin
  employee = employee
  ghost = ghost
  Replicas = {p1, p2}
  Requests = {r1, r2}
  Accounts = {ann}
  DefaultRoles <- Defaults
  Employee = employee
  Asks <- AskedFor
  NoReplica = NoReplica
  NoAccount = NoAccount
INVARIANTS
  RegTypeOK
  AccountsSound
  ToldTheTruth
PROPERTIES
  EnrolSpec
  EveryRegistrationEnds
