SPECIFICATION FairSpec
CONSTANTS
  c1 = c1
  gateway = gateway
  auth = auth
  employee = employee
  Services = {auth, employee}
  Critical = {auth}
  Serving = {auth, employee}
  TenantBound = {}
  HealthChecks <- TwoChecks
  MayFail <- SomeFaults
  Checks = {c1}
  MaxHistory = 2
  MaxSaved = 3
  NoService = NoService
INVARIANTS
  TypeOK
  KeepsTheLatest
  VerdictHonest
PROPERTIES
  TellingStays
  EventuallyTold
