SPECIFICATION FairSpec
CONSTANTS
  gateway = gateway
  auth = auth
  employee = employee
  Services <- Enabled
  Critical <- CriticalServices
  Serving <- ServeHttp
  TenantBound <- WantTenant
  HealthChecks <- ExecutorChecks
  MayFail <- NoFaults
  Checks = {}
  MaxHistory = 1
  MaxSaved = 1
  NoService = NoService
PROPERTY WellIsCalledHealthy
