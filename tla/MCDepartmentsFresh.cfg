SPECIFICATION FairSpec
CONSTANTS
  r1 = r1
  r2 = r2
  acme = acme
  globex = globex
  hr = hr
  ops = ops
  Depts = {hr, ops}
  Tenants = {acme}
  Requests = {r1, r2}
  CacheTTL = 1
  MaxVersion = 1
  NoDept = NoDept
  NoTenant = NoTenant
PROPERTIES
  StoreSpec
  EventuallyCurrent
