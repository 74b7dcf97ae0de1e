SPECIFICATION FairSpec
CONSTANTS
  r1 = r1
  r2 = r2
  alice = alice
  bob = bob
  acme = acme
  globex = globex
  Requests = {r1, r2}
  Tokens = {alice, bob}
  Tenants = {acme, globex}
  TenantOf <- Owner
  Life = 1
  CacheTTL = 2
  NoToken = NoToken
  NoTenant = NoTenant
INVARIANTS
  TypeOK
  OwnTenantOnly
PROPERTIES
  ExpiredFades
  EventuallyShutOut
  EveryRequestAnswered
