SPECIFICATION Spec
CONSTANTS
  ann = ann
  bob = bob
  dev = dev
  ops = ops
  cook = cook
  t1 = t1
  t2 = t2
  r1 = r1
  r2 = r2
  Employees = {ann, bob}
  Departments = {dev, ops}
  Positions = {cook}
  Tenants = {t1, t2}
  TenantOf <- Tenant
  Requests = {r1, r2}
  Payloads <- Orders
  None = None
SYMMETRY Symmetry
INVARIANTS
  TypeOK
  References
PROPERTIES
  ActiveAsAsked
  StoreSpec
