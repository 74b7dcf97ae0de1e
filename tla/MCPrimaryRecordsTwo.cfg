SPECIFICATION Spec
CONSTANTS
  r1 = r1
  r2 = r2
  ann = ann
  ben = ben
  acme = acme
  globex = globex
  b1 = b1
  b2 = b2
  c1 = c1
  c2 = c2
  Requests = {r1, r2}
  Employees = {ann, ben}
  Tenants = {acme, globex}
  TenantOf <- Employer
  Ids = {b1, b2, c1, c2}
  KindOf <- Kind
  NoOne = NoOne
  NoId = NoId
  MaxRows = 2
CONSTRAINT Bounded
SYMMETRY Symmetry
INVARIANT AtMostOnePrimary
