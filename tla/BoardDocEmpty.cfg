SPECIFICATION Spec
CONSTANTS
  c1 = c1
  c2 = c2
  t1 = t1
  t2 = t2
  i1 = i1
  a = a
  b = b
  NoRow = NoRow
  Nobody = Nobody
  Caller = {c1, c2}
  Tenant = {t1, t2}
  Item = {i1}
  Label = {a, b}
  MaxWrites = 3
  MaxFailures = 0
  MaxCrashes = 0
PROPERTY EmptyEntitlementsSeeUntagged
