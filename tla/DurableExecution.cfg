SPECIFICATION Spec
CONSTANTS
  Procs = {p1, p2}
  Grants = {g1}
  Requests = {r1, r2}
  GrantOf <- MCGrantOf
  Price <- MCPrice
  TotalUnits <- MCTotalUnits
  ExpiresAt <- MCExpiresAt
  Duration = 1
  Times = {0, 1, 2}
  Capacity = 2
  MaxRevision = 8
  p1 = p1
  p2 = p2
  g1 = g1
  g2 = g2
  r1 = r1
  r2 = r2
SYMMETRY Symmetry
INVARIANTS
  CalledAsRecorded
  OneCurrentOwner
PROPERTIES
  SealFreezesLedger
  PromiseKept
