SPECIFICATION FairSpec
CONSTANTS
  Procs = {p1, p2}
  Grants = {g1, g2}
  Requests = {r1, r2}
  GrantOf <- MCGrantEach
  Price <- MCPrice
  TotalUnits <- MCTotalEach
  ExpiresAt <- MCExpiresEach
  Duration = 1
  Times = {0, 1}
  Capacity = 1
  MaxRevision = 5
  p1 = p1
  p2 = p2
  g1 = g1
  g2 = g2
  r1 = r1
  r2 = r2
INVARIANTS
  CrossLinked
PROPERTIES
  RunSettles
  OwnerIsReleased
