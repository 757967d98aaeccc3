SPECIFICATION Spec
CONSTANTS
  s1 = s1
  s2 = s2
  p1 = p1
  p2 = p2
  payer = payer
  Servers = {s1}
  Maintainers = {}
  Payments = {p1}
  PayerOf <- OnePayer
  MinConfs = 2
  MaxConfs = 2
  MaxRecords = 1
PROPERTIES
  PendingGetsRecoveryResponse
