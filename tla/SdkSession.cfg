SPECIFICATION FairSpec
CONSTANTS
  s1 = s1
  s2 = s2
  p1 = p1
  p2 = p2
  payer = payer
  Servers = {s1, s2}
  Maintainers = {s2}
  Payments = {p1}
  PayerOf <- OnePayer
  MinConfs = 1
  MaxConfs = 1
  MaxRecords = 2
PROPERTIES
  CallsAnswered
