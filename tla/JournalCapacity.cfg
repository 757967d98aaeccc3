SPECIFICATION Spec
CONSTANTS
  s1 = s1
  s2 = s2
  p1 = p1
  p2 = p2
  payer = payer
  Servers = {s1}
  Maintainers = {s1}
  Payments = {p1, p2}
  PayerOf <- OnePayer
  MinConfs = 1
  MaxConfs = 2
  MaxRecords = 1
SYMMETRY Symmetry
INVARIANTS
  PublishedIsRecorded
