SPECIFICATION Spec
CONSTANTS
  s1 = s1
  s2 = s2
  p1 = p1
  p2 = p2
  payer = payer
  Servers = {s1, s2}
  Maintainers = {s1, s2}
  Payments = {p1}
  PayerOf <- OnePayer
  MinConfs = 2
  MaxConfs = 3
  MaxRecords = 1
SYMMETRY Symmetry
INVARIANTS
  NoPublicationCrossesTombstone
  AnswersHonest
PROPERTIES
  RejectedBeforePublication
  EvidenceOnlyGrows
  PaidOnceKept
