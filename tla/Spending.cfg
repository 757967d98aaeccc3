SPECIFICATION Spec
CONSTANTS
  s1 = s1
  s2 = s2
  p1 = p1
  p2 = p2
  o1 = o1
  o2 = o2
  o3 = o3
  Sessions = {s1, s2}
  SingleLane = {s1}
  Payments = {p1, p2}
  Originals = {o1, o2, o3}
  Amount <- MCAmount
  Days = {0, 1}
  MaxPayment = 3
  MaxTotal = 4
  MaxDaily = 3
  MaxRecords = 2
  MaxEpoch = 2
SYMMETRY Symmetry
INVARIANTS
  WithinBudget
  SignedOnce
  AdmittedIsReadable
PROPERTIES
  HistoryKept
  LaneAdmitsAlone
