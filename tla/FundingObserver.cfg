\* A quarantined record is the end: every producer returns at once.
CHECK_DEADLOCK FALSE
SPECIFICATION Spec
CONSTANTS
  p1 = p1
  p2 = p2
  s1 = s1
  s2 = s2
  e1 = e1
  e2 = e2
  Producers = {p1, p2}
  Signers = {s1, s2}
  Envelopes = {e1, e2}
  Histories <- MCHistories
  Height = 4
  MaximumPageEntries = 2
  MinimumConfirmations = 2
INVARIANT EvidenceHolds
PROPERTY RevokedForGood
SYMMETRY Interchangeable
