SPECIFICATION FairSpec
CONSTANTS
  pa = pa
  pb = pb
  q = q
  Payments = {pa, pb, q}
  Tx <- MCTx
  MaxOperations = 3
CHECK_DEADLOCK FALSE
INVARIANTS
  AnswersAreServed
  OneDoubtAtATime
  ChildKeepsUp
  DoubtIsLastAndKept
PROPERTIES
  EveryCallSettles
