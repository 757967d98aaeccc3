SPECIFICATION Spec
CONSTANTS
  OfferKeys <- MCOfferKeys
  Scopes <- MCScopes
  Activations <- MCClashing
  RequestIds = {1, 2}
  Bodies = {body}
  Results <- MCResults
  Times <- MCTimes
  Costs = {1, 2}
  MaxRequests = 2
  None = None
  o1 = o1
  scopeX = scopeX
  scopeY = scopeY
  s1 = s1
  s2 = s2
  tx1 = tx1
  tx2 = tx2
  c1 = c1
  c2 = c2
  res1 = res1
  res2 = res2
SYMMETRY ResultSymmetry
CHECK_DEADLOCK FALSE
INVARIANTS
  TypeOK
  Rehydratable
  NeverOverspent
  SerialExecution
  AuthorizedAtMostOnce
  IdentitiesBindOnce
PROPERTIES
  RetiredGrantsOnlyDrain
  AdmittedBeforeExpiry
