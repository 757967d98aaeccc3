SPECIFICATION Spec
CONSTANTS
  v1 = v1
  v2 = v2
  p1 = p1
  p2 = p2
  r1 = r1
  Providers = {v1, v2}
  Publishers = {v1}
  Own = {p1, p2}
  Foreign = {r1}
  MaxAttempts = 2
INVARIANTS
  RefusedIsUnbound
  PostedIsRetained
  HandedIsBound
