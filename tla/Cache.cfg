SPECIFICATION CacheSpec
CONSTANTS
  None = None
  Keys = {k1, k2}
  Tags = {a, b}
  Requests = {r1, r2}
  Writers = {w1}
  MaxAge <- EveryRoute
  Lifetimes = {1, 2}
  StampTtl = 1
  RenderLimit = 1
  Bodies = {body}
  MaxRequests = 2
  MaxWrites = 1
  MaxRestarts = 1
  MaxClears = 0
SYMMETRY CacheSymmetry
INVARIANTS
  CacheTypeOK
  Findable
  StaleOnlyIfDue
