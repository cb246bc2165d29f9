SPECIFICATION FairCacheSpec
CONSTANTS
  None = None
  Keys = {k1}
  Tags = {a}
  Requests = {r1, r2}
  Writers = {w1}
  MaxAge <- EveryRoute
  Lifetimes = {1, 3}
  StampTtl = 1
  RenderLimit = 1
  Bodies = {body}
  MaxRequests = 2
  MaxWrites = 1
  MaxRestarts = 1
  MaxClears = 1
PROPERTIES
  StalenessEnds
