SPECIFICATION ScenarioSpec
CONSTANTS
  None = None
  Absent = Absent
  Deleted = Deleted
  g1 = g1
  g2 = g2
  m1 = m1
  Docs = {1, 2, 3, 4}
  Media = {m1}
  Types = {"page", "post"}
  Locales = {"en", "fr"}
  Groups = {g1, g2}
  HierarchicalTypes = {"page"}
  MAX_ANCESTRY_DEPTH = 2
  PER_PAGE = 1
  Seeds <- SiteSeeds
  Creations <- PostCreations
  Edits <- SiteEdits
  Keys <- SiteKeys
  Tags <- EveryTag
  Requests = {r1}
  Writers = {w1}
  MaxAge <- Cacheable
  Lifetimes = {0}
  StampTtl = 0
  RenderLimit = 0
  Bodies <- PageBodies
  MaxRequests = 2
  MaxWrites = 2
  MaxRestarts = 0
  MaxClears = 0
INVARIANTS
  PagesAreCurrent
  LinksResolve
