SPECIFICATION ScenarioSpec
CONSTANTS
  g1 = g1
  g2 = g2
  g3 = g3
  g4 = g4
  None = None
  Absent = Absent
  Keep = Keep
  Nobody = Nobody
  Docs = {1, 2, 3, 4}
  Groups = {g1, g2, g3, g4}
  Types = {"page", "post"}
  HierarchicalTypes = {"page"}
  Locales = {"en", "fr", "de"}
  Slugs = {"a", "b", "c", "d", "z"}
  Media = {}
  UserIds = {"editor", "contributor"}
  RoleOf <- RolesOfUsers
  Connections = {t1, t2}
  MAX_HIERARCHY_DEPTH = 3
  REVISION_LIMIT = 2
  Seeds <- ScenarioSeeds
  Creations <- ScenarioCreations
  Patches <- ScenarioPatches
  Ops = {"create", "update", "delete", "restore", "publishDue"}
  MaxTransactions = 4
  MaxTime = 1
SYMMETRY ConnectionSymmetry
INVARIANTS
  TypeOK
  StoreHolds
PROPERTIES
  AtomicDocuments
  JoinSeesItsGroup
  NoLostUpdate
  PublishAuthorized
  VisibilityIsAnnounced
  HistoriesHold
  PublishesOnlyTheDue
