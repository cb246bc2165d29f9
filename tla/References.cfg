SPECIFICATION ReferencesSpec
CONSTANTS
  g1 = g1
  g2 = g2
  g3 = g3
  g4 = g4
  None = None
  Absent = Absent
  Keep = Keep
  Nobody = Nobody
  Docs = {1, 2, 3}
  Groups = {g1, g2, g3}
  Types = {"page"}
  HierarchicalTypes = {"page"}
  Locales = {"en"}
  Slugs = {"a", "b"}
  Media = {m1}
  UserIds = {"editor"}
  RoleOf <- RolesOfUsers
  Connections = {t1, t2}
  MAX_HIERARCHY_DEPTH = 2
  REVISION_LIMIT = 2
  Seeds <- ReferenceSeeds
  Creations <- ReferenceCreations
  Patches <- ReferencePatches
  Ops = {"create", "update", "restore", "delete", "deleteMedia"}
  MaxTransactions = 3
  MaxTime = 0
INVARIANTS
  ReferencesHold
PROPERTIES
  TransactionsEnd
