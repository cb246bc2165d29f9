SPECIFICATION SceneSpec
CONSTANTS
  u1 = u1
  u2 = u2
  u3 = u3
  None = None
  Uploads = {u1, u2, u3}
  MaxActive = 1
  MaxWaiting = 1
  MaxRestarts = 1
  Renditions = {"avif", "webp"}
  Deleters = {d1}
  Files <- AnyFile
  OrphanBatch = 2
  Stuck <- StuckObject
  Inserting = {"ok", "failed"}
  Recording = {"ok", "failed"}
  Deleting = {"none"}
  Ids = {"p", "q"}
  Characters = {"a", "b"}
  Marks = {"plain", "bold"}
  Plain = "plain"
  MaxLength = 3
  MaxRuns = 2
  MaxBlocks = 2
CHECK_DEADLOCK FALSE
INVARIANTS
  GateHolds
  AssetsHold
  ListingsHold
  EditsHold
PROPERTIES
  ObjectsStayListed
  DescriptionsHold
  PreferencesHold
