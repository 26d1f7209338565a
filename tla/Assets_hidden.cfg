SPECIFICATION AssetSpec
CONSTANTS
  Contents = {"x", "y"}
  Rooms = {1, 2}
  Jobs = {"j1"}
  Readers = {"r1"}
  OfTask = {"r1"}
  MaxVersions = 2
INVARIANT BoundReadsOn
CHECK_DEADLOCK FALSE
