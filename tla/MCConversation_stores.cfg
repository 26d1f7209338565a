SPECIFICATION Spec
CONSTANTS
  k1 = k1
  k2 = k2
  Stores = {"sqlite", "memory"}
  Sessions = {s1, s2}
  Branches = {b1}
  Places = {p1}
  Sources = {x1}
  Keys <- TwoKeys
  Asked = {"active", "completed", "failed", "archived"}
  None = None
  MaxMain = 3
  MaxBranch = 4
  MaxResults = 2
INVARIANTS PublicationsSound
PROPERTY KeepsContract
CHECK_DEADLOCK FALSE
