\* Of an interactive event four deliveries or attempts, three kills.
SPECIFICATION StoredSpec
CONSTANTS
  Answers = {"a", "b"}
  MaxTries = 4
  MaxKills = 3
  Authors = {"a1", "a2"}
  RefNames = {"main", "side"}
  CommitQuota = 4
  SizeOf <- GraphSizeOf
  MaxDrafts = 2
  Contents = {"x", "y"}
  Rooms = {1, 2}
  Jobs = {"j1", "j2"}
  Readers = {"v1"}
  OfTask = {"v1"}
  MaxVersions = 2
  WatchedRuns = {"w1", "w2"}
  MaxJournal = 2
  PageSize = 1
  MaxFaults = 1
  Makers = {"r1", "r2"}
  FileNames = {"a"}
  FileContents = {"x"}
  MaxConcurrent = 1
  StorageQuota = 2
  MaxMade = 1
  MaxDeaths = 1
INVARIANTS HandledOnce SaidIsRecorded VerdictTrue GraphAnswers
INVARIANTS UploadsStable ShownIsBound WatchedWhole FilesKept
PROPERTIES AnswerNotRepeated
CHECK_DEADLOCK FALSE
