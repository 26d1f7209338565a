CONSTANTS
  Day = 4
  SpringAt = 1
  FallAt = 3
  Shift = 2
  Schedules = {"report", "remind"}
  OfTask = {"report"}
  Rules <- TickRules
  Plans <- TickPlans
  MaxOccurrences = 2
  GrantEnd = 4
  Lifetime = 4
  Late = 0
  MaxPending = 2
  MaxRunsPerHour = 1
  MaxRunsPerGrant = 2
  Hour = 1
  Horizon = 4
  MaxRevision = 2
  MaxCrashes = 1
SPECIFICATION FairSpec
INVARIANTS InOrder OneAtATime
PROPERTIES EveryEnds
CHECK_DEADLOCK FALSE
