CONSTANTS
  Day = 5
  SpringAt = 0
  FallAt = 6
  Shift = 2
  Schedules = {"report"}
  OfTask = {}
  Rules <- DailyRules
  Plans <- DailyPlans
  MaxOccurrences = 2
  GrantEnd = 12
  Lifetime = 12
  Late = 1
  MaxPending = 1
  MaxRunsPerHour = 2
  MaxRunsPerGrant = 2
  Hour = 0
  Horizon = 8
  MaxRevision = 1
  MaxCrashes = 0
SPECIFICATION Spec
INVARIANT OncePerDay
CHECK_DEADLOCK FALSE
