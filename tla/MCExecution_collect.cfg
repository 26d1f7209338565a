CONSTANTS
  Grants = {g1, g2}
  Tasks = {}
  None = None
  Keys = {k1}
  Kinds = {"agent"}
  Natives = {FALSE}
  External = {}
  Local = {"finish"}
  FinishTool = "finish"
  MaxIntents = 3
  MaxCrashes = 1
  MaxAttempts = 2
  MaxModelCalls = 1
  MaxToolCalls = 1
  MaxPending = 2
  MaxRunsPerHour = 2
  MaxRunsPerGrant = 2
  MaxConcurrent = 2
  GrantLife = 3
  Hour = 1
  Retention = 1
  BaseDelay = 1
  MaxDelay = 1
SPECIFICATION Spec
INVARIANTS RetryOnlyDelivers GrantBudgetKept
PROPERTIES VerdictFinal
