CONSTANTS
  Grants = {g}
  Tasks = {t}
  None = None
  Keys = {k1, k2}
  Kinds = {"agent", "reminder"}
  Natives = {FALSE}
  External = {}
  Local = {}
  FinishTool = "none"
  MaxIntents = 2
  MaxCrashes = 1
  MaxAttempts = 2
  MaxModelCalls = 2
  MaxToolCalls = 0
  MaxPending = 2
  MaxRunsPerHour = 2
  MaxRunsPerGrant = 2
  MaxConcurrent = 1
  GrantLife = 2
  Hour = 0
  Retention = 0
  BaseDelay = 1
  MaxDelay = 1
SPECIFICATION MixedSpec
PROPERTIES EverySettles
