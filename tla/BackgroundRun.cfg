\* One occurrence: two calls of the provider, two of tools, batches of two; two deaths, two failures.
SPECIFICATION Spec
CONSTANTS
  ModelLimit = 2
  ToolLimit = 2
  BatchSize = 2
  MaxCrashes = 2
  MaxFails = 2
INVARIANTS NothingRedone EffectUnderClaim BudgetKept CrashIsNotFailure SettledIsOver
CHECK_DEADLOCK FALSE
