SPECIFICATION AgentSpec
CONSTANTS
  TokenLimit = 2
  MaxTurns = 2
  MaxCalls = 2
  Totals = {0, 1, 2, 3}
  Refusals = {"schema", "policy"}
  MaxLosses = 1
  ProviderCalls = {"a", "b"}
  Tools = {"read"}
  Indexes = {0, 1}
  MaxFragments = 4
  Counts = {0, 1, 2}
  MaxReports = 2
CHECK_DEADLOCK FALSE
INVARIANTS
  WithinBudget
  TranscriptTellsEffects
  EveryCallAnswered
  EffectsOnRecord
  DeliveredIsMeant
PROPERTIES
  LostAuditStops
