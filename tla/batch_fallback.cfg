\* app.batch.run_eval without a model, the thresholds of PolicyConfig.
CONSTANTS
  MaxRetries = 3
  ApprovalLimit = 5
  CooldownBase = 30
  ConfidenceFloor = 60
  ContactCap = 3
  TtlHours = 72
  SimulationBudget = 4
  FastForward = TRUE
  LLMConfigured = FALSE
  RealLinks = FALSE
  MaxSteps = 32
  Cases <- BatchCases
  LLMOutputs <- NoOutputs
  Datasets <- BatchRuns
SPECIFICATION RunSpec
INVARIANTS
  BlockedOnlyByAgeOrRunBudget
  InvalidInstrumentNotifiedOnce
  WaitNeverNeeded
  LoopEndsByItself
  QueueMatchesCase
  MoneyIsCaptured
  RunWithinBudget
  ReportAddsUp
PROPERTIES
  CeilingNeedsHuman
  RunFinishes
  KeepsPromises
