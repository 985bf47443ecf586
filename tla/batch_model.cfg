\* app.batch.run_eval with a model that may answer anything, and a cooldown
\* longer than the schedule of the ladder.
CONSTANTS
  MaxRetries = 3
  ApprovalLimit = 5
  CooldownBase = 100
  ConfidenceFloor = 60
  ContactCap = 3
  TtlHours = 72
  SimulationBudget = 4
  FastForward = TRUE
  LLMConfigured = TRUE
  RealLinks = FALSE
  MaxSteps = 32
  Cases <- ModelCases
  LLMOutputs <- ModelOutputs
SPECIFICATION Spec
INVARIANTS
  TypeOK
  WithinBudgets
PROPERTIES
  ChargesAreSpaced
  EffectsAreGated
  KeepsPromise
