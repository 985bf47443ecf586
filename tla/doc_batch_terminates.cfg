\* With a model the batch aborts on a case that used its 32 steps.
CONSTANTS
  MaxRetries = 3
  ApprovalLimit = 5
  CooldownBase = 30
  ConfidenceFloor = 60
  ContactCap = 3
  TtlHours = 72
  SimulationBudget = 4
  FastForward = TRUE
  LLMConfigured = TRUE
  RealLinks = FALSE
  MaxSteps = 32
  Cases <- LadderCases
  LLMOutputs <- LadderOutputs
SPECIFICATION FairSpec
PROPERTY
  EveryCaseTerminates
