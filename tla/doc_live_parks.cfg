\* A parked case is closed, or makes the call raise.
CONSTANTS
  MaxRetries = 3
  ApprovalLimit = 5
  CooldownBase = 30
  ConfidenceFloor = 60
  ContactCap = 3
  TtlHours = 72
  SimulationBudget = 4
  FastForward = FALSE
  LLMConfigured = FALSE
  RealLinks = TRUE
  MaxSteps = 32
  Cases <- LiveCases
  LLMOutputs <- NoOutputs
SPECIFICATION FairSpec
PROPERTY
  ParkedCaseIsLeft
