\* app.worker with Razorpay keys and a model.
CONSTANTS
  MaxRetries = 3
  ApprovalLimit = 5
  CooldownBase = 30
  ConfidenceFloor = 60
  ContactCap = 3
  TtlHours = 72
  SimulationBudget = 4
  FastForward = FALSE
  LLMConfigured = TRUE
  RealLinks = TRUE
  MaxSteps = 32
  Cases <- LiveCases
  LLMOutputs <- ModelOutputs
SPECIFICATION Spec
PROPERTIES
  StepsFollowFSM
  KeepsPromise
