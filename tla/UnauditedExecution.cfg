SPECIFICATION Spec
CONSTANTS
  Unknown = unknown
  Specialist = "security"
  Accounts <- SomeAccounts
  Asked <- SomeAsked
  Confirmed <- SomeConfirmed
  MaxSteps = 2
  MaxRetries = 1
  MaxRuns = 2
  MaxConfirmed = 1
  MaxFaults = 1
CHECK_DEADLOCK FALSE
INVARIANT NoUnauditedExecution
