CONSTANTS
  unlock_account = unlock_account
  reset_mfa = reset_mfa
  Specialists <- WithEndpoint
  Actions <- NoActions
  MaxSupervisorCycles = 3
  MaxAgentHandoffs = 1
  LoopSignatureRepeatLimit = 1
  MaxInformationRequests = 1
  RequireConfirmation = TRUE
  TicketForResolved = TRUE
  EmployeeTickets <- TwoTickets
  Strays = {"network"}
  MaxTurns = 1
  MaxCrashes = 0
SPECIFICATION FairSpec
CHECK_DEADLOCK FALSE
INVARIANTS TypeOK RunWithinRecursionLimit
PROPERTIES RunSettles HandoffHonoured FailedSpecialistNotRetried
