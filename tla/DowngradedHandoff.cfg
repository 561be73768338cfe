CONSTANTS
  unlock_account = unlock_account
  reset_mfa = reset_mfa
  Specialists <- WithEndpoint
  Actions <- NoActions
  MaxSupervisorCycles = 3
  MaxAgentHandoffs = 1
  LoopSignatureRepeatLimit = 1
  MaxInformationRequests = 1
  RequireConfirmation = TRUE
  TicketForResolved = FALSE
  EmployeeTickets <- NoTickets
  Strays = {}
  MaxTurns = 2
  MaxCrashes = 0
SPECIFICATION Spec
CHECK_DEADLOCK FALSE
PROPERTIES HandoffNotDowngraded
