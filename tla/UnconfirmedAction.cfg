CONSTANTS
  unlock_account = unlock_account
  reset_mfa = reset_mfa
  Specialists <- OneSpecialist
  Actions <- TwoActions
  MaxSupervisorCycles = 2
  MaxAgentHandoffs = 1
  LoopSignatureRepeatLimit = 2
  MaxInformationRequests = 1
  RequireConfirmation = TRUE
  TicketForResolved = FALSE
  EmployeeTickets <- OneTicket
  Strays = {}
  MaxTurns = 2
  MaxCrashes = 0
SPECIFICATION Spec
CHECK_DEADLOCK FALSE
PROPERTIES PendingActionConfirmed
