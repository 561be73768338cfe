CONSTANTS
  unlock_account = unlock_account
  reset_mfa = reset_mfa
  Specialists <- OnlySecurity
  Actions <- TwoActions
  MaxSupervisorCycles = 2
  MaxAgentHandoffs = 1
  LoopSignatureRepeatLimit = 1
  MaxInformationRequests = 0
  RequireConfirmation = TRUE
  TicketForResolved = FALSE
  EmployeeTickets <- NoTickets
  Strays = {}
  MaxTurns = 2
  MaxCrashes = 1
SYMMETRY ActionSymmetry
SPECIFICATION Spec
CHECK_DEADLOCK FALSE
INVARIANTS ExecutionConsented ApproverMatchesAction OutcomeIsTracked RowFollowsGraph ExecutedOncePerConfirmation FlaggedNeedsHuman
PROPERTIES ResolutionNeedsAnswer ImplementsContract
