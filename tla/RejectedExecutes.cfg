SPECIFICATION Spec
CONSTANTS
  t1 = t1  r1 = r1  h1 = h1  h2 = h2
  Tickets = {t1}
  Requests <- OneRequest
  TicketOf <- OnTheTicket
  WithTool <- OneRequest
  Handlers <- TwoHandlers
  Sweeper = sweeper
  Threshold = 0
  TicksPerDay = 2
  MaxAge = 2
  MaxFailures = 0
INVARIANT RejectedNeverExecutes
CHECK_DEADLOCK FALSE
