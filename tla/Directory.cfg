CONSTANTS
  Employees <- Four
  Stranger = "stranger"
  Nobody = "nobody"
  Operator = "operator"
  Orgs <- SmallOrgs
  MaxHops = 2
  MaxOutages = 1
  MaxEscalations = 4
SPECIFICATION Spec
CHECK_DEADLOCK FALSE
INVARIANTS FailsClosed NearestApproverAsked ClimbSkipsNobody
