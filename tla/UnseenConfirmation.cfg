CONSTANTS
  Calls <- ThreeCalls
  Confirming = {TRUE, FALSE}
  MaxQuestions = 2
  MaxFaults = 0
SPECIFICATION Spec
CHECK_DEADLOCK FALSE
PROPERTIES ConfirmsWhatWasSeen
