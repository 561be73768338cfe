CONSTANTS
  Calls <- ThreeCalls
  Confirming = {FALSE}
  MaxQuestions = 2
  MaxFaults = 1
SPECIFICATION FairSpec
CHECK_DEADLOCK FALSE
INVARIANTS ResumesWhatItFound RestsAnswerable OneVoiceSession
PROPERTIES RepliesAreTrue ServesTheContract RequestsDrain
