CONSTANTS
  Writers <- TwoWriters
  Clients <- OpsAndChat
  Filter <- OneFollows
  AllSessions = "all"
  Reading <- ChatReads
  Happenings <- OneEach
  Capacity = 1
  MaxEvents = 3
SPECIFICATION FairSpec
CHECK_DEADLOCK FALSE
INVARIANTS StreamTypeOK OnlyTruthIsShown FeedHasNoHole
PROPERTIES WatchersNeverBlock GoneAreForgotten QueuedIsShown
