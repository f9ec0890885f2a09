SPECIFICATION FairSpec
CONSTANTS
  Kind <- Kinds
  Label <- Labels
  Dated = {1, 2}
  Blind = {}
  Alike <- Similar
  Hot = {5, 6, 7}
  Aged = {5, 6}
  FetchLimit = 3
  MaxClusters = 1
  Batch = 2
  ModelReads = 2
  TopReads = 1
  Budget <- Times
  MaxEvents = 1
INVARIANTS DistilledOnce
PROPERTIES MarkedWasWritten EpisodesDrain
CHECK_DEADLOCK FALSE
