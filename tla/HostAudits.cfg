SPECIFICATION FairAudits
CONSTANTS
  Repo = {"azlab"}
  Path = {"sql", "py"}
  Home <- HomeOf
  Number <- Numbers
  Targets = {"py"}
  Patience <- Waits
  Budget <- Times
  Name = {"tei"}
  MaxId = 2
  ContainerFail = 1
  Service = {"poll.service", "argus.service"}
  Script = {"poll_queue.py"}
  Execs <- ExecsOf
  Source <- SourcesOf
  MaxEdit = 3
  UnitFail = 1
  MaxRow = 2
  Floor = 1
  EpisodeFail = 2
INVARIANTS SilenceIsNews
PROPERTIES TellsChanges Escalates ContainerEndsTrue UnitEndsTrue EveryTraceEnds
CHECK_DEADLOCK FALSE
