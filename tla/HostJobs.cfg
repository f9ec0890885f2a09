SPECIFICATION FairJobs
CONSTANTS
  Task <- Tasks
  Weekly = {"weekly-full"}
  Lenient = {"supabase"}
  Titled = {"supabase"}
  Keep <- Keeps
  Slack <- Slacks
  Week = 2
  Budget <- Times
  MaxEntry = 3
  MaxMonth = 2
  Limit = 2
  ArchiveFail = 1
  MaxRelease = 3
  MaxFault = 2
  MaxTruth = 2
  Batch = 2
  MaxEdit = 2
  MemoryFail = 1
  LastMonth = 3
  MaxDaily = 2
  MaxBusy = 1
  DigestFail = 2
PROPERTIES KeptInTrust LoadedByTheEnd
PROPERTIES IllGetsATask FailuresAreFiled SaysTheTruth MonthsAreDigested
CHECK_DEADLOCK FALSE
