SPECIFICATION FairSpec
CONSTANTS
  Task = {1, 2}
  Worker = {w1, w2}
  Poller = poller
  NoTask = 0
  NoWorker = none
  Rank <- ByNumber
  Created <- Reversed
  Filed <- SomeWaiting
  Urgent = {2}
  Recurring = {}
  Risky = {}
  Misfiled = {}
  Gated = {}
  Deps <- SecondNeeds1
  NotBefore <- FirstLater
  Expires <- Unset
  MaxAttempts = 2
  MaxWorkers = 2
  ScanLimit = 5
  SweepLimit = 1
  SageBatch = 0
  MaxTime = 1
  Budget <- BudgetFaults
  MaxKinds = 7
PROPERTIES FinishedIsNotRerun OrphanIsRecovered OpenIsTaken WaitingIsReleased
CHECK_DEADLOCK FALSE
