SPECIFICATION Spec
CONSTANTS
  Task = {1, 2, 3}
  Worker = {w1, w2}
  Poller = poller
  NoTask = 0
  NoWorker = none
  Rank <- ByNumber
  Created <- ByNumber
  Filed <- Various
  Urgent = {1}
  Recurring = {}
  Risky = {}
  Misfiled = {3}
  Gated = {}
  Deps <- SecondNeeds1
  NotBefore <- FirstLater
  Expires <- FirstExpires
  MaxAttempts = 2
  MaxWorkers = 1
  ScanLimit = 5
  SweepLimit = 50
  SageBatch = 0
  MaxTime = 2
  Budget <- BudgetShared
  MaxKinds = 7
SYMMETRY Symmetry
INVARIANTS OneRunPerTask
PROPERTIES FailuresAreCharged GatesAreRespected
CHECK_DEADLOCK FALSE
