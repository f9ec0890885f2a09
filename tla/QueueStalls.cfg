SPECIFICATION Spec
CONSTANTS
  Task = {1}
  Worker = {w1, w2}
  Poller = poller
  NoTask = 0
  NoWorker = none
  Rank <- ByNumber
  Created <- ByNumber
  Filed <- Parked
  Urgent = {1}
  Recurring = {1}
  Risky = {}
  Misfiled = {}
  Gated = {1}
  Deps <- NoDeps
  NotBefore <- Unset
  Expires <- Unset
  MaxAttempts = 2
  MaxWorkers = 1
  ScanLimit = 5
  SweepLimit = 1
  SageBatch = 10
  MaxTime = 0
  Budget <- BudgetStalls
  MaxKinds = 4
SYMMETRY Symmetry
INVARIANTS TypeOK UnruledIsHeld SlotTracksLiveThread
PROPERTIES HandsOutOpenRows
CHECK_DEADLOCK FALSE
