SPECIFICATION FairSpec
CONSTANTS
  Present = {1, 2}
  Late = {3}
  Rivals <- Pair
  Twin <- SameName
  Cold = {1, 2}
  AutoRetire = TRUE
  AutoRevert = TRUE
  RetireLimit = 1
  ReviewLimit = 1
  SweepLimit = 1
  Budget <- Times
  MaxEvents = 3
INVARIANTS AuditExplains
PROPERTIES RetirementCutsEdges JudgedEventually ConflictsSettle
CHECK_DEADLOCK FALSE
