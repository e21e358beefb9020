SPECIFICATION FairSpec
CONSTANTS
  MaxCalls = 3
  MaxKeys = 1
  MaxFaults = 1
INVARIANTS PermitsMatch StopReachesWork PausesNest LoanIsHonoured
PROPERTIES WaitIsAnswered CallReturns
CHECK_DEADLOCK FALSE
