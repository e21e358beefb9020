SPECIFICATION Spec
CONSTANTS
  MaxCalls = 2
  MaxKeys = 1
  MaxFaults = 0
INVARIANT LoanStopsWorker
CHECK_DEADLOCK FALSE
