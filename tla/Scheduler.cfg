SPECIFICATION Spec
CONSTANTS
  EventMax = 5
  LCD = 0
  SPU = 1
  RTC = 2
  Devices = {3, 4}
  PoweredAsleep = {4}
  Period <- MCPeriod
  HBlankCycles = 2
  ScanlineCycles = 2
  Lines = 2
  MaxIterationCycles = 2
  IterationCycleMargin = 1
  MaxInstruction = 2
  Delays = {2}
  SleepFrame = 6
  Never = Never
  Horizon = 9
INVARIANTS EarliestIsExact NothingOverdue FrameCanEnd
PROPERTIES CalledOnTime
CHECK_DEADLOCK FALSE
