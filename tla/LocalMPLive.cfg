SPECIFICATION FairSpec
CONSTANTS
  a = a
  b = b
  c = c
  mac1 = mac1
  Inst = {a, b, c}
  NoInst = NoInst
  Casts <- Pair
  Addr = {mac1}
  NoAddr = NoAddr
  MacOf <- OneMac
  AidOf <- ThreeAids
  QueueSize = 6
  HeaderLen = 1
  PayloadLen = {1}
  Time = {0, 1}
  StaleAge = 0
  MaxSends = 2
PROPERTIES ReceiveReturns
