SPECIFICATION Spec
CONSTANTS
  Inst = {a, b}
  Frame <- SmallFrames
  Capacity = {1, 3}
  QueueSize = 8
  HeaderLen = 2
INVARIANT NeverTorn
PROPERTY ImplementsBacklog
