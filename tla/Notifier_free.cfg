\* Is a free-GPU alert always about free GPUs?
CONSTANTS
  node = node
  job = job
  cluster = cluster
  Keys <- Free
  Grace <- ShortGrace
  Gap <- OneTick
  QueueSize = 1
  NoClock = NoClock
  Idle = Idle
SPECIFICATION Spec
PROPERTIES FreeIsCounted
