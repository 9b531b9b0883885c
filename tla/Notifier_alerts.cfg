\* Outages of a node and free GPUs, over restarts.
CONSTANTS
  node = node
  job = job
  cluster = cluster
  Keys <- News
  Grace <- ShortGrace
  Gap <- OneTick
  QueueSize = 1
  NoClock = NoClock
  Idle = Idle
SPECIFICATION Spec
INVARIANTS OneYoungAlert SilenceIsOwed
PROPERTIES GraceIsServed OldNewsStaysQuiet ImplementsDebounce
