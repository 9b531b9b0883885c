\* Two nodes and room for one poll, so that they compete for it.
CONSTANTS
  gpu = gpu
  cpu = cpu
  Order <- Roster
  GpuNodes = {gpu}
  AgentNodes = {gpu}
  Steady = {cpu}
  Drained = {cpu}
  MaxPending = 1
  FreshAge = 1
  Hot = 1
  Cold = 1
  Down = 2
  PollTime = 1
SPECIFICATION FairSpec
INVARIANTS OnePollPerNode
PROPERTIES RowsAreRecent GoodDataAreKept EveryNodeIsPolled GoneIsForgotten
