\* Standing conditions while Slack comes and goes.
CONSTANTS
  node = node
  job = job
  cluster = cluster
  Keys <- Nags
  Grace <- ShortGrace
  Gap <- TwoTicks
  QueueSize = 2
  NoClock = NoClock
  Idle = Idle
SPECIFICATION PromptSpec
PROPERTIES NagsAreHeard
