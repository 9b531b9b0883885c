\* Does an outage that Slack refused once reach the channel?
CONSTANTS
  node = node
  job = job
  cluster = cluster
  Keys <- Outage
  Grace <- ShortGrace
  Gap <- OneTick
  QueueSize = 1
  NoClock = NoClock
  Idle = Idle
SPECIFICATION PromptSpec
PROPERTIES OutagesAreHeard
