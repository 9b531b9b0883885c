\* Does the loop over a job's days end if a day has an hour more?
SPECIFICATION UsageSpec
CONSTANTS
  LastDay = 3
  Nominal = 2
  Lengths = {2, 3}
  Worker = Worker
  Other = Other
  Amounts = {0}
PROPERTIES SplitEnds
CHECK_DEADLOCK FALSE
