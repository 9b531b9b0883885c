\* Three jobs on three cards of two nodes; one job that is sampled; three jobs on three
\* cards of one node; three directories of two jobs, two of
\* them in one; three days of two hours;
\* lines of five tokens.
SPECIFICATION DataSpec
CONSTANTS
  n1 = n1
  n2 = n2
  u1 = u1
  u2 = u2
  j1 = j1
  j2 = j2
  j3 = j3
  p1 = p1
  p2 = p2
  p3 = p3
  m1 = m1
  m2 = m2
  v1 = v1
  v2 = v2
  QJobs = {1, 2, 3}
  Arrays = {2}
  Unclear = {3}
  Owner <- Users12
  Gpus <- ThreeGpus
  SJobs = {1}
  SArrays = {}
  SOwner <- OneOwner
  SGpus <- OneGpu
  SchedulerMaxAge = 1
  NotYet = NotYet
  Failed = Failed
  Unsupported = Unsupported
  NCards = 3
  CardJobs = {j1, j2, j3}
  CardUser <- UserOf
  Outsiders = {u2}
  Hints <- SomeHints
  Unbound = Unbound
  Inodes = {p1, p2, p3}
  Under <- TwoScans
  MeterJobs = {m1, m2}
  Domain = Domain
  Void = Void
  Wrap = 2
  Layouts <- SomeLayouts
  MaxSampled = 2
  NoRate = NoRate
  NoValue = NoValue
  LastDay = 3
  Nominal = 2
  Lengths = {2}
  Worker = Worker
  Other = Other
  Amounts = {0, 2}
  Numerals <- OneAndTwo
  MaxTokens = 5
  StrictLimit = 3
  LenientLimit = 4
INVARIANTS
  BackendsAgree
  CardsAreRight
  SplitIsExact
  ListsAreRead
PROPERTIES
  MetersAreHonest
  AllocIsSound
\* A job's days are split once.
CHECK_DEADLOCK FALSE
