\* One GPU and two jobs; five ticks of usage; two days of threads; three collectors;
\* two boards; three writes of data.json; two threads that save
\* three files; three agents and two repairs; two writes of a log;
\* two threads and three SSH masters; the scripts of two jobs.
SPECIFICATION StateSpec
CONSTANTS
  a = a
  b = b
  Jobs = {a, b}
  MaxAge = 1
  NoJob = NoJob
  NoClock = NoClock
  NoFile = NoFile
  MaxGap = 2
  SaveEvery = 2
  AskEvery = 2
  RetryEvery = 1
  MaxFailures = 2
  MaxTime = 5
  Never = Never
  LastDate = 2
  Attempts = 2
  NoParent = NoParent
  d1 = d1
  d2 = d2
  d3 = d3
  Collectors = {d1, d2, d3}
  NoCollector = NoCollector
  NBoards = 2
  TopologyTtl = 2
  HealthTtl = 1
  HealthRetry = 1
  MaxTook = 1
  Unnumbered = Unnumbered
  Unread = Unread
  MaxChanges = 2
  MaxWrites = 3
  NoAnswer = NoAnswer
  s1 = s1
  s2 = s2
  x = x
  y = y
  Savers = {s1, s2}
  Texts = {x, y}
  Foreign = Foreign
  MaxFiles = 3
  MaxMeddling = 1
  Absent = Absent
  Strange = Strange
  g1 = g1
  g2 = g2
  g3 = g3
  r1 = r1
  r2 = r2
  Processes = {g1, g2, g3}
  Repairs = {r1, r2}
  RepairGap = 1
  MaxReadings = 3
  Nobody = Nobody
  l1 = l1
  l2 = l2
  Polls = {l1, l2}
  MaxLines = 2
  Rights <- OwnMirrorMixed
  NoLog = NoLog
  Unreadable = Unreadable
  SshCallers = {r1, r2}
  MasterTtl = 2
  MaxMasters = 3
  NoMaster = NoMaster
  Unheld = Unheld
  ScriptJobs = {a, b}
  Untried = Untried
INVARIANTS
  ClocksAreHonest
  UsageIsBounded
  OneParentPerDay
  OneCollector
  RefreshIsHonest
  StateFileIsHonest
  PanesCatchUp
  OneMaster
  AskedOnce
PROPERTIES
  StopKeepsAll
  PayloadIsTheCards
  ReadingsAdvance
