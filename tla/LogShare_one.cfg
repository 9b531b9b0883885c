\* One job, both streams, two threads: every interleaving of one job's life.
CONSTANTS
  A = A
  B = B
  Jobs = {j1}
  NoJob = NoJob
  Seeds = {A, B}
  NoSeed = NoSeed
  Configured <- ThenSplit
  Merged = {A}
  Squashed = {B}
  Workers = {w1, w2}
  Tokens <- ThreadTokens
  NoToken = NoToken
  Free = Free
  BadReads = {"unsafe"}
  MaxVersion = 1
  MaxFaults = 1
SPECIFICATION Spec
INVARIANTS SpoolBacked FingerprintHonest OneMirrorPerJob NothingKept
PROPERTIES ImplementsSharedSpool
