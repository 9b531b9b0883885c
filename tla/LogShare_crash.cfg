\* A collector dies while it writes a spool file, and another one starts.
CONSTANTS
  A = A
  B = B
  Jobs = {j1}
  NoJob = NoJob
  Seeds = {A}
  NoSeed = NoSeed
  Configured <- OneStream
  Merged = {}
  Squashed = {}
  Workers = {w1, w2}
  Tokens <- ThreadTokens
  NoToken = NoToken
  Free = Free
  BadReads = {"unsafe"}
  MaxVersion = 1
  MaxFaults = 1
SPECIFICATION Spec
INVARIANTS CrashRemnantsCleared
