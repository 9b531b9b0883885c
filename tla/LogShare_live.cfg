\* One job under fair scheduling, with one fault of any kind.
CONSTANTS
  A = A
  B = B
  Jobs = {j1}
  NoJob = NoJob
  Seeds = {A}
  NoSeed = NoSeed
  Configured <- OneStream
  Merged = {}
  Squashed = {}
  Workers = {w1}
  Tokens <- ThreadTokens
  NoToken = NoToken
  Free = Free
  BadReads = {"unsafe"}
  MaxVersion = 1
  MaxFaults = 1
SPECIFICATION FairSpec
PROPERTIES EventuallyMirrored
