CONSTANTS
  StartSlot = 1
  EndSlot = 1
  MaxConcurrent = 1
  ChannelBound = 1
  BlocksBound = 1
  Answers <- WithGaps
  WriteMayFail = FALSE
  StderrMayFail = FALSE
  MaxRuns = 2
  NoSlot = NoSlot
SPECIFICATION Spec
INVARIANTS SkippedMeansEmpty
