CONSTANTS
  StartSlot = 1
  EndSlot = 9
  MaxConcurrent = 2
  ChannelBound = 1
  BlocksBound = 1
  Answers <- Truthful
  WriteMayFail = FALSE
  StderrMayFail = FALSE
  MaxRuns = 3
  NoSlot = NoSlot
SPECIFICATION Spec
INVARIANTS RawBlocksBounded Backpressure NothingLostSilently CompleteMeansStored
