CONSTANTS
  StartSlot = 1
  EndSlot = 3
  MaxConcurrent = 2
  ChannelBound = 1
  BlocksBound = 1
  Answers <- AnyAnswer
  WriteMayFail = TRUE
  StderrMayFail = TRUE
  MaxRuns = 2
  NoSlot = NoSlot
SPECIFICATION FairSpec
INVARIANTS TypeOK OneHolder NothingLostSilently
PROPERTIES Finishes AllSettled LedgerSpec
