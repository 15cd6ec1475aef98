SPECIFICATION FairSpec
CONSTANTS
  RcvCap <- ShortQueue
  SndCap <- ShortQueue
  ReadTime = 2
INVARIANTS TypeOK ResetOnlyAhead
PROPERTIES AnswersInOrder TimedHandlersEnd
CHECK_DEADLOCK FALSE
