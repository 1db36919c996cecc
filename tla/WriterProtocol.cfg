SPECIFICATION FairSpec
CONSTANTS
  Request = {r1, r2, r3}
  Closer = {c1, c2}
  QueueSize = 2
  MaxBatchSize = 2
  MaxBatchDelay = 1
  NoOwner = NoOwner
  Loops = {"manage", "drain", "range"}
INVARIANTS Inv NoRequestLost AnsweredOnce CloseDrains ChannelsStayLegal AnswerIsPublished
PROPERTIES Monotone SubmitAnswered CloseReturns
CHECK_DEADLOCK FALSE
