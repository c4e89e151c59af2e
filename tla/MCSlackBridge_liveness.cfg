SPECIFICATION FairSpec
CONSTANTS
  e1 = e1
  e2 = e2
  Threads <- OneThread
  Bodies <- TwoBodies
  threadOf <- OneThreadOf
  Unprocessable <- Blanks
  Environments <- OneEnvironment
  MaxReceiveCount = 2
  VisibilityTimeout = 2
  LambdaTimeout = 1
  MaxLog = 2
CHECK_DEADLOCK FALSE
PROPERTIES
  EveryMessageSettles
  ImplementsThreadReplies
