SPECIFICATION Spec
CONSTANTS
  e1 = e1
  e2 = e2
  Threads <- OneThread
  Bodies <- TwoBodies
  threadOf <- OneThreadOf
  Unprocessable <- Blanks
  Environments <- EnvironmentSet
  MaxReceiveCount = 2
  VisibilityTimeout = 2
  LambdaTimeout = 1
  MaxLog = 2
SYMMETRY EnvironmentSymmetry
CHECK_DEADLOCK FALSE
INVARIANTS
  BridgeInv
  OneBridgePerThread
  RepliesInOrder
  AcknowledgedIsAnswered
  InvokedOncePerReceive
  PostsBounded
PROPERTIES
  NeverReleasedWhileRunning
