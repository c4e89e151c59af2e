SPECIFICATION FairSpec
CONSTANTS
  Handlers = {h1}
  Environments = {e1}
  Users = {"admin"}
  Channels = {"chan"}
  Admins = {"admin"}
  Managed = {}
  Forgettable = {}
  Posts = {"p1", "p2", "p3"}
  event <- ThreadEvents
  Bodies = {"mention", "followup", "appPost"}
  Threads = {"t1"}
  threadOf <- ThreadOfAll
  Unprocessable = {}
  BotUserIdSet = TRUE
  MaxDeliveries = 1
  MaxReceiveCount = 1
  VisibilityTimeout = 2
  LambdaTimeout = 1
  MaxLog = 2
CHECK_DEADLOCK FALSE
INVARIANTS
  FollowupsFollowReplies
  SpeaksOnlyWhenSpokenTo
  NoMentionLost
PROPERTIES
  ImplementsBridge
  ImplementsVerification
  AcknowledgedMentionSettles
