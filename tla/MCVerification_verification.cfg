SPECIFICATION Spec
CONSTANTS
  Handlers <- HandlerSet
  Users <- Everyone
  Channels <- TheChannel
  Admins <- TheAdmin
  Managed <- TheGuests
  Posts <- ThreadPosts
  event <- ThreadEvent
  Bodies <- ThreadBodies
  Threads <- OneThread
  threadOf <- ThreadOfAll
  BotUserIdSet = TRUE
  MaxDeliveries = 2
  MaxReceiveCount = 3
  VisibilityTimeout = 2
  MaxLog = 2
  h1 = h1
  h2 = h2
SYMMETRY HandlerSymmetry
CHECK_DEADLOCK FALSE
INVARIANTS
  VerificationInv
  OneMessagePerPost
PROPERTIES
  QueuedOnlyIfAllowedMeanwhile
