\* Two modules subscribe and exit; one of them publishes, or both do.
\* They stop when the messages are published and the modules have exited.
CHECK_DEADLOCK FALSE
SPECIFICATION MessagingSpec
CONSTANTS
  Modules = {m1, m2}
  NULL = NULL
  QueueSize = 2
  MaxInstances = 1
  MaxSubscriptions = 3
  Topics <- TwoTopics
  TopicLen = 2
  Publishers <- OneOrAll
  HeapSize = 2
  MaxMessages = 2
SYMMETRY ModuleSymmetry
INVARIANTS
  SubscriptionsAccounted
  
  OneOrder
