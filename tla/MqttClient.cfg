SPECIFICATION FairSpec
CONSTANTS
  s1 = s1
  s2 = s2
  t1 = t1
  t2 = t2
  None = None
  Subscriptions <- MCSubscriptions
  Topics <- MCTopics
  Topic <- MCTopic
  Capacity <- MCCapacity
  sMaxSubscriptions = 2
  MaxInFlight = 2
  Sizes <- MCSizes
INVARIANTS
  TypeOK
  SubscriptionsKept
  MessagesHandled
PROPERTIES
  SubscribesAgain
