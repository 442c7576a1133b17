CONSTANTS
  m1 = m1
  m2 = m2
  w1 = w1
  w2 = w2
  Messages = {m1, m2}
  Workers = {w1}
  Kind <- TwoModels
  Subscribed <- AllQueues
  Prefetch <- OneEach
  Quota <- Listening
  MaxRetries = 1
  MaxLosses = 2
  MaxKills = 1
  MaxRefusals = 1
SPECIFICATION FairSpec
PROPERTY EveryTaskAnswered
