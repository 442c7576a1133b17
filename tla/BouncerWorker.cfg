CONSTANTS
  m1 = m1
  m2 = m2
  w1 = w1
  w2 = w2
  Messages = {m1, m2}
  Workers = {w1, w2}
  Kind <- Kinds
  Subscribed <- ModelsForW2
  Prefetch <- OneEach
  Quota <- TwoTasksForW2
  MaxRetries = 1
  MaxLosses = 1
  MaxKills = 1
  MaxRefusals = 1
SPECIFICATION Spec
INVARIANTS DeliveriesTracked ResultIsLastWord
PROPERTY ImplementsDelivery
