CONSTANTS
  e1 = e1  e2 = e2  b1 = b1  b2 = b2  b3 = b3
  d1 = d1  d2 = d2  a1 = a1  a2 = a2
  Events <- MCEvents
  Facts <- MCFacts
  Bodies <- MCBodies
  EventOf <- MCEventOf
  Deliveries <- MCDeliveries
  DeliveryOf <- MCDeliveryOf
  Slots <- MCSlots
  NoRow = NoRow
  MaxFailures = 1
SPECIFICATION FairSpec
INVARIANT TypeOK
INVARIANT AnswerIsTrue
PROPERTY ImplementsDecisionLog
PROPERTY EveryEventDecided
