CONSTANTS
  t1 = t1
  t2 = t2
  GameThreads = {t1,t2}
  Capacity = 2
  Limit = 2
  MaxEvents = 5
SPECIFICATION FeedSpec
SYMMETRY Symmetry
INVARIANTS InOrderAndWhole NothingPassedOver
