CONSTANTS
  w1 = w1
  w2 = w2
  Threads = {w1, w2}
  Plans <- ScanPlans
  Holes <- SomeHoles
  MaxResults = 2
  MaxFlips = 1
  Searches <- Asks
  Regions <- Spread
  Memories <- FirstContents
  Unreadables = {{}, {9}}
  Bytes = {0, 1, 2, 3}
  MaxDepth = 4
  MaxHits = 20
  MaxWrites = 1
  Types = {"u8", "i64", "f32", "f64"}
  KindOf <- Kinds
  WidthOf <- Widths
  Radix = 6
  Double = "f64"
  Floats <- Patterns
  Limits <- Beyond
  Epsilon = 2
  Contents <- Held
  Scalars <- Entered
  Comparisons <- Questions
  MaxScans = 3
SPECIFICATION MCSpec
INVARIANTS Exact SearchExact
PROPERTIES AllFinish
\* A scan that returned is over.
CHECK_DEADLOCK FALSE
