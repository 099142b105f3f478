SPECIFICATION FairSpec
CONSTANTS
  Ids = {1, 2}
  Kind <- GoodThenRotten
  Producers = {p1}
  BatchMax = 1
  MaxStreak = 2
  MaxVersion = 1
  MaxFaults = 1
  MaxCrashes = 0
  None = None
PROPERTIES
  DeliveryGoesOn
