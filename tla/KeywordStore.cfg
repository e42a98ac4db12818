SPECIFICATION FairSpec
CHECK_DEADLOCK FALSE
CONSTANTS
  Files = 3
  MaxFiles = 2
  MaxData = 4
  Sizes = {2}
PROPERTIES
  KeywordsAreStored
