SPECIFICATION FairSpec
CHECK_DEADLOCK FALSE
CONSTANTS
  Peers = {1, 2, 3, 4}
  Self = 3
  Kinds = {"NODE", "NODECOMPLETE", "VALUE", "STORE"}
  MaxAnswers <- Answers
  MaxCompleted <- Completed
  Counts = {1}
  Traffic = 4
INVARIANTS
  SearchWellFormed
  NearestKept
PROPERTIES
  EndsWithTheNearest
  SearchEnds
