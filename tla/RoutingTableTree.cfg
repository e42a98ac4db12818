SPECIFICATION Spec
CONSTANTS
  a1 = a1
  a2 = a2
  a3 = a3
  a4 = a4
  a5 = a5
  Addresses = {a1, a2, a3, a4, a5}
  Ids <- FiveIds
  Greetings <- NoGreetings
  Mentions <- FiveMentions
  Saved <- FiveSaved
  MaxLevel = 3
  K = 4
  KBase = 1
  KK = 1
  Keep = 1
  Ages = {2}
INVARIANTS
  EachInItsZone
  ClosestFound
PROPERTIES
  OnlyTheDeadLeave
