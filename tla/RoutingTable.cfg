SPECIFICATION FairSpec
CONSTANTS
  a1 = a1
  a2 = a2
  a3 = a3
  a4 = a4
  a5 = a5
  Addresses = {a1, a2, a3}
  Ids <- ThreeIds
  Greetings <- ThreeGreetings
  Mentions <- ThreeMentions
  Saved <- ThreeSaved
  MaxLevel = 3
  K = 2
  KBase = 1
  KK = 1
  Keep = 1
  Ages = {2}
INVARIANTS
  TableWellFormed
PROPERTIES
  
  SilentContactsLeave
