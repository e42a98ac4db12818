SPECIFICATION FairSpec
CONSTANTS
  c1 = c1
  f1 = f1
  f2 = f2
  none = none
  Clients = {c1}
  Files = {f1, f2}
  None = none
  AutoFiles = {f2}
  Priority <- SecondFirst
  MaxSources = 1
  Finishing = {f1}
  MaxAsked = 1
INVARIANTS
  SourcesWellFormed
  NobodyLeftBehind
  
PROPERTIES
  Reclaimed
