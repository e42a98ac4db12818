SPECIFICATION FairSpec
CONSTANTS
  f1 = f1
  f2 = f2
  Files = {f1, f2}
  PartCount <- TwoAndOne
  Allocated = {f1}
  Paused = {f2}
  Sourced = {f1}
  Faults = {"allocate", "rename", "open", "copy"}
  Sync = sync
  NoTask = none
INVARIANTS
  TypeOK
  
  

  
  
