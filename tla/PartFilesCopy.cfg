SPECIFICATION Spec
CONSTANTS
  f1 = f1
  f2 = f2
  Files = {f1}
  PartCount <- TwoAndOne
  Allocated = {}
  Paused = {}
  Sourced = {f1}
  Faults = {"rename", "copy"}
  Sync = sync
  NoTask = none
INVARIANTS
  NoErrorMeansMoved
