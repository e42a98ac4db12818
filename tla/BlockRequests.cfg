SPECIFICATION Spec
CONSTANTS
  c1 = c1
  c2 = c2
  Clients = {c1, c2}
  FileSize = 4
  PartSize = 3
  BlockSize = 2
  MaxBlocks = 2
  Available <- SecondLacksOne
  Liars = {c1}
  Bunglers = {c2}
  Tagged = {c2}
  DropSlow = FALSE
CHECK_DEADLOCK FALSE
INVARIANTS
  RequestsWellFormed
  SendersHaveWork
PROPERTIES
  NewRequestsAreMissing
