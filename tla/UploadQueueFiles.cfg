SPECIFICATION FairSpec
CONSTANTS
  c1 = c1
  c2 = c2
  f1 = f1
  f2 = f2
  none = none
  Clients = {c1, c2}
  Files = {f1, f2}
  NoFile = none
  MaxSlots = 1
  QueueSize = 2
  MaxConnections = 1
  Sources = {}
  ChatPartners = {c2}
  Friends = {c1}
  Unreachable = {c2}
  Identified = {c1, c2}
  Twins = {}
  LowIDs = {}
  Idlers = {c2}
  Bannable = {}
  BanHolders = FALSE
INVARIANTS
  CountersAgree
  UploaderHasFile
PROPERTIES
  DeadSlotFreed
  QueueKeepsMoving
  NoQueueJumping
