SPECIFICATION Spec
CONSTANTS
  c1 = c1
  c2 = c2
  f1 = f1
  none = none
  Clients = {c1, c2}
  Files = {f1}
  NoFile = none
  MaxSlots = 1
  QueueSize = 2
  MaxConnections = 2
  Sources = {c2}
  ChatPartners = {}
  Friends = {}
  Unreachable = {}
  Identified = {c1}
  Twins = {{c1, c2}}
  LowIDs = {c2}
  Idlers = {}
  Bannable = {c2}
  BanHolders = FALSE
INVARIANTS
  TypeOK
  
  
  SocketAgrees
  ExtraSlotBound
  
  
  
