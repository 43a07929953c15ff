SPECIFICATION FairIngressSpec
CONSTANTS
  c1 = c1
  c2 = c2
  c3 = c3
  Callers <- ThreeCallers
  Requests <- OneRequest
  Slots = 1
  MaxWaiting = 2
INVARIANTS
  SlotAccounted
  OverOwnsNothing
PROPERTIES
  NobodyStarves
  SlotsComeFree
CHECK_DEADLOCK FALSE
