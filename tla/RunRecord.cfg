SPECIFICATION Spec
CONSTANTS
  Proc = {p1, p2}
  NoProc = NoProc
  MaxRecords = 4
  CarryOn = FALSE

  
  
  
PROPERTIES
  ImplementsDurableLog
CHECK_DEADLOCK FALSE
