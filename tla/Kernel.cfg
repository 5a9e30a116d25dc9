SPECIFICATION Spec
CONSTANTS
  Length = 2
  Values = {1, 2}
  Blank = 0
  Tasks <- MCTasks
  Prio <- MCPrio
  Calls <- MCCalls
  TickMod = 4
  MaxPended = 1
INVARIANTS
  TypeOK
  Exclusive
  UrgentRuns
  NoLostWakeup
  WaitsExactly
PROPERTIES
  NeverEarly
  ImplementsFifo
