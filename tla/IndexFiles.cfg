CONSTANTS
  a1 = a1
  a2 = a2
  b1 = b1
  a = a
  b = b
  v = v
  w = w
  x = x
  Ids = {a1, a2, b1}
  Docs = {a, b}
  DocOf <- Document
  Versions = {v, w, x}
  None = None
  Vector <- Values
  Multiplier = 2
  Queries <- Directions
  Ks = {1, 2}
  Faults = {"write", "stop"}
  MaxStaged = 3
  MaxFaults = 2
SPECIFICATION Spec
INVARIANTS
  TypeOK
  CodesComparable
  ScanIsSound
  AppendIsStopSafe
PROPERTIES
  ImplementsPort
CHECK_DEADLOCK FALSE
