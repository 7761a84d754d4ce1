CONSTANTS
  eng = eng
  staff = staff
  Users = {alice, bob, carol}
  Groups = {}
  EVERYONE = everyone
  Keys <- Direct
  Nesting <- Flat
  TTL = 1
  MaxTime = 1
  Threads = {t1, t2}
  MaxEntries = 2
  Hooks = {"invalidate"}
SPECIFICATION Spec
INVARIANT
  SizeBounded
CHECK_DEADLOCK FALSE
