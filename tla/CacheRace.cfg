CONSTANTS
  eng = eng
  staff = staff
  Users = {alice}
  Groups = {eng}
  EVERYONE = everyone
  Keys <- Direct
  Nesting <- Flat
  TTL = 2
  MaxTime = 1
  Threads = {t1, t2}
  MaxEntries = 1
  Hooks = {"invalidate"}
SPECIFICATION Spec
INVARIANTS
  ServedWithinTruth
CHECK_DEADLOCK FALSE
