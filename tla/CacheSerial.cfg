CONSTANTS
  eng = eng
  staff = staff
  Users = {alice}
  Groups = {eng, staff}
  EVERYONE = everyone
  Keys <- Forwarded
  Nesting <- EngInStaff
  TTL = 1
  MaxTime = 1
  Threads = {t1}
  MaxEntries = 2
  Hooks = {"invalidate", "invalidate_group", "invalidate_all"}
SPECIFICATION FairSpec
INVARIANTS
  ServedExactly
  NeverRaises
PROPERTIES
  CallsEnd
CHECK_DEADLOCK FALSE
