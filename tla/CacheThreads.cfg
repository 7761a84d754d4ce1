CONSTANTS
  eng = eng
  staff = staff
  Users = {alice}
  Groups = {eng}
  EVERYONE = everyone
  Keys <- Direct
  Nesting <- Flat
  TTL = 1
  MaxTime = 2
  Threads = {t1, t2}
  MaxEntries = 1
  Hooks = {"invalidate", "invalidate_group", "invalidate_all", "restrict"}
SPECIFICATION Spec
INVARIANTS
  ServedWithinTTL
  TTLInvariant
PROPERTIES
  ImplementsService
CHECK_DEADLOCK FALSE
