CONSTANTS
  Users = {alice}
  Groups = {eng, contractors}
  EVERYONE = everyone
  alice = alice
  eng = eng
  contractors = contractors
  open = open
  team = team
  blank = blank
  Docs = {a, b}
  Versions = {open, team, blank}
  None = None
  PolicyOf <- Access
  Length <- Chunked
  Callers <- PermissionsTried
  Ks = {2}
  Multiplier = 1
  Modes = {"threads"}
  Stores = {"memory"}
  MaxIngested <- Puts
  MaxCalls <- Tries
SPECIFICATION Spec
INVARIANT ScansPermittedRows
CHECK_DEADLOCK FALSE
