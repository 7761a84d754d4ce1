CONSTANTS
  Users = {alice}
  Groups = {eng, contractors}
  EVERYONE = everyone
  alice = alice
  eng = eng
  contractors = contractors
  open = open
  team = team
  blank = blank
  Docs = {a, b}
  Versions = {open, team, blank}
  None = None
  PolicyOf <- Access
  Length <- Chunked
  Callers <- PermissionsTried
  Ks = {1, 2}
  Multiplier = 1
  Modes = {"serial", "leaky"}
  Stores = {"memory", "postgres"}
  MaxIngested <- Puts
  MaxCalls <- Tries
SPECIFICATION Spec
INVARIANTS
  TypeOK
  StoreIsWhole
  TextWasReadable
  EmptySetAsksNothing
  ScansPermittedRows
  
  
CHECK_DEADLOCK FALSE
