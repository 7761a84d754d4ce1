CONSTANTS
  Users = {alice}
  Groups = {g1, g2, g3}
  EVERYONE = everyone
  PolicyLists <- Lists
  Texts <- ShortTexts
  Configs <- Chunkings
  Tasks = {t1, t2}
  gdrive = gdrive
  Connectors = {gdrive, other}
  NoSecret = NoSecret
  ch1 = ch1
  ch2 = ch2
  blank = blank
  left_ = left_
  inner = inner
  right_ = right_
  Alphabet = {ch1, ch2, blank, left_, inner, right_}
  Secrets <- Headers
  Messages <- Lines
  REDACTED <- Word
  MaxScopes = 2
  MaxLines = 1
  Names = {docs, wiki}
  Threads = {w1, w2}
  MaxChanges = 3
  MaxFaults = 2
  Depth = 2
  Unusable = unusable
  NotJson = not_json
  NotUtf8 = not_utf8
  Missing = missing
  Sidecars <- Contents
  DriveLists <- Shares
  MaxEdits = 3
SPECIFICATION MCSpec
INVARIANTS
  ReturnsClosure
  PermittedRowsAdmit
  PoliciesRoundTrip
  SpansCover
  SpansAdvance
  TokensStayInScope
  NoTokenInLogs
  NoRestInLogs
  RestartFindsPromised
  PolicyWasInForce
PROPERTIES
  IterationsRunOut
  Terminates
CHECK_DEADLOCK FALSE
