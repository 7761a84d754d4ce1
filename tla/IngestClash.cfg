CONSTANTS
  wide = wide
  private = private
  long = long
  blank = blank
  a = a
  b = b
  bad = bad
  Docs = {a}
  Malformed = {}
  Versions <- Rewritten
  Revisions <- Every
  None = None
  MaxSpans = 1
  SpanCount <- OneSpan
  Fingerprint <- Encoded
  AsNobody <- Withheld
  EmbedBatch = 1
  Sites <- Server
  Faults = {"acl"}
  MaxUpsets = 2
SPECIFICATION Spec
INVARIANTS
  StoredIsLatest
CHECK_DEADLOCK FALSE
