CONSTANTS
  wide = wide
  private = private
  long = long
  blank = blank
  a = a
  b = b
  bad = bad
  Docs = {a}
  Malformed = {}
  Versions = {wide}
  Revisions <- Every
  None = None
  MaxSpans = 2
  SpanCount <- Spans
  Fingerprint <- Injective
  AsNobody <- Nobody
  EmbedBatch = 1
  Sites <- Server
  Faults = {"embed"}
  MaxUpsets = 1
SPECIFICATION Spec
INVARIANTS
  RowsAreStored
CHECK_DEADLOCK FALSE
