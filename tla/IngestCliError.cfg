CONSTANTS
  wide = wide
  private = private
  long = long
  blank = blank
  a = a
  b = b
  bad = bad
  Docs = {a, b}
  Malformed = {}
  Versions = {wide}
  Revisions <- Every
  None = None
  MaxSpans = 2
  SpanCount <- Spans
  Fingerprint <- Injective
  AsNobody <- Nobody
  EmbedBatch = 1
  Sites <- Cli
  Faults = {"embed"}
  MaxUpsets = 1
SPECIFICATION Spec
INVARIANTS
  StoredHasRows
CHECK_DEADLOCK FALSE
