CONSTANTS
  wide = wide
  private = private
  long = long
  blank = blank
  a = a
  b = b
  bad = bad
  Docs = {a, b, bad}
  Malformed = {bad}
  Versions = {wide, private, long, blank}
  Revisions <- Few
  None = None
  MaxSpans = 2
  SpanCount <- Spans
  Fingerprint <- Injective
  AsNobody <- Nobody
  EmbedBatch = 2
  Sites <- ServerOrCli
  Faults = {"acl", "fetch", "repeat", "source", "put", "embed", "delete", "flush", "crash"}
  MaxUpsets = 3
SPECIFICATION FairSpec
INVARIANTS
  TypeOK
  StoredIsIndexed
  NoOrphanRows
  StoredIsLatest
PROPERTIES
  Converges
CHECK_DEADLOCK FALSE
