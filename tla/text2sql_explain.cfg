SPECIFICATION Spec
CONSTANTS
  t = t
  u = u
  q = q
  Tables = {t, u, q}
  Unquotable = {q}
  Answers <- OneQuery
  Scripts <- OneQuery
  Given <- SchemaInfo
  NoSchemaInfo = NoSchemaInfo
  Malformed = Malformed
  Limits <- LimitOptions
  AuditEnabled = TRUE
  TraceEnabled = TRUE
  MaxRequests = 1
INVARIANTS ExplainCaptured
\* Clients stop after MaxRequests requests.
CHECK_DEADLOCK FALSE
