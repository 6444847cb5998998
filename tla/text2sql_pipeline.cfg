SPECIFICATION Spec
CONSTANTS
  t = t
  u = u
  q = q
  Tables = {t, u, q}
  Unquotable = {q}
  Answers <- GeneratedAnswers
  Scripts <- CallersScripts
  Given <- SchemaInfo
  NoSchemaInfo = NoSchemaInfo
  Malformed = Malformed
  Limits <- LimitOptions
  AuditEnabled = TRUE
  TraceEnabled = TRUE
  MaxRequests = 2
INVARIANTS TypeOK StandTogether PromptIsReliable QueriesSurviveExtraction
\* Clients stop after MaxRequests requests.
CHECK_DEADLOCK FALSE
