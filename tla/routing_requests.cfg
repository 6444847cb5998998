SPECIFICATION FairSpec
CONSTANTS
  a = a
  b = b
  c = c
  Instances = {a, b, c}
  NoInstance = NoInstance
  Unset = Unset
  Malformed = Malformed
  MaxLevel = 3
  RawLevel = 2
  Workloads <- Everything
INVARIANTS TypeOK BestAnswerSelected LowAnswersFallBack AnswersUnmixed LogsMatchAnswers
PROPERTIES EveryRequestEnds
\* Clients stop after the count of their workload.
CHECK_DEADLOCK FALSE
