\* Four requests of any kind on one session: two starts, an autosave and a
\* submit, or a start, an autosave and two rival submits.
SPECIFICATION FairSpec
CONSTANTS
  Requests = {r1, r2, r3, r4}
  Questions = {q1}
  Answers = {a}
  NoAnswer = NoAnswer
  None = None
  StartAt = 1
  CloseAt = 2
  LastTick = 2
INVARIANTS RecordMatchesChain AckedAnswersCommitted KeyStaysSealed GoneOnlyByExpiry
PROPERTIES ImplementsLedger SubmitCompletes
\* Every request is sent at most once, so the instance comes to rest.
CHECK_DEADLOCK FALSE
