SPECIFICATION Spec
CONSTANTS
  Requests = {q1, q2, q3}
INVARIANTS
  PendingIsOutstanding
  SenderIsKept
PROPERTIES
  RequestsEnd
CHECK_DEADLOCK FALSE
