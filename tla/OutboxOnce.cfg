\* Two workers that may crash, lose answers and race staff and the deletion.
CONSTANTS
  code = code
  b1 = b1
  b2 = b2
  goodbye = goodbye
  w1 = w1
  w2 = w2
  Codes <- OneCode
  Bulk <- NoBulk
  Goodbye = goodbye
  Unknown <- NoCodes
  Workers <- TwoWorkers
  Batch = 2
  Cap = 1
  MaxAttempts = 3
  MaxBackoff = 1
  Stale = 2
  Hour = 1
  BatchLimit = 1
  MaxFailures = 1
  MaxRequeues = 1
SPECIFICATION Spec
CHECK_DEADLOCK FALSE
SYMMETRY AlikeWorkers
INVARIANTS TypeOK SentOnce NoSecretKept
