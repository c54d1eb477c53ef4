\* Messages behind each other, the cap and a crash.
CONSTANTS
  code = code
  b1 = b1
  b2 = b2
  goodbye = goodbye
  w1 = w1
  w2 = w2
  Codes <- NoCodes
  Bulk <- TwoBulk
  Goodbye = goodbye
  Unknown <- OnlyGoodbye
  Workers <- OneWorker
  Batch = 1
  Cap = 1
  MaxAttempts = 2
  MaxBackoff = 1
  Stale = 2
  Hour = 1
  BatchLimit = 1
  MaxFailures = 1
  MaxRequeues = 0
SPECIFICATION FairSpec
CHECK_DEADLOCK FALSE
 
PROPERTIES EventuallySettled
