SPECIFICATION Spec
CONSTANTS
  Providers <- MCOpenAI
  Requests <- MCSimpleRequests
  Calls <- MCCalls
  MaxEvents = 4
INVARIANTS UsageIsReported
CHECK_DEADLOCK FALSE
