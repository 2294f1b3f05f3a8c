SPECIFICATION Spec
CONSTANTS
  Providers <- MCBoth
  Requests <- MCRequests
  Calls <- MCCalls
  MaxEvents = 10
INVARIANTS TypeOK FinishIsWhole FinishIsLast RequestIsFaithful
CHECK_DEADLOCK FALSE
