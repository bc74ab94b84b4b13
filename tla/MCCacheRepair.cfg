CONSTANTS
  MaxCalls = 4
CHECK_DEADLOCK FALSE
SPECIFICATION Spec
INVARIANTS TypeOK OriginalIsKept HelperIsAlone EndsInOrder
