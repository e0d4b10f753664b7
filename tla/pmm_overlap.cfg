SPECIFICATION Spec
CONSTANTS
  ByteNumber = 9
  Meta = 1
  ReqSizes = {1, 2, 3}
INVARIANTS BlocksReserved
CHECK_DEADLOCK FALSE
