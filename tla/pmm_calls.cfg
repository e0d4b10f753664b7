SPECIFICATION Spec
CONSTANTS
  ByteNumber = 16
  Meta = 2
  ReqSizes = {1, 2, 3}
INVARIANTS TypeOK
PROPERTIES LinksKeepBlocks
CHECK_DEADLOCK FALSE
CONSTRAINT Followed
