SPECIFICATION Spec
CONSTANTS
  Procs = {p1, p2}
  KEYBOARD_BUFFER_SIZE = 3
  BYTE = 16
  KEY_RELEASED_BIT = 8
  EINVARG = 2
  ScanSetSize = 3
  ScanSet <- TwoKeys
  MaxUnread = 3
INVARIANTS
  BufferHoldsUnread
PROPERTY
  KeyQueueSpec
