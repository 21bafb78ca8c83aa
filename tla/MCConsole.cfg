SPECIFICATION ConsoleSpec
CONSTANTS
  Shell = shell
  Child = child
  Procs = {shell, child}
  KEYBOARD_BUFFER_SIZE = 3
  BYTE = 256
  KEY_RELEASED_BIT = 128
  EINVARG = 2
  ScanSetSize = 5
  ScanSet <- MCScanSet
  MaxUnread = 2
  VGA_WIDTH = 5
  FrameRows = 3
  UINT16 = 64
  INT = 64
  LineMax = 3
  TokenMax = 3
  PathPrefix <- MCPathPrefix
  Banner <- MCBanner
  Echo <- MCEcho
  Count <- MCCount
  Numbers <- MCNumbers
  ScanCodes = {1, 2, 3, 4}
  MaxKeys = 5
INVARIANTS
  ConsoleTypeOK
  LineIsEdited
  TokensSplitLine
  ScreenShowsLine
  ItoaIsDecimal
PROPERTIES
  EnterEndsLine
