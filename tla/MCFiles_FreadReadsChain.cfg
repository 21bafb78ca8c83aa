SPECIFICATION Spec
CONSTANTS
  DISK_SECTOR_SIZE = 3
  Blank = Blank
  NULL = NULL
  MAX_FILE_PATH_CHARS = 9
  MAX_OPEN_FILES = 2
  Volumes <- MCVolumes
  Paths <- MCPaths
  Modes = {"r", "w", "x"}
  Sizes = {0, 1, 2, 4, 7}
  Counts = {0, 1, 2}
  Offsets = {0, 2, 7}
  Whences = {"SEEK_SET", "SEEK_CUR", "SEEK_END", "none"}
  MaxPos = 7
INVARIANTS
  FreadReadsChain
CHECK_DEADLOCK FALSE
