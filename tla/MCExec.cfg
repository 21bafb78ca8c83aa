SPECIFICATION Spec
CONSTANTS
  PAGING_PAGE_SIZE = 12
  PAGING_TABLE_ENTRIES = 12
  PAGING_DIR_ENTRIES = 5
  Programs <- MCPrograms
  Shell <- MCShell
  Missing <- MCMissing
  HeapPages = {5, 6}
  ArgLists <- MCArgLists
  MAX_FILE_PATH_CHARS = 4
  MAX_CMMD_ARG_LEN = 3
  MAX_NUM_ARGS = 2
  TASK_STACK_VIRT_ADDR = 36
  TASK_STACK_SIZE = 24
  TASK_LOAD_VIRTUAL_ADDRESS = 36
  COMMAND_LINE_ARG_VIRTUAL_ADDR = 360
  MaxTasks = 3
  MaxMallocs = 1
  HeapLimit = 32
INVARIANTS
  TypeOK
  MainSeesArgs
  WritesOwnPages
  ProgramIsInPlace
PROPERTIES
  CallKeepsTables
CHECK_DEADLOCK FALSE
