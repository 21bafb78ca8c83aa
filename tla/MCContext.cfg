SPECIFICATION Spec
CONSTANTS
  MaxTasks = 2
  Values = {1}
  MAX_ISR80H_COMMANDS = 9
  CommandIds <- MCCommandIds
  Irqs = {timer, keyboard}
  Keyboard = keyboard
INVARIANTS
  TypeOK
  RightTables
  ResumesAsLeft
  SyscallAnswers
PROPERTIES
  InterruptIsTransparent
  InterruptsAreServed
