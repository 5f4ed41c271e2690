CONSTANTS
  SystemClock = 25
  Baudrate = 1
  SenderDividers <- MCSenderDividers
  Phases <- MCPhases
  Words <- MCWords
  SentCap = 2
  IdleCap = 3
SPECIFICATION Spec
INVARIANTS
  WordsArrive
  DeadLineSilent
