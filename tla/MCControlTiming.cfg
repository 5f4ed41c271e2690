CONSTANTS
  LeaseTimeout = 4
  U64Max = 4
  U32Max = 4
  FanPercents <- MCFanPercents
  ReadTime = 1
  WriteTime = 3
  HandlerTime = 1
  ServiceInterval = 2
  TachTime = 5
  WatchdogTimeout = 6
  MayStall = FALSE
SPECIFICATION Spec
INVARIANTS
  NeverStarved
  PromptOff
  PromptTrip
