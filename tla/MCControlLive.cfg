CONSTANTS
  LeaseTimeout = 2
  U64Max = 2
  U32Max = 2
  FanPercents <- MCFanPercents
  ReadTime = 1
  WriteTime = 1
  HandlerTime = 1
  ServiceInterval = 1
  TachTime = 2
  WatchdogTimeout = 3
  MayStall = TRUE
SPECIFICATION LiveSpec
PROPERTIES
  FailClosed
  TripStopsPower
  CommandAnswered
