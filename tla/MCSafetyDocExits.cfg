CONSTANTS
  LeaseTimeout = 2
  U64Max = 5
  U32Max = 2
  FanPercents <- MCFanPercents
  ConfiguredStages <- FirmwareStage
SPECIFICATION Spec
PROPERTIES
  DocumentedControlledExits
