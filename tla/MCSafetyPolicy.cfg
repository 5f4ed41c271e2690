CONSTANTS
  LeaseTimeout = 2
  U64Max = 5
  U32Max = 2
  FanPercents <- MCFanPercents
  ConfiguredStages <- AllStages
SPECIFICATION Spec
INVARIANTS
  TypeOK
  FaultCoherent
  ControlledOrSafe
  PowerOrdered
  TripAlwaysLatched
  LeaseBounded
  StatusHonest
  ExpiryErrorUnreachable
PROPERTIES
  FaultSticky
  ExpiredLeaseIsDead
  RefusalIsInert
