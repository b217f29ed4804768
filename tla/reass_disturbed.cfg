SPECIFICATION Spec
CONSTANTS
  u1 = u1
  u2 = u2
  Src <- TwoSources
  Shapes <- Lengths
  Disturbances <- Disturbed
  MaxAge = 2
  MaxPbufs = 3
  MaxDatagrams = 2
  MaxDeliveries = 2
INVARIANTS
  TypeOK
  NoLeak
  CountMatches
  OneEntryPerDatagram
  Gapless
  DeliveredWhole
CHECK_DEADLOCK FALSE
