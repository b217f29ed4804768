SPECIFICATION Spec
CONSTANTS
  u1 = u1
  u2 = u2
  Src <- OneSource
  Shapes <- Lengths
  Disturbances <- Undisturbed
  MaxAge = 2
  MaxPbufs = 9
  MaxDatagrams = 4
  MaxDeliveries = 2
INVARIANTS
  Reassembled
