SPECIFICATION Spec
CONSTANTS
  u1 = u1
  u2 = u2
  Src <- TwoSources
  Shapes <- Short
  Disturbances <- Undisturbed
  MaxAge = 2
  MaxPbufs = 5
  MaxDatagrams = 1
  MaxDeliveries = 2
INVARIANTS
  NoDangling
