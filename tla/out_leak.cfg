SPECIFICATION Spec
CONSTANTS
  u1 = u1
  u2 = u2
  bc = bc
  none = none
  Dest <- OnePeer
  Unicast <- OnePeer
  NoDest <- none
  Kinds <- Fragmented
  MaxItems = 1
  MaxPbufs = 4
  MaxRetries = 2
  OldAge = 9
  SeqMod = 4
  FreedIntact = TRUE
  MaxSends = 2
INVARIANTS
  NoLeak
