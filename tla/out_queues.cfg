SPECIFICATION Spec
CONSTANTS
  u1 = u1
  u2 = u2
  bc = bc
  none = none
  Dest <- PeersAndBroadcast
  Unicast <- Peers
  NoDest <- none
  Kinds <- Mixed
  MaxItems = 1
  MaxPbufs = 4
  MaxRetries = 2
  OldAge = 3
  SeqMod = 2
  FreedIntact = FALSE
  MaxSends = 3
INVARIANTS
  TypeOK
  CurrOnList
  OneQueuePerDest
  QueueBounds
  NoDanglingPbuf
  InOrder
PROPERTIES
  AckReleasesTransmitted
