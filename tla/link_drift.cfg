SPECIFICATION LinkSpec
CONSTANTS
  u1 = u1
  none = none
  Dest <- Peer
  Unicast <- Peer
  NoDest <- none
  Kinds <- Single
  MaxItems = 1
  MaxPbufs = 5
  MaxRetries = 10
  OldAge = 300
  SeqMod = 2
  FreedIntact = TRUE
  MaxSends = 1
  Source = Source
  Offset <- Offsets
  NoKey = NoKey
  QueSize = 2
  MaxAge = 11
  ReassMaxAge = 21
  ReassMaxPbufs = 4
  Disturbances <- Reliable
  Interval = 10
  Jitter = 4
  NoFrame = NoFrame
INVARIANTS
  DuplicatesRemoved
