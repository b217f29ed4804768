SPECIFICATION FairLinkSpec
CONSTANTS
  u1 = u1
  none = none
  Dest <- Peer
  Unicast <- Peer
  NoDest <- none
  Kinds <- Mixed
  MaxItems = 1
  MaxPbufs = 5
  MaxRetries = 2
  OldAge = 5
  SeqMod = 2
  FreedIntact = TRUE
  MaxSends = 2
  Source = Source
  Offset <- Offsets
  NoKey = NoKey
  QueSize = 4
  MaxAge = 3
  ReassMaxAge = 6
  ReassMaxPbufs = 4
  Disturbances <- Reliable
  Interval = 2
  Jitter = 1
  NoFrame = NoFrame
PROPERTIES
  ImplementsService
  AckMeansReceived
  SoundUnlessGivenUp
  ComesToRest
CHECK_DEADLOCK FALSE
