SPECIFICATION FairSpec
CONSTANTS
  u1 = u1
  u2 = u2
  bc = bc
  none = none
  Dest <- PeerAndBroadcast
  Unicast <- OnePeer
  NoDest <- none
  Kinds <- Singles
  MaxItems = 2
  MaxPbufs = 3
  MaxRetries = 2
  OldAge = 13
  SeqMod = 4
  FreedIntact = TRUE
  MaxSends = 3
INVARIANTS
  PacketsCounted
  NoLeak
  DrainedBeforeOld
  AttemptsTogether
PROPERTIES
  Quiesces
