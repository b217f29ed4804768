SPECIFICATION FairSpec
CONSTANTS
  u1 = u1
  u2 = u2
  NoKey = NoKey
  Addr <- TwoSources
  SeqNums <- Seqs
  Offset <- Offsets
  QueSize = 3
  MaxAge = 3
INVARIANTS
  TypeOK
  OneSlotPerFrame
PROPERTIES
  ImplementsWindow
  RoomAgain
