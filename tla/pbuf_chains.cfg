SPECIFICATION Spec
CONSTANTS
  p1 = p1
  p2 = p2
  p3 = p3
  Pbuf <- Three
  Null = Null
  Offsets <- MacAndRaw
  Lens <- ShortAndLong
  Hdrs <- OneHdr
  Alignment = 2
  WordMod = 9
  MaxHeld = 2
INVARIANTS
  TypeOK
  NothingDangles
  RefsCounted
  NoLeak
  InBounds
  RoundTrip
  DechainTells
SYMMETRY AnyOrder
