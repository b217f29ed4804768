SPECIFICATION Spec
CONSTANTS
  Lengths <- UpToThe255th
  Mtu = 124
  HdrLen = 24
  MaxPbufs = 21
INVARIANTS
  TypeOK
  CoversData
  HeadersMatch
  NothingLeft
