SPECIFICATION Spec
CONSTANTS
  c1 = c1
  c2 = c2
  c3 = c3
  a1 = a1
  a2 = a2
  a3 = a3
  Card <- Three
  Addr <- Addresses
  hwaddr <- SharedAddress
  Null = Null
  NumMod = 3
  MaxAdds = 5
  MaxQueue = 2
INVARIANTS
  NumbersDistinct
  SentByAcceptor
