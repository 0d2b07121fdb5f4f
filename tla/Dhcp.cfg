SPECIFICATION FairSpec
CONSTANTS
  Clients = {"c1", "c2"}
  Servers = {"s1", "s2"}
  Segs = {"A", "B"}
  Addrs <- ThreeAddrs
  Pool <- TwoPools
  Layouts <- OneOrTwoSegments
  None = None
  MaxEdits = 2
  Home = "A"
  Created <- TwoClients
INVARIANTS TypeOK PromisedOnce AddressIsLeased
PROPERTY Settles
CHECK_DEADLOCK FALSE
