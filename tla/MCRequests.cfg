\* Two seeds, three blocks in two pieces; requests time out, peers say Have of any piece, come and go.
SPECIFICATION Spec
CONSTANTS
  a1 = a1
  a2 = a2
  s1 = s1
  s2 = s2
  TotalLen = 3
  PieceLen = 2
  NumPieces = 2
  BLOCK_SIZE = 1
  Addr = {a1, a2}
  Slot = {s1, s2}
  MAX_IN_FLIGHT = 2
  PEER_CHANNEL = 1
  Tracked = {a1, a2}
  Incoming = {a1, a2}
  Resumed = {}
  Bitfields <- Seed
  Chatter = {"Bitfield", "Unchoke", "Have", "NotInterested"}
  Strays = {}
  Faults = {"timeout", "disconnect", "connect", "handshake"}
  MaxAsked = 2
  MaxLate = 0
SYMMETRY Symmetry
CHECK_DEADLOCK FALSE
INVARIANTS TypeOK InFlightBound NoOrphanedRequest AskedOnce InFlightIsOwed KnownPeer AddressesHeldOnce OneDisconnectPerSlot DataHasBuffer
PROPERTIES PanicsExplained
