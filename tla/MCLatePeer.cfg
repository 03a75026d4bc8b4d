\* A reader that is aborted while it sends an event.
SPECIFICATION Spec
CONSTANTS
  a1 = a1
  a2 = a2
  s1 = s1
  s2 = s2
  TotalLen = 1
  PieceLen = 1
  NumPieces = 1
  BLOCK_SIZE = 1
  Addr = {a1}
  Slot = {s1}
  MAX_IN_FLIGHT = 2
  PEER_CHANNEL = 2
  Tracked = {a1}
  Incoming = {}
  Resumed = {}
  Bitfields <- Seed
  Chatter = {"Bitfield", "Unchoke"}
  Strays = {}
  Faults = {"abort"}
  MaxAsked = 2
  MaxLate = 1
CHECK_DEADLOCK FALSE
INVARIANTS KnownPeer
