\* Two seeds; the one that was asked for everything leaves.
SPECIFICATION FairSpec
CONSTANTS
  a1 = a1
  a2 = a2
  s1 = s1
  s2 = s2
  TotalLen = 1
  PieceLen = 1
  NumPieces = 1
  BLOCK_SIZE = 1
  Addr = {a1, a2}
  Slot = {s1, s2}
  MAX_IN_FLIGHT = 2
  PEER_CHANNEL = 1
  Tracked = {}
  Incoming = {a1, a2}
  Resumed = {}
  Bitfields <- Seed
  Chatter = {"Bitfield", "Unchoke"}
  Strays = {}
  Faults = {"disconnect"}
  MaxAsked = 2
  MaxLate = 0
CHECK_DEADLOCK FALSE
PROPERTY IdlePeersAreAsked
