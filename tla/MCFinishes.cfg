\* One seed that may choke us at any time, drop what it was asked, and answer after the timeout.
SPECIFICATION FairSpec
CONSTANTS
  a1 = a1
  a2 = a2
  s1 = s1
  s2 = s2
  TotalLen = 3
  PieceLen = 2
  NumPieces = 2
  BLOCK_SIZE = 1
  Addr = {a1}
  Slot = {s1}
  MAX_IN_FLIGHT = 2
  PEER_CHANNEL = 2
  Tracked = {a1}
  Incoming = {}
  Resumed = {}
  Bitfields <- Seed
  Chatter = {"Bitfield", "Unchoke", "Choke", "Interested"}
  Strays = {}
  Faults = {"timeout"}
  MaxAsked = 2
  MaxLate = 0
CHECK_DEADLOCK FALSE
PROPERTIES Finishes OnlyIdlenessStalls
