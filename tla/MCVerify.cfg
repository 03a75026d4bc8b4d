\* Two seeds and one piece of two blocks, in the savefile too, that may fail verification again and
\* again; peers send blocks and parts of blocks that nobody asked for.
SPECIFICATION Spec
CONSTANTS
  a1 = a1
  a2 = a2
  s1 = s1
  s2 = s2
  TotalLen = 2
  PieceLen = 2
  NumPieces = 1
  BLOCK_SIZE = 1
  Addr = {a1, a2}
  Slot = {s1, s2}
  MAX_IN_FLIGHT = 2
  PEER_CHANNEL = 1
  Tracked = {}
  Incoming = {a1, a2}
  Resumed = {0}
  Bitfields <- Seed
  Chatter = {"Bitfield", "Unchoke"}
  Strays <- Short
  Faults = {"timeout", "disconnect", "verify", "abort", "stray"}
  MaxAsked = 2
  MaxLate = 1
SYMMETRY Symmetry
CHECK_DEADLOCK FALSE
INVARIANTS OneDisconnectPerSlot VerifyOnce WholePieceToDisk
PROPERTIES DoneIsFinal ImplementsDownload
