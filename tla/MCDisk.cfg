\* Everything may fail, and the program is killed once.
SPECIFICATION FairSpec
CONSTANTS
  TotalLen = 4
  PieceLen = 3
  NumPieces = 2
  BLOCK_SIZE = 1
  FileLen <- MCFileLen
  FileStart <- MCFileStart
  Faults = {"open", "hash", "seek", "write", "save", "crash"}
  MaxRestarts = 1
CHECK_DEADLOCK FALSE
INVARIANTS TypeOK BytesInPlace StaysInFiles VerifiedIsStored
PROPERTIES ImplementsVerifier EveryPieceAnswered
