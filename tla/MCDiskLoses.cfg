\* A write may fail.
SPECIFICATION FairSpec
CONSTANTS
  TotalLen = 4
  PieceLen = 3
  NumPieces = 2
  BLOCK_SIZE = 1
  FileLen <- MCFileLen
  FileStart <- MCFileStart
  Faults = {"write"}
  MaxRestarts = 0
CHECK_DEADLOCK FALSE
PROPERTY LostPieceIsRetried
