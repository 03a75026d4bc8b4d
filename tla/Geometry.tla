------------------------------ MODULE Geometry ------------------------------
(***************************************************************************)
(* How a torrent of TotalLen bytes is cut into pieces of PieceLen bytes    *)
(* and every piece into blocks of BLOCK_SIZE bytes, the unit one peer      *)
(* request asks for.  Pure arithmetic of scheduler.rs; pieces and blocks   *)
(* are numbered from 0 as in the code.                                     *)
(***************************************************************************)
EXTENDS Integers

CONSTANTS
  TotalLen,     \* Torrent.total_length, in bytes
  PieceLen,     \* Info.piece_length, in bytes
  NumPieces,    \* number of piece hashes in the .torrent file
  BLOCK_SIZE    \* 16384 in the code

(***************************************************************************)
(* A well-formed .torrent: the hashes cover the content exactly, only the  *)
(* last piece may be short, and it is not empty.  parse_torrent checks     *)
(* none of this.                                                           *)
(***************************************************************************)
ASSUME GeometryAssumption ==
  /\ TotalLen \in Nat /\ PieceLen \in Nat \ {0}
  /\ NumPieces \in Nat \ {0} /\ BLOCK_SIZE \in Nat \ {0}
  /\ PieceLen * (NumPieces - 1) < TotalLen
  /\ TotalLen <= PieceLen * NumPieces

Piece == 0 .. NumPieces - 1

PieceLenForIndex(p) ==
  IF p < NumPieces - 1 THEN PieceLen ELSE TotalLen - PieceLen * (NumPieces - 1)

NumBlocks(p) == (PieceLenForIndex(p) + (BLOCK_SIZE - 1)) \div BLOCK_SIZE

Block(p) == 0 .. NumBlocks(p) - 1

\* The (piece, block) pairs; BlockRequest's offset is block * BLOCK_SIZE.
Request == UNION {{p} \X Block(p) : p \in Piece}

\* The len field of a BlockRequest: whole blocks, and what is left at the end.
RequestLen(p, b) ==
  LET left == PieceLenForIndex(p) - b * BLOCK_SIZE
  IN  IF BLOCK_SIZE < left THEN BLOCK_SIZE ELSE left

\* The order in which push_blocks meets the blocks: by piece, then by block.
Before(r, q) == r[1] < q[1] \/ (r[1] = q[1] /\ r[2] < q[2])
=============================================================================
