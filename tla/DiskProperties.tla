--------------------------- MODULE DiskProperties ---------------------------
(***************************************************************************)
(* What the disk task of one torrent promises.                             *)
(***************************************************************************)
EXTENDS Disk

Verdict == {"PieceHashedAndWritten", "Failed"}

ByteType == [file : File, pos : Nat, byte : Nat]

ResponseType ==
  [type : {"CompletedPieces"}, bits : SUBSET Piece] \cup [type : Verdict, piece : Piece]

TaskType ==
  /\ pc \in {"opening", "ready", "seek", "write", "save", "panicked", "unopened", "dead"}
  /\ output_files \in Seq([len : Nat, offset : Nat])
  /\ piece \in Piece /\ idx \in Nat /\ piece_offset \in Nat /\ remaining \in Nat
  /\ err \subseteq File /\ save_err \in BOOLEAN

FilesType ==
  /\ content \subseteq ByteType /\ flight \subseteq ByteType
  /\ savefile \in Seq(Piece) /\ save_flight \in Seq(Piece)
  /\ lost \subseteq Nat

\* Every variable has the shape the Rust types give it; in particular the differences
\* of u64 in the write loop are never negative.
TypeOK ==
  /\ TaskType
  /\ FilesType
  /\ disk_rx \in Seq(Piece) /\ disk_tx \in Seq(ResponseType)
  /\ have \subseteq Piece /\ verified \subseteq Piece /\ restarts \in 0 .. MaxRestarts

-----------------------------------------------------------------------------
\* A byte is only ever written where it belongs: byte FileStart[k] + j of the torrent
\* at position j of file k, and no file grows (the loop of Disk::write, over files of
\* any length and empty ones, through failed writes and crashes).
BytesInPlace ==
  \A c \in content \cup flight :
    c.byte = FileStart[c.file] + c.pos /\ c.pos < FileLen[c.file]

\* The loop of Disk::write never runs past the last file and never subtracts more than
\* a file's length: get_mut(idx).unwrap() and file.len - file_offset do not panic.
StaysInFiles == pc # "panicked"

StoredBytes == Bytes(content \cup flight)

Accounted == StoredBytes \cup lost

Stored(p) == PieceBytes(p) \subseteq StoredBytes

\* Every byte of a piece that was ever confirmed is in its file or on its way there,
\* unless a failed write or a kill has taken it: through all the files the piece goes to,
\* write sends PieceHashedAndWritten only when no chunk of it has been left out.
VerifiedIsStored == \A p \in verified : PieceBytes(p) \subseteq Accounted

-----------------------------------------------------------------------------
\* The savefile's pieces are announced first, and were all confirmed at some time; then
\* every piece gets one verdict, in the order of submission.
Verifier == INSTANCE Verifier WITH
  disk <- IF pc \in {"opening", "unopened"} THEN "starting" ELSE "ready",
  rx <- IF Writing THEN <<piece>> \o disk_rx ELSE disk_rx,
  tx <- disk_tx

\* The disk task, with its files and through crashes and restarts, implements Verifier.
ImplementsVerifier == Verifier!Spec

-----------------------------------------------------------------------------
WithDisk(p) == (Writing /\ piece = p) \/ \E i \in DOMAIN disk_rx : disk_rx[i] = p

Answered(p) ==
  \E i \in DOMAIN disk_tx : disk_tx[i].type \in Verdict /\ disk_tx[i].piece = p

\* Every piece handed to the disk task gets its verdict, whatever hashes, seeks and writes
\* do (try_hash_and_write answers on each of its paths), unless the task has died of the
\* savefile's expect or the program is killed.
EveryPieceAnswered == \A p \in Piece : WithDisk(p) ~> (Answered(p) \/ Gone \/ pc = "opening")

\* "Retry anyway, either a hash or write failure" (scheduler.rs:535): the scheduler takes
\* no piece for complete for ever whose bytes a failed write has lost.
LostPieceIsRetried == \A p \in Piece : (p \in have /\ ~Stored(p)) ~> (p \notin have \/ Stored(p))
=============================================================================
