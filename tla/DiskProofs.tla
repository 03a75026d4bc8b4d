----------------------------- MODULE DiskProofs -----------------------------
(***************************************************************************)
(* The disk task writes every byte where it belongs, whatever the lengths  *)
(* of the files and the pieces, and through every fault.                   *)
(***************************************************************************)
EXTENDS DiskProperties, TLAPS

\* The piece lies within the content, and is not empty.
LEMMA PieceFits ==
  ASSUME NEW p \in Piece
  PROVE  /\ PieceStart(p) \in Nat
         /\ PieceLenForIndex(p) \in Nat \ {0}
         /\ PieceStart(p) + PieceLenForIndex(p) <= TotalLen
<1> DEFINE last == NumPieces - 1
<1>1. PieceLen \in Nat /\ last \in Nat /\ TotalLen \in Nat /\ PieceLen * last < TotalLen
  BY GeometryAssumption
<1>2. p \in Nat /\ p <= last
  BY GeometryAssumption DEF Piece
<1>3. PieceStart(p) \in Nat
  BY <1>1, <1>2 DEF PieceStart
<1>4. CASE p = last
  <2>1. PieceStart(p) = PieceLen * last
    BY <1>1, <1>4 DEF PieceStart
  <2>2. PieceLenForIndex(p) = TotalLen - PieceLen * last
    BY <1>4 DEF PieceLenForIndex
  <2> QED
    BY <1>1, <1>3, <2>1, <2>2
<1>5. CASE p < last
  <2>1. PieceLenForIndex(p) = PieceLen
    BY <1>5 DEF PieceLenForIndex
  <2>2. PieceStart(p) + PieceLen = (p + 1) * PieceLen
    BY <1>1, <1>2 DEF PieceStart
  <2>3. (p + 1) * PieceLen <= PieceLen * last
    BY <1>1, <1>2, <1>5
  <2>4. PieceLen # 0
    BY GeometryAssumption
  <2> QED
    BY <1>1, <1>3, <2>1, <2>2, <2>3, <2>4
<1> QED
  BY <1>1, <1>2, <1>4, <1>5

LEMMA FileRange ==
  File = 1 .. Len(FileLen) /\ Len(FileLen) \in Nat /\ 1 \in File
<1>1. FileLen \in Seq(Nat) /\ FileLen # <<>>
  BY DiskAssumption
<1> QED
  BY <1>1 DEF File

\* Where a file ends, the next one begins; the last ends with the content.
LEMMA FileEnd ==
  ASSUME NEW k \in File
  PROVE  /\ FileLen[k] \in Nat /\ FileStart[k] \in Nat
         /\ k + 1 \in File => FileStart[k] + FileLen[k] = FileStart[k + 1]
         /\ k + 1 \notin File => FileStart[k] + FileLen[k] = TotalLen
<1>1. FileLen[k] \in Nat
  <2>1. FileLen \in Seq(Nat)
    BY DiskAssumption
  <2> QED
    BY <2>1 DEF File
<1>2. FileStart[k] \in Nat
  BY DiskAssumption
<1>3. FileStart[k] + FileLen[k] = IF k + 1 \in File THEN FileStart[k + 1] ELSE TotalLen
  BY DiskAssumption
<1> QED
  BY <1>1, <1>2, <1>3

\* The output files are opened in the order of the torrent.
Opened ==
  /\ Len(output_files) <= Len(FileLen)
  /\ \A k \in DOMAIN output_files : output_files[k] = [len |-> FileLen[k], offset |-> FileStart[k]]
  /\ pc \notin {"opening", "unopened"} => Len(output_files) = Len(FileLen)

\* Where the write loop is: within file idx or at its end, with the rest of the piece ahead.
Position ==
  Writing =>
    /\ idx \in File
    /\ remaining \in 1 .. PieceLenForIndex(piece)
    /\ FileStart[idx] <= piece_offset
    /\ piece_offset <= FileStart[idx] + FileLen[idx]
    /\ piece_offset + remaining = PieceStart(piece) + PieceLenForIndex(piece)

Layout == TypeOK /\ Opened /\ BytesInPlace /\ Position /\ StaysInFiles

\* What the loop computes from a good position.
LEMMA LoopArithmetic ==
  ASSUME Layout, Writing
  PROVE  /\ idx \in DOMAIN output_files
         /\ output_files[idx].len = FileLen[idx]
         /\ FileOffset = piece_offset - FileStart[idx]
         /\ FileOffset \in 0 .. FileLen[idx]
         /\ WriteLen \in 0 .. remaining
         /\ FileOffset + WriteLen <= FileLen[idx]
         /\ WriteLen # remaining => FileOffset + WriteLen = FileLen[idx]
<1>1. idx \in File /\ remaining \in Nat /\ piece_offset \in Nat /\ FileStart[idx] <= piece_offset
      /\ piece_offset <= FileStart[idx] + FileLen[idx]
  BY DEF Layout, Position, TypeOK, TaskType
<1>2. Len(output_files) = Len(FileLen) /\ output_files \in Seq([len : Nat, offset : Nat])
  BY DEF Layout, Opened, Writing, TypeOK, TaskType
<1>3. idx \in DOMAIN output_files
  BY <1>1, <1>2, FileRange
<1>4. output_files[idx].len = FileLen[idx] /\ output_files[idx].offset = FileStart[idx]
  BY <1>3 DEF Layout, Opened
<1>5. FileLen[idx] \in Nat /\ FileStart[idx] \in Nat
  BY <1>1, FileEnd
<1>6. FileOffset = piece_offset - FileStart[idx] /\ FileOffset \in 0 .. FileLen[idx]
  BY <1>1, <1>4, <1>5 DEF FileOffset
<1>7. WriteLen = IF remaining < FileLen[idx] - FileOffset THEN remaining ELSE FileLen[idx] - FileOffset
  BY <1>4 DEF WriteLen
<1> QED
  BY <1>1, <1>3, <1>4, <1>5, <1>6, <1>7

-----------------------------------------------------------------------------
(***************************************************************************)
(* Every step keeps Layout.                                                *)
(***************************************************************************)
LEMMA QueueTail ==
  ASSUME NEW S, NEW q \in Seq(S), q # <<>>
  PROVE  Head(q) \in S /\ Tail(q) \in Seq(S)
  OBVIOUS

LEMMA QueueAppend ==
  ASSUME NEW S, NEW q \in Seq(S), NEW e \in S
  PROVE  Append(q, e) \in Seq(S)
  OBVIOUS

LEMMA VerdictTyped ==
  ASSUME NEW type \in Verdict, NEW p \in Piece, disk_tx \in Seq(ResponseType), Respond(type, p)
  PROVE  disk_tx' \in Seq(ResponseType)
<1>1. [type |-> type, piece |-> p] \in ResponseType
  BY DEF ResponseType
<1> QED
  BY <1>1, QueueAppend DEF Respond

LEMMA InitLayout == Init => Layout
<1> SUFFICES ASSUME Init PROVE Layout
  OBVIOUS
<1>1. 0 \in Piece
  BY GeometryAssumption DEF Piece
<1>2. MaxRestarts \in Nat
  BY DiskAssumption
<1>3. TypeOK
  <2>1. TaskType
    <3>1. output_files \in Seq([len : Nat, offset : Nat])
      BY DEF Init
    <3>2. save_err \in BOOLEAN
      BY DEF Init
    <3> QED
      BY <1>1, <3>1, <3>2 DEF Init, TaskType
  <2>2. FilesType
    BY DEF Init, FilesType
  <2>3. disk_rx \in Seq(Piece) /\ disk_tx \in Seq(ResponseType)
    BY DEF Init
  <2>4. have \subseteq Piece /\ verified \subseteq Piece /\ restarts \in 0 .. MaxRestarts
    BY <1>2 DEF Init
  <2> QED
    BY <2>1, <2>2, <2>3, <2>4 DEF TypeOK
<1>4. Opened
  BY FileRange DEF Init, Opened
<1> QED
  BY <1>3, <1>4 DEF Init, Layout, BytesInPlace, Position, Writing, StaysInFiles

LEMMA StartingKeepsLayout ==
  ASSUME Layout, OpenFile \/ OpenFails \/ ReadSavefile
  PROVE  Layout'
<1> USE DEF Layout
<1>1. CASE OpenFile
  <2> DEFINE n == Len(output_files)
             f == [len |-> FileLen[n + 1], offset |-> NextOffset]
  <2>1. output_files \in Seq([len : Nat, offset : Nat]) /\ n \in Nat /\ n < Len(FileLen)
    BY <1>1 DEF OpenFile, TypeOK, TaskType
  <2>2. n + 1 \in File /\ FileLen[n + 1] \in Nat /\ FileStart[n + 1] \in Nat
    BY <2>1, FileRange, FileEnd
  <2>3. NextOffset = FileStart[n + 1]
    <3>1. CASE output_files = <<>>
      BY <3>1, DiskAssumption DEF NextOffset
    <3>2. CASE output_files # <<>>
      <4>1. n \in DOMAIN output_files /\ n \in File
        BY <2>1, <3>2, FileRange
      <4>2. output_files[n] = [len |-> FileLen[n], offset |-> FileStart[n]]
        BY <4>1 DEF Opened
      <4> QED
        BY <2>2, <3>2, <4>1, <4>2, FileEnd DEF NextOffset
    <3> QED
      BY <3>1, <3>2
  <2>4. f = [len |-> FileLen[n + 1], offset |-> FileStart[n + 1]] /\ f \in [len : Nat, offset : Nat]
    BY <2>2, <2>3
  <2>5. output_files' = Append(output_files, f)
    BY <1>1 DEF OpenFile
  <2> HIDE DEF f
  <2>6. Opened'
    BY <1>1, <2>1, <2>4, <2>5 DEF Opened, OpenFile
  <2>7. TypeOK'
    BY <1>1, <2>1, <2>4, <2>5, QueueAppend
       DEF OpenFile, TypeOK, TaskType, FilesType, fileVars, schedulerVars, locals
  <2> QED
    BY <1>1, <2>6, <2>7
       DEF OpenFile, BytesInPlace, Position, Writing, StaysInFiles, fileVars, locals
<1>2. CASE OpenFails
  BY <1>2 DEF OpenFails, TypeOK, TaskType, FilesType, fileVars, schedulerVars, locals,
              Opened, BytesInPlace, Position, Writing, StaysInFiles
<1>3. CASE ReadSavefile
  <2>1. {savefile[i] : i \in DOMAIN savefile} \subseteq Piece
    BY DEF TypeOK, FilesType
  <2>2. [type |-> "CompletedPieces", bits |-> {savefile[i] : i \in DOMAIN savefile}] \in ResponseType
    BY <2>1 DEF ResponseType
  <2>3. disk_tx' \in Seq(ResponseType)
    BY <1>3, <2>2, QueueAppend DEF ReadSavefile, TypeOK
  <2> QED
    BY <1>3, <2>3 DEF ReadSavefile, TypeOK, TaskType, FilesType, fileVars, locals,
              Opened, BytesInPlace, Position, Writing, StaysInFiles
<1> QED
  BY <1>1, <1>2, <1>3

\* partition_point finds the file that holds the piece's first byte.
LEMMA HashKeepsLayout ==
  ASSUME Layout, TryHash
  PROVE  Layout'
<1> USE DEF Layout
<1> DEFINE p == Head(disk_rx)
<1>1. p \in Piece /\ disk_rx' \in Seq(Piece)
  BY QueueTail DEF TryHash, TypeOK
<1>2. CASE StartWrite(p) /\ UNCHANGED disk_tx
  <2>1. PICK k \in 1 .. Len(output_files) + 1 : FirstFile(PieceStart(p), k) /\ idx' = k
    BY <1>2 DEF StartWrite
  <2>2. Len(output_files) = Len(FileLen) /\ output_files \in Seq([len : Nat, offset : Nat])
    BY DEF TryHash, Opened, TypeOK, TaskType
  <2>3. DOMAIN output_files = File
    BY <2>2, FileRange
  <2>4. k \in File /\ \A j \in File : FileStart[j] <= PieceStart(p) <=> j <= k
    BY <2>1, <2>3 DEF FirstFile, Opened
  <2>5. /\ PieceStart(p) \in Nat /\ PieceLenForIndex(p) \in Nat \ {0}
        /\ PieceStart(p) + PieceLenForIndex(p) <= TotalLen
    BY <1>1, PieceFits
  <2>6. FileStart[k] <= PieceStart(p) /\ PieceStart(p) <= FileStart[k] + FileLen[k]
    <3>1. k \in Nat /\ k <= k /\ ~(k + 1 <= k)
      BY <2>4, FileRange
    <3>2. FileStart[k] <= PieceStart(p) /\ FileStart[k] \in Nat /\ FileLen[k] \in Nat
      BY <2>4, <3>1, FileEnd
    <3>3. CASE k + 1 \in File
      <4>1. FileStart[k + 1] \in Nat /\ ~(FileStart[k + 1] <= PieceStart(p))
        BY <2>4, <3>1, <3>3, FileEnd
      <4> QED
        BY <2>4, <2>5, <3>2, <3>3, <4>1, FileEnd
    <3>4. CASE k + 1 \notin File
      BY <2>4, <2>5, <3>2, <3>4, FileEnd, GeometryAssumption
    <3> QED
      BY <3>3, <3>4
  <2>7. /\ pc' = "seek" /\ piece' = p /\ idx' = k
        /\ piece_offset' = PieceStart(p) /\ remaining' = PieceLenForIndex(p)
    BY <1>2, <2>1 DEF StartWrite
  <2> HIDE DEF p
  <2>8. Position'
    BY <2>4, <2>5, <2>6, <2>7 DEF Position
  <2>9. TypeOK'
    BY <1>1, <1>2, <2>4, <2>5, <2>7, FileRange
       DEF TryHash, TypeOK, TaskType, FilesType, fileVars
  <2> QED
    BY <2>7, <2>8, <2>9, <2>2 DEF TryHash, Opened, BytesInPlace, StaysInFiles, fileVars
<1>3. CASE "hash" \in Faults /\ Respond("Failed", p) /\ UNCHANGED <<pc, locals>>
  <2>1. disk_tx' \in Seq(ResponseType)
    BY <1>1, <1>3, VerdictTyped DEF TypeOK, Verdict
  <2> QED
    BY <1>1, <1>3, <2>1 DEF TryHash, TypeOK, TaskType, FilesType, fileVars, locals,
       Opened, BytesInPlace, Position, Writing, StaysInFiles
<1> QED
  BY <1>2, <1>3 DEF TryHash

\* The top of the loop never panics.
LEMMA SeekKeepsLayout ==
  ASSUME Layout, Seek
  PROVE  Layout'
<1> USE DEF Layout
<1>1. ~OutsideFiles
  <2>1. /\ idx \in DOMAIN output_files /\ output_files[idx].len = FileLen[idx]
        /\ FileOffset \in 0 .. FileLen[idx]
    BY LoopArithmetic DEF Seek, Writing
  <2>2. FileLen[idx] \in Nat
    BY FileEnd DEF Seek, Writing, Position
  <2> QED
    BY <2>1, <2>2 DEF OutsideFiles
<1>2. CASE pc' = "write" /\ UNCHANGED disk_tx
  BY <1>2 DEF Seek, TypeOK, TaskType, FilesType, fileVars, locals,
     Opened, BytesInPlace, Position, Writing, StaysInFiles
<1>3. CASE "seek" \in Faults /\ WriteFails
  <2>1. disk_tx' \in Seq(ResponseType)
    BY <1>3, VerdictTyped DEF WriteFails, TypeOK, TaskType, Verdict
  <2> QED
    BY <1>3, <2>1 DEF Seek, WriteFails, TypeOK, TaskType, FilesType, fileVars, locals,
       Opened, BytesInPlace, Position, Writing, StaysInFiles
<1> QED
  BY <1>1, <1>2, <1>3 DEF Seek

\* What is written goes to its place, and ends where the file does unless the piece is done.
LEMMA ChunkInPlace ==
  ASSUME Layout, Writing
  PROVE  /\ Chunk \subseteq ByteType
         /\ \A c \in Chunk : c.byte = FileStart[c.file] + c.pos /\ c.pos < FileLen[c.file]
         /\ {c.byte : c \in Chunk} = piece_offset .. piece_offset + WriteLen - 1
<1> DEFINE byte(n) == [file |-> idx, pos |-> FileOffset + n, byte |-> piece_offset + n]
<1>1. /\ idx \in File /\ piece_offset \in Nat /\ remaining \in Nat
      /\ FileStart[idx] \in Nat /\ FileLen[idx] \in Nat
  BY FileEnd DEF Layout, Position, TypeOK, TaskType
<1>2. /\ FileOffset = piece_offset - FileStart[idx] /\ FileOffset \in 0 .. FileLen[idx]
      /\ WriteLen \in 0 .. remaining /\ FileOffset + WriteLen <= FileLen[idx]
  BY LoopArithmetic
<1>3. FileOffset \in Nat /\ WriteLen \in Nat
  BY <1>1, <1>2
<1> HIDE DEF byte
<1>4. ASSUME NEW n \in 0 .. WriteLen - 1
      PROVE  /\ byte(n) \in ByteType
             /\ byte(n).byte = FileStart[byte(n).file] + byte(n).pos
             /\ byte(n).pos < FileLen[byte(n).file]
  BY <1>1, <1>2, <1>3 DEF byte, ByteType
<1>5. Chunk = {byte(n) : n \in 0 .. WriteLen - 1}
  BY DEF Chunk, byte
<1>6. {c.byte : c \in Chunk} = piece_offset .. piece_offset + WriteLen - 1
  <2>1. \A n : byte(n).byte = piece_offset + n
    BY DEF byte
  <2>2. ASSUME NEW b \in piece_offset .. piece_offset + WriteLen - 1
        PROVE  b \in {c.byte : c \in Chunk}
    <3>1. b - piece_offset \in 0 .. WriteLen - 1 /\ piece_offset + (b - piece_offset) = b
      BY <1>1, <1>3
    <3>2. byte(b - piece_offset) \in Chunk
      BY <1>5, <3>1
    <3> QED
      BY <2>1, <3>1, <3>2
  <2>3. ASSUME NEW c \in Chunk
        PROVE  c.byte \in piece_offset .. piece_offset + WriteLen - 1
    <3>1. PICK n \in 0 .. WriteLen - 1 : c = byte(n)
      BY <1>5
    <3> QED
      BY <1>1, <1>3, <2>1, <3>1
  <2> QED
    BY <2>2, <2>3
<1> QED
  BY <1>4, <1>5, <1>6

LEMMA WriteKeepsLayout ==
  ASSUME Layout, Write
  PROVE  Layout'
<1> USE DEF Layout
<1>1. Writing
  BY DEF Write, Writing
<1>2. piece \in Piece /\ disk_tx \in Seq(ResponseType)
  BY DEF TypeOK, TaskType
<1>3. CASE WriteFails /\ err' = err \ {idx} /\ UNCHANGED <<idx, piece_offset, remaining, flight, verified>>
  <2>1. disk_tx' \in Seq(ResponseType)
    BY <1>2, <1>3, VerdictTyped DEF WriteFails, Verdict
  <2> QED
    BY <1>3, <2>1 DEF Write, WriteFails, TypeOK, TaskType, FilesType,
       Opened, BytesInPlace, Position, Writing, StaysInFiles
<1>4. CASE flight' = flight \cup Chunk /\ Advance /\ UNCHANGED err
  <2>1. /\ idx \in File /\ piece_offset \in Nat /\ remaining \in 1 .. PieceLenForIndex(piece)
        /\ piece_offset + remaining = PieceStart(piece) + PieceLenForIndex(piece)
        /\ FileStart[idx] \in Nat /\ FileLen[idx] \in Nat
    BY <1>1, FileEnd DEF Position, TypeOK, TaskType
  <2>2. /\ PieceStart(piece) \in Nat /\ PieceLenForIndex(piece) \in Nat \ {0}
        /\ PieceStart(piece) + PieceLenForIndex(piece) <= TotalLen
    BY <1>2, PieceFits
  <2>3. /\ FileOffset = piece_offset - FileStart[idx]
        /\ WriteLen \in 0 .. remaining
        /\ WriteLen # remaining => FileOffset + WriteLen = FileLen[idx]
    BY <1>1, LoopArithmetic
  <2>4. /\ piece_offset' = piece_offset + WriteLen /\ remaining' = remaining - WriteLen
        /\ piece_offset' \in Nat /\ remaining' \in Nat /\ UNCHANGED piece
    BY <1>4, <2>1, <2>2, <2>3 DEF Advance, Write
  <2>5. flight' \subseteq ByteType /\ UNCHANGED <<content, savefile, save_flight>>
    BY <1>1, <1>4, ChunkInPlace DEF Write, TypeOK, FilesType
  <2>6. BytesInPlace'
    BY <1>1, <1>4, <2>5, ChunkInPlace DEF BytesInPlace
  <2>7. CASE remaining' = 0
    <3>1. Respond("PieceHashedAndWritten", piece) /\ pc' = "save" /\ UNCHANGED idx
          /\ verified' = verified \cup {piece}
      BY <1>4, <2>7 DEF Advance
    <3>2. disk_tx' \in Seq(ResponseType)
      BY <1>2, <3>1, VerdictTyped DEF Verdict
    <3>3. TypeOK'
      BY <1>2, <1>4, <2>4, <2>5, <3>1, <3>2 DEF Write, TypeOK, TaskType, FilesType
    <3> QED
      BY <2>6, <3>1, <3>3 DEF Write, Opened, Position, Writing, StaysInFiles
  <2>8. CASE remaining' # 0
    <3>1. pc' = "seek" /\ idx' = idx + 1 /\ UNCHANGED <<disk_tx, verified>>
      BY <1>4, <2>8 DEF Advance
    <3>2. piece_offset' = FileStart[idx] + FileLen[idx]
      BY <2>1, <2>2, <2>3, <2>4, <2>8
    <3>3. piece_offset' + remaining' = PieceStart(piece) + PieceLenForIndex(piece)
      BY <2>1, <2>2, <2>3, <2>4
    <3>4. idx + 1 \in File
      <4>1. TotalLen \in Nat /\ piece_offset' < TotalLen
        BY <2>2, <2>4, <2>8, <3>3, GeometryAssumption
      <4> QED
        BY <2>1, <3>2, <4>1, FileEnd
    <3>5. FileStart[idx + 1] = piece_offset' /\ FileStart[idx + 1] \in Nat /\ FileLen[idx + 1] \in Nat
      BY <2>1, <3>2, <3>4, FileEnd
    <3>6. Position'
      <4>1. remaining' \in 1 .. PieceLenForIndex(piece)
        BY <2>1, <2>2, <2>3, <2>4, <2>8
      <4>2. FileStart[idx + 1] <= piece_offset' /\ piece_offset' <= FileStart[idx + 1] + FileLen[idx + 1]
        BY <3>5
      <4> QED
        BY <2>4, <3>1, <3>3, <3>4, <4>1, <4>2 DEF Position
    <3>7. TypeOK'
      BY <1>2, <1>4, <2>4, <2>5, <3>1, <3>4, FileRange DEF Write, TypeOK, TaskType, FilesType
    <3> QED
      BY <2>6, <3>1, <3>6, <3>7 DEF Write, Opened, StaysInFiles
  <2> QED
    BY <2>7, <2>8
<1> QED
  BY <1>3, <1>4 DEF Write

LEMMA SurroundingsKeepLayout ==
  ASSUME Layout, Save \/ (\E k \in File : WriteDone(k)) \/ SaveDone \/ Crash
                 \/ (\E p \in Piece : Submit(p)) \/ HandleResponse
  PROVE  Layout'
<1> USE DEF Layout
<1>1. CASE Save
  <2>1. save_flight' \in Seq(Piece)
    <3>1. <<piece>> \in Seq(Piece)
      BY DEF TypeOK, TaskType
    <3> QED
      BY <1>1, <3>1 DEF Save, TypeOK, FilesType
  <2> QED
    BY <1>1, <2>1 DEF Save, TypeOK, TaskType, FilesType, locals, schedulerVars,
       Opened, BytesInPlace, Position, Writing, StaysInFiles
<1>2. ASSUME NEW k \in File, WriteDone(k) PROVE Layout'
  <2>1. content' \subseteq content \cup flight /\ flight' \subseteq flight
    BY <1>2 DEF WriteDone, InFlight
  <2>2. err' \subseteq File
    BY <1>2 DEF WriteDone, TypeOK, TaskType
  <2>3. UNCHANGED <<pc, output_files, locals, save_err, savefile, save_flight, schedulerVars>>
    BY <1>2 DEF WriteDone
  <2>4. lost' \subseteq Nat
    <3>1. ASSUME NEW c \in SUBSET flight PROVE Bytes(c) \subseteq Nat
      BY DEF TypeOK, FilesType, ByteType, Bytes
    <3>2. InFlight(k) \subseteq flight
      BY DEF InFlight
    <3> QED
      BY <1>2, <3>1, <3>2 DEF WriteDone, TypeOK, FilesType
  <2> QED
    BY <2>1, <2>2, <2>3, <2>4 DEF TypeOK, TaskType, FilesType, locals, schedulerVars,
       Opened, BytesInPlace, Position, Writing, StaysInFiles
<1>3. CASE SaveDone
  <2>1. savefile \o save_flight \in Seq(Piece) /\ <<>> \in Seq(Piece)
    BY DEF TypeOK, FilesType
  <2>2. savefile' \in Seq(Piece) /\ save_flight' \in Seq(Piece)
    BY <1>3, <2>1 DEF SaveDone, TypeOK, FilesType
  <2>3. save_err' \in BOOLEAN
    BY <1>3 DEF SaveDone, TypeOK, TaskType
  <2> QED
    BY <1>3, <2>2, <2>3 DEF SaveDone, TypeOK, TaskType, FilesType, locals, schedulerVars,
       Opened, BytesInPlace, Position, Writing, StaysInFiles
<1>4. CASE Crash
  <2>1. content' \subseteq content \cup flight /\ flight' = {}
    BY <1>4 DEF Crash
  <2>2. savefile' \in Seq(Piece) /\ save_flight' \in Seq(Piece)
    <3>1. savefile \o save_flight \in Seq(Piece) /\ <<>> \in Seq(Piece)
      BY DEF TypeOK, FilesType
    <3> QED
      BY <1>4, <3>1 DEF Crash, TypeOK, FilesType
  <2>3. TaskType'
    <3>1. 0 \in Piece
      BY GeometryAssumption DEF Piece
    <3>2. output_files' \in Seq([len : Nat, offset : Nat])
      BY <1>4 DEF Crash
    <3>3. save_err' \in BOOLEAN
      BY <1>4 DEF Crash
    <3> QED
      BY <1>4, <3>1, <3>2, <3>3 DEF Crash, TaskType
  <2>4. restarts' \in 0 .. MaxRestarts
    BY <1>4, DiskAssumption DEF Crash, TypeOK
  <2>5. disk_rx' \in Seq(Piece) /\ disk_tx' \in Seq(ResponseType)
    BY <1>4 DEF Crash
  <2>8. lost' \subseteq Nat
    <3>1. ASSUME NEW c \in SUBSET flight PROVE Bytes(c) \subseteq Nat
      BY DEF TypeOK, FilesType, ByteType, Bytes
    <3> QED
      BY <1>4, <3>1 DEF Crash, TypeOK, FilesType
  <2>6. TypeOK'
    BY <1>4, <2>1, <2>2, <2>3, <2>4, <2>5, <2>8 DEF Crash, TypeOK, FilesType
  <2>7. Opened'
    BY <1>4, FileRange DEF Crash, Opened
  <2> QED
    BY <1>4, <2>1, <2>6, <2>7 DEF Crash, BytesInPlace, Position, Writing, StaysInFiles
<1>5. ASSUME NEW p \in Piece, Submit(p) PROVE Layout'
  <2>1. disk_rx' \in Seq(Piece)
    BY <1>5, QueueAppend DEF Submit, TypeOK
  <2> QED
    BY <1>5, <2>1 DEF Submit, TypeOK, TaskType, FilesType, taskVars, fileVars, locals,
       Opened, BytesInPlace, Position, Writing, StaysInFiles
<1>6. CASE HandleResponse
  <2>1. Head(disk_tx) \in ResponseType /\ disk_tx' \in Seq(ResponseType)
    BY <1>6, QueueTail DEF HandleResponse, TypeOK
  <2>2. have' \subseteq Piece
    BY <1>6, <2>1 DEF HandleResponse, TypeOK, ResponseType, Verdict
  <2> QED
    BY <1>6, <2>1, <2>2 DEF HandleResponse, TypeOK, TaskType, FilesType, taskVars, fileVars, locals,
       Opened, BytesInPlace, Position, Writing, StaysInFiles
<1> QED
  BY <1>1, <1>2, <1>3, <1>4, <1>5, <1>6

LEMMA NextLayout == Layout /\ [Next]_vars => Layout'
<1> SUFFICES ASSUME Layout, [Next]_vars PROVE Layout'
  OBVIOUS
<1>1. CASE Next
  BY <1>1, StartingKeepsLayout, HashKeepsLayout, SeekKeepsLayout, WriteKeepsLayout,
     SurroundingsKeepLayout DEF Next, TaskNext
<1>2. CASE UNCHANGED vars
  BY <1>2 DEF vars, taskVars, fileVars, schedulerVars, locals, Layout, TypeOK, TaskType, FilesType,
     Opened, BytesInPlace, Position, Writing, StaysInFiles
<1> QED
  BY <1>1, <1>2

LEMMA LayoutHolds == Spec => []Layout
  BY InitLayout, NextLayout, PTL DEF Spec

\* Whatever the lengths of the pieces and of the files, and through failed writes,
\* crashes and restarts, the loop of Disk::write puts every byte where it belongs.
THEOREM EveryByteInPlace == Spec => []BytesInPlace
  BY LayoutHolds, PTL DEF Layout

\* The loop of Disk::write never indexes past the last file, nor subtracts more than a
\* file is long.
THEOREM NeverOutsideFiles == Spec => []StaysInFiles
  BY LayoutHolds, PTL DEF Layout

\* The variables of the disk task keep their shapes; no u64 becomes negative.
THEOREM DiskTypeCorrect == Spec => []TypeOK
  BY LayoutHolds, PTL DEF Layout

-----------------------------------------------------------------------------
(***************************************************************************)
(* A confirmed piece is stored.                                            *)
(***************************************************************************)
\* Up to piece_offset the piece being written is accounted for.
Kept ==
  /\ VerifiedIsStored
  /\ Writing => PieceStart(piece) .. piece_offset - 1 \subseteq Accounted

\* What is stored or in flight stays so, or is recorded as lost.
LEMMA BytesStay ==
  ASSUME Next
  PROVE  Accounted \subseteq Accounted'
<1>1. ASSUME content \cup flight \subseteq content' \cup flight', UNCHANGED lost
      PROVE  Accounted \subseteq Accounted'
  BY <1>1 DEF Accounted, StoredBytes, Bytes
<1>2. CASE TaskNext
  BY <1>1, <1>2
     DEF TaskNext, OpenFile, OpenFails, ReadSavefile, TryHash, Seek, Write, Save, fileVars
<1>3. ASSUME NEW k \in File, WriteDone(k)
      PROVE  Accounted \subseteq Accounted'
  <2>1. flight' = flight \ InFlight(k)
    BY <1>3 DEF WriteDone
  <2>2. CASE content' = content \cup InFlight(k) /\ UNCHANGED <<err, lost>>
    BY <1>1, <2>1, <2>2
  <2>3. ASSUME NEW part \in SUBSET InFlight(k), content' = content \cup part,
               lost' = lost \cup Bytes(InFlight(k) \ part)
        PROVE  Accounted \subseteq Accounted'
    BY <2>1, <2>3 DEF Accounted, StoredBytes, Bytes
  <2> QED
    BY <1>3, <2>2, <2>3 DEF WriteDone
<1>4. CASE SaveDone \/ (\E p \in Piece : Submit(p)) \/ HandleResponse
  BY <1>1, <1>4 DEF SaveDone, Submit, HandleResponse, fileVars
<1>5. CASE Crash
  <2>1. PICK part \in SUBSET flight :
          content' = content \cup part /\ lost' = lost \cup Bytes(flight \ part)
    BY <1>5 DEF Crash
  <2> QED
    BY <2>1 DEF Accounted, StoredBytes, Bytes
<1> QED
  BY <1>2, <1>3, <1>4, <1>5 DEF Next

LEMMA InitKept == Init => Kept
  BY DEF Init, Kept, VerifiedIsStored, Writing

LEMMA NextKept == Layout /\ Kept /\ [Next]_vars => Kept'
<1> SUFFICES ASSUME Layout, Kept, [Next]_vars PROVE Kept'
  OBVIOUS
<1>1. CASE UNCHANGED vars
  BY <1>1 DEF vars, taskVars, fileVars, schedulerVars, locals, Kept, VerifiedIsStored,
     Accounted, StoredBytes, Writing
<1>2. CASE Next
  <2>1. Accounted \subseteq Accounted'
    BY <1>2, BytesStay
  <2>2. \A p \in verified : PieceBytes(p) \subseteq Accounted'
    BY <1>2, <2>1 DEF Kept, VerifiedIsStored
  <2>3. CASE Write
    <3>1. Writing /\ piece_offset \in Nat /\ piece \in Piece /\ UNCHANGED <<piece, content>>
      BY <2>3 DEF Write, Writing, Layout, TypeOK, TaskType
    <3>2. CASE WriteFails /\ UNCHANGED <<idx, piece_offset, remaining, flight, verified>>
      BY <2>2, <3>2 DEF WriteFails, Writing, Kept, VerifiedIsStored
    <3>3. CASE flight' = flight \cup Chunk /\ Advance
      <4>1. PieceStart(piece) .. piece_offset - 1 \subseteq Accounted
        BY <1>2, <3>1 DEF Kept
      <4>2. piece_offset .. piece_offset + WriteLen - 1 \subseteq Accounted'
        <5>1. {c.byte : c \in Chunk} \subseteq Accounted'
          BY <3>3 DEF Accounted, StoredBytes, Bytes
        <5> QED
          BY <3>1, <5>1, ChunkInPlace
      <4>3. /\ PieceStart(piece) \in Nat /\ PieceLenForIndex(piece) \in Nat
            /\ remaining \in Nat /\ WriteLen \in 0 .. remaining
            /\ piece_offset + remaining = PieceStart(piece) + PieceLenForIndex(piece)
        BY <3>1, PieceFits, LoopArithmetic DEF Layout, Position, TypeOK, TaskType
      <4>4. piece_offset' = piece_offset + WriteLen /\ remaining' = remaining - WriteLen
        BY <3>3 DEF Advance
      <4>5. PieceStart(piece) .. piece_offset' - 1 \subseteq Accounted'
        <5>1. ASSUME NEW b \in PieceStart(piece) .. piece_offset' - 1
              PROVE  \/ b \in PieceStart(piece) .. piece_offset - 1
                     \/ b \in piece_offset .. piece_offset + WriteLen - 1
          BY <3>1, <4>3, <4>4
        <5> QED
          BY <2>1, <4>1, <4>2, <5>1
      <4>6. CASE remaining' = 0
        <5>1. verified' = verified \cup {piece} /\ pc' = "save"
          BY <3>3, <4>6 DEF Advance
        <5>2. piece_offset' = PieceStart(piece) + PieceLenForIndex(piece)
          BY <3>1, <4>3, <4>4, <4>6
        <5>3. PieceBytes(piece) \subseteq Accounted'
          <6>1. PieceBytes(piece) = PieceStart(piece) .. piece_offset' - 1
            BY <4>3, <5>2 DEF PieceBytes
          <6> QED
            BY <4>5, <6>1
        <5> QED
          BY <2>2, <5>1, <5>3 DEF Kept, VerifiedIsStored, Writing
      <4>7. CASE remaining' # 0
        <5>1. UNCHANGED verified
          BY <3>3, <4>7 DEF Advance
        <5> QED
          BY <2>2, <3>1, <4>5, <5>1 DEF Kept, VerifiedIsStored
      <4> QED
        BY <4>6, <4>7
    <3> QED
      BY <2>3, <3>2, <3>3 DEF Write
  <2>4. CASE TryHash
    <3>1. UNCHANGED verified
      BY <2>4 DEF TryHash
    <3>2. CASE StartWrite(Head(disk_rx))
      <4>1. piece' \in Piece /\ piece_offset' = PieceStart(piece')
        BY <2>4, <3>2, QueueTail DEF TryHash, StartWrite, Layout, TypeOK
      <4>2. PieceStart(piece') .. piece_offset' - 1 = {}
        BY <4>1, PieceFits
      <4> QED
        BY <2>2, <3>1, <4>2 DEF Kept, VerifiedIsStored
    <3>3. CASE UNCHANGED <<pc, locals>>
      BY <1>2, <2>1, <2>2, <3>1, <3>3 DEF Kept, VerifiedIsStored, Writing, locals
    <3> QED
      BY <2>4, <3>2, <3>3 DEF TryHash
  <2>5. CASE ~Write /\ ~TryHash /\ ~Crash
    <3>1. UNCHANGED verified
      BY <1>2, <2>5 DEF Next, TaskNext, OpenFile, OpenFails, ReadSavefile, Seek, Save, WriteDone,
         SaveDone, Submit, HandleResponse, schedulerVars
    <3>2. UNCHANGED <<piece, piece_offset>> /\ (Writing' => Writing)
      BY <1>2, <2>5 DEF Next, TaskNext, OpenFile, OpenFails, ReadSavefile, Seek, WriteFails, Save,
         WriteDone, SaveDone, Submit, HandleResponse, taskVars, locals, Writing
    <3> QED
      BY <1>2, <2>1, <2>2, <3>1, <3>2 DEF Kept, VerifiedIsStored
  <2>6. CASE Crash
    <3>1. UNCHANGED verified /\ ~Writing'
      BY <2>6 DEF Crash, Writing
    <3> QED
      BY <2>2, <3>1 DEF Kept, VerifiedIsStored
  <2> QED
    BY <2>3, <2>4, <2>5, <2>6
<1> QED
  BY <1>1, <1>2

\* PieceHashedAndWritten tells the truth of what write has done: every byte of the piece is
\* in its file or on its way there, but for those that failed writes and kills have taken.
THEOREM ConfirmedIsStored == Spec => []VerifiedIsStored
<1>1. Spec => []Kept
  BY InitKept, NextKept, LayoutHolds, PTL DEF Spec
<1> QED
  BY <1>1, PTL DEF Kept

-----------------------------------------------------------------------------
(***************************************************************************)
(* The disk task implements Verifier.                                      *)
(***************************************************************************)
\* Only confirmed pieces get into the savefile.
SavedVerified ==
  /\ \A i \in DOMAIN savefile : savefile[i] \in verified
  /\ \A i \in DOMAIN save_flight : save_flight[i] \in verified
  /\ pc = "save" => piece \in verified

LEMMA InitSavedVerified == Init => SavedVerified
  BY DEF Init, SavedVerified

LEMMA SavedConcat ==
  ASSUME Layout, SavedVerified, NEW i \in DOMAIN (savefile \o save_flight)
  PROVE  (savefile \o save_flight)[i] \in verified
<1>1. savefile \in Seq(verified) /\ save_flight \in Seq(verified)
  <2>1. savefile \in Seq(Piece) /\ save_flight \in Seq(Piece)
    BY DEF Layout, TypeOK, FilesType
  <2> QED
    BY <2>1 DEF SavedVerified
<1>2. savefile \o save_flight \in Seq(verified)
  BY <1>1
<1> QED
  BY <1>2

LEMMA NextSavedVerified == Layout /\ SavedVerified /\ [Next]_vars => SavedVerified'
<1> SUFFICES ASSUME Layout, SavedVerified, [Next]_vars PROVE SavedVerified'
  OBVIOUS
<1>1. CASE OpenFile \/ OpenFails \/ ReadSavefile \/ TryHash \/ Seek
  <2>1. UNCHANGED <<savefile, save_flight, verified>> /\ pc' # "save"
    BY <1>1 DEF OpenFile, OpenFails, ReadSavefile, TryHash, StartWrite, Seek, WriteFails, fileVars,
       schedulerVars
  <2> QED
    BY <2>1 DEF SavedVerified
<1>2. CASE Write
  <2>1. UNCHANGED <<savefile, save_flight, piece>> /\ verified \subseteq verified'
        /\ (pc' = "save" => piece \in verified')
    BY <1>2 DEF Write, WriteFails, Advance
  <2> QED
    BY <2>1 DEF SavedVerified
<1>3. CASE Save
  <2>1. UNCHANGED <<savefile, verified>> /\ pc' # "save" /\ piece \in verified
    BY <1>3 DEF Save, schedulerVars, SavedVerified
  <2>2. save_flight' = <<piece>> \/ UNCHANGED save_flight
    BY <1>3 DEF Save
  <2>3. \A i \in DOMAIN save_flight' : save_flight'[i] \in verified
    BY <2>1, <2>2 DEF SavedVerified
  <2> QED
    BY <2>1, <2>3 DEF SavedVerified
<1>4. CASE SaveDone \/ Crash
  <2>1. save_flight' = <<>> /\ savefile' \in {savefile, savefile \o save_flight}
        /\ UNCHANGED verified /\ (pc' = "save" => pc = "save" /\ UNCHANGED piece)
    BY <1>4 DEF SaveDone, Crash, schedulerVars, locals
  <2>2. \A i \in DOMAIN savefile' : savefile'[i] \in verified
    <3>1. CASE savefile' = savefile
      BY <3>1 DEF SavedVerified
    <3>2. CASE savefile' = savefile \o save_flight
      BY <3>2, SavedConcat
    <3> QED
      BY <2>1, <3>1, <3>2
  <2>3. \A i \in DOMAIN save_flight' : save_flight'[i] \in verified
    BY <2>1
  <2> QED
    BY <2>1, <2>2, <2>3 DEF SavedVerified
<1>5. CASE (\E k \in File : WriteDone(k)) \/ (\E p \in Piece : Submit(p)) \/ HandleResponse \/ UNCHANGED vars
  <2>1. UNCHANGED <<savefile, save_flight, verified, pc, piece>>
    BY <1>5 DEF WriteDone, Submit, HandleResponse, vars, taskVars, fileVars, schedulerVars, locals
  <2> QED
    BY <2>1 DEF SavedVerified
<1> QED
  BY <1>1, <1>2, <1>3, <1>4, <1>5 DEF Next, TaskNext

\* The refinement mapping.
AbstractDisk == IF pc \in {"opening", "unopened"} THEN "starting" ELSE "ready"
AbstractRx == IF Writing THEN <<piece>> \o disk_rx ELSE disk_rx

LEMMA InitVerifier == Init => Verifier!Init
  BY DEF Init, Verifier!Init, Writing

\* Putting the piece in hand in front of the queue and taking the head of it.
LEMMA InFront ==
  ASSUME NEW q \in Seq(Piece), NEW p \in Piece
  PROVE  /\ <<p>> \o q # <<>> /\ Head(<<p>> \o q) = p /\ Tail(<<p>> \o q) = q
         /\ q # <<>> => <<Head(q)>> \o Tail(q) = q
         /\ \A e \in Piece : Append(<<p>> \o q, e) = <<p>> \o Append(q, e)
  OBVIOUS

LEMMA NextVerifier ==
  Layout /\ SavedVerified /\ [Next]_vars => [Verifier!Next]_(Verifier!vars)
<1> SUFFICES ASSUME Layout, SavedVerified, [Next]_vars
             PROVE  Verifier!Next \/ UNCHANGED <<AbstractDisk, AbstractRx, disk_tx, verified>>
  BY DEF Verifier!vars, AbstractDisk, AbstractRx
<1>1. disk_rx \in Seq(Piece) /\ piece \in Piece
  BY DEF Layout, TypeOK, TaskType
<1>2. ASSUME NEW verdict \in Verdict, Writing, ~Writing', pc' \in {"ready", "save"},
             UNCHANGED disk_rx, Respond(verdict, piece),
             verified' = IF verdict = "Failed" THEN verified ELSE verified \cup {piece}
      PROVE  Verifier!Next
  <2>1. AbstractRx = <<piece>> \o disk_rx /\ AbstractRx' = disk_rx
        /\ AbstractDisk = "ready" /\ AbstractDisk' = "ready"
    BY <1>2 DEF AbstractRx, AbstractDisk, Writing
  <2>2. Verifier!Answer(verdict)
    BY <1>1, <1>2, <2>1, InFront DEF Verifier!Answer, Respond, AbstractRx, AbstractDisk
  <2> QED
    BY <2>2 DEF Verifier!Next, Verdict
<1>3. CASE OpenFile \/ OpenFails \/ Save \/ SaveDone \/ (\E k \in File : WriteDone(k)) \/ UNCHANGED vars
  BY <1>3 DEF OpenFile, OpenFails, Save, SaveDone, WriteDone, vars, taskVars, fileVars,
     schedulerVars, locals, AbstractDisk, AbstractRx, Writing
<1>4. CASE ReadSavefile
  <2> DEFINE saved == {savefile[i] : i \in DOMAIN savefile}
  <2>1. saved \in SUBSET verified
    BY DEF SavedVerified
  <2>2. /\ AbstractDisk = "starting" /\ AbstractDisk' = "ready" /\ AbstractRx' = AbstractRx
        /\ UNCHANGED verified
        /\ disk_tx' = Append(disk_tx, [type |-> "CompletedPieces", bits |-> saved])
    BY <1>4 DEF ReadSavefile, AbstractDisk, AbstractRx, Writing
  <2> HIDE DEF saved
  <2>3. Verifier!Announce(saved)
    BY <2>2 DEF Verifier!Announce, AbstractDisk, AbstractRx
  <2> QED
    BY <2>1, <2>3 DEF Verifier!Next
<1>5. CASE TryHash
  <2>1. pc = "ready" /\ disk_rx # <<>> /\ disk_rx' = Tail(disk_rx) /\ UNCHANGED verified
        /\ Head(disk_rx) \in Piece
    BY <1>1, <1>5, QueueTail DEF TryHash
  <2>2. CASE StartWrite(Head(disk_rx)) /\ UNCHANGED disk_tx
    <3>1. AbstractRx' = <<Head(disk_rx)>> \o Tail(disk_rx) /\ AbstractRx = disk_rx
          /\ UNCHANGED AbstractDisk
      BY <2>1, <2>2 DEF StartWrite, AbstractRx, AbstractDisk, Writing
    <3> QED
      BY <1>1, <2>1, <2>2, <3>1, InFront
  <2>3. CASE Respond("Failed", Head(disk_rx)) /\ UNCHANGED <<pc, locals>>
    <3>1. AbstractRx = disk_rx /\ AbstractRx' = disk_rx' /\ AbstractDisk = "ready"
          /\ AbstractDisk' = "ready"
      BY <2>1, <2>3 DEF AbstractRx, AbstractDisk, Writing
    <3>2. Verifier!Answer("Failed")
      BY <2>1, <2>3, <3>1 DEF Verifier!Answer, Respond, AbstractRx, AbstractDisk
    <3> QED
      BY <3>2 DEF Verifier!Next
  <2> QED
    BY <1>5, <2>2, <2>3 DEF TryHash
<1>6. CASE Seek
  <2>1. Writing /\ UNCHANGED <<disk_rx, verified, piece>>
    BY <1>6 DEF Seek, Writing, locals
  <2>2. CASE pc' = "write" /\ UNCHANGED disk_tx
    BY <1>6, <2>1, <2>2 DEF Seek, AbstractRx, AbstractDisk, Writing
  <2>3. CASE WriteFails
    BY <1>2, <2>1, <2>3 DEF WriteFails, Writing, Verdict
  <2>4. StaysInFiles'
    BY <1>6, SeekKeepsLayout DEF Layout
  <2> QED
    BY <1>6, <2>2, <2>3, <2>4 DEF Seek, StaysInFiles
<1>7. CASE Write
  <2>1. Writing /\ UNCHANGED <<disk_rx, piece>>
    BY <1>7 DEF Write, Writing
  <2>2. CASE WriteFails /\ UNCHANGED verified
    BY <1>2, <2>1, <2>2 DEF WriteFails, Writing, Verdict
  <2>3. CASE Advance
    <3>1. CASE pc' = "save" /\ Respond("PieceHashedAndWritten", piece)
               /\ verified' = verified \cup {piece}
      BY <1>2, <2>1, <3>1 DEF Writing, Verdict
    <3>2. CASE pc' = "seek" /\ UNCHANGED <<disk_tx, verified>>
      BY <2>1, <3>2 DEF AbstractRx, AbstractDisk, Writing
    <3> QED
      BY <2>3, <3>1, <3>2 DEF Advance
  <2> QED
    BY <1>7, <2>2, <2>3 DEF Write
<1>8. CASE Crash
  <2>1. Verifier!Restart
    BY <1>8 DEF Crash, Verifier!Restart, Writing
  <2> QED
    BY <2>1 DEF Verifier!Next
<1>9. ASSUME NEW p \in Piece, Submit(p) PROVE Verifier!Next
  <2>1. AbstractRx' = Append(AbstractRx, p) /\ UNCHANGED <<AbstractDisk, disk_tx, verified>>
    BY <1>1, <1>9, InFront DEF Submit, taskVars, locals, AbstractRx, AbstractDisk, Writing
  <2>2. Verifier!Submit(p)
    BY <2>1 DEF Verifier!Submit, AbstractRx, AbstractDisk
  <2> QED
    BY <2>2 DEF Verifier!Next
<1>10. CASE HandleResponse
  <2>1. UNCHANGED <<AbstractDisk, AbstractRx, verified>> /\ disk_tx # <<>> /\ disk_tx' = Tail(disk_tx)
    BY <1>10 DEF HandleResponse, taskVars, locals, AbstractRx, AbstractDisk, Writing
  <2>2. Verifier!Deliver
    BY <2>1 DEF Verifier!Deliver, AbstractRx, AbstractDisk
  <2> QED
    BY <2>2 DEF Verifier!Next
<1> QED
  BY <1>3, <1>4, <1>5, <1>6, <1>7, <1>8, <1>9, <1>10 DEF Next, TaskNext

\* The disk task, with its files and through every fault, crash and restart, announces
\* only pieces confirmed before, and then answers each piece once, in order.
THEOREM VerifierImplemented == Spec => ImplementsVerifier
<1>1. Spec => []SavedVerified
  BY InitSavedVerified, NextSavedVerified, LayoutHolds, PTL DEF Spec
<1> QED
  BY <1>1, InitVerifier, NextVerifier, LayoutHolds, PTL DEF Spec, ImplementsVerifier, Verifier!Spec
=============================================================================
