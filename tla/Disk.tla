-------------------------------- MODULE Disk --------------------------------
(***************************************************************************)
(* The disk task of one torrent (disk.rs): opening the output files, the   *)
(* savefile, and hashing and writing one piece after the other.  Every     *)
(* await on a file is a step of its own.                                   *)
(*                                                                         *)
(* tokio's File hands a write to a thread and returns: the write is in     *)
(* flight until the next operation on the same file, which waits for it;   *)
(* its error is reported by the next write to that file, if there is one.  *)
(***************************************************************************)
EXTENDS Geometry, Sequences, FiniteSets

CONSTANTS
  FileLen,     \* lengths of the files of the torrent, <<TotalLen>> for a single one
  FileStart,   \* where each file begins in the torrent's content
  \* The environment of this instance.
  Faults,      \* which of DiskFault may happen
  MaxRestarts  \* how often the program is killed and started again

File == DOMAIN FileLen

DiskFault == {"open", "hash", "seek", "write", "save", "crash"}

ASSUME DiskAssumption ==
  /\ FileLen \in Seq(Nat) /\ FileLen # <<>>
  /\ FileStart \in [File -> Nat]
  /\ FileStart[1] = 0
  /\ \A k \in File : FileStart[k] + FileLen[k]
       = IF k + 1 \in File THEN FileStart[k + 1] ELSE TotalLen
  /\ Faults \subseteq DiskFault
  /\ MaxRestarts \in Nat

VARIABLES
  \* The task.
  pc,            \* where it is: "opening", "ready", "seek", "write", "save", or gone:
                 \* "panicked" by an index or a subtraction, "unopened" by an expect
                 \* while opening the files, "dead" by that of the savefile
  output_files,  \* the OutputFiles opened so far
  piece, idx, piece_offset, remaining,  \* locals of write
  err,           \* files with an error not yet reported
  save_err,      \* so for the savefile
  \* The files, which survive a crash.
  content,       \* bytes stored: [file, pos, byte], byte numbered in the torrent
  savefile,      \* sequence of piece numbers
  lost,          \* history: bytes that failed writes and kills have ever taken
  \* Writes in flight.
  flight,
  save_flight,
  \* The scheduler's side.
  disk_rx, disk_tx,
  have,          \* pieces the scheduler takes for complete
  verified,      \* pieces ever answered with PieceHashedAndWritten
  restarts

locals == <<piece, idx, piece_offset, remaining>>
taskVars == <<pc, output_files, locals, err, save_err>>
fileVars == <<content, savefile, lost, flight, save_flight>>
schedulerVars == <<disk_rx, disk_tx, have, verified, restarts>>
vars == <<taskVars, fileVars, schedulerVars>>

-----------------------------------------------------------------------------
Gone == pc \in {"panicked", "unopened", "dead"}

PieceStart(p) == p * PieceLen

PieceBytes(p) == PieceStart(p) .. PieceStart(p) + PieceLenForIndex(p) - 1

NextOffset ==
  IF output_files = <<>> THEN 0
  ELSE LET last == output_files[Len(output_files)] IN last.offset + last.len

\* Variant: the file after the one that holds the offset.
FileAfter(offset, k) ==
  /\ k \in 1 .. Len(output_files) + 1
  /\ \A j \in DOMAIN output_files : output_files[j].offset <= offset <=> j < k

\* partition_point, less one: the last file that does not begin after offset.
FirstFile(offset, k) ==
  /\ k \in DOMAIN output_files
  /\ \A j \in DOMAIN output_files : output_files[j].offset <= offset <=> j <= k

\* Where write is in the current file, and how much of the piece goes there.
FileOffset ==
  LET start == output_files[idx].offset
  IN  IF start < piece_offset THEN piece_offset - start ELSE 0

\* Variant: all that is left of the piece goes to this file.
WriteLenUnlimited == remaining

\* Variant: the file is always filled to its end.
WriteLenToEndOfFile == output_files[idx].len - FileOffset

WriteLen ==
  LET left == output_files[idx].len - FileOffset
  IN  IF remaining < left THEN remaining ELSE left

Chunk ==
  {[file |-> idx, pos |-> FileOffset + n, byte |-> piece_offset + n] : n \in 0 .. WriteLen - 1}

InFlight(k) == {c \in flight : c.file = k}

Bytes(chunk) == {c.byte : c \in chunk}

Respond(type, p) == disk_tx' = Append(disk_tx, [type |-> type, piece |-> p])

-----------------------------------------------------------------------------
Init ==
  /\ pc = "opening"
  /\ output_files = <<>>
  /\ piece = 0 /\ idx = 1 /\ piece_offset = 0 /\ remaining = 0
  /\ err = {} /\ save_err = FALSE
  /\ content = {} /\ savefile = <<>> /\ lost = {}
  /\ flight = {} /\ save_flight = <<>>
  /\ disk_rx = <<>> /\ disk_tx = <<>>
  /\ have = {} /\ verified = {} /\ restarts = 0

-----------------------------------------------------------------------------
(***************************************************************************)
(* Starting.                                                               *)
(***************************************************************************)
\* An existing file keeps its content: truncate(false).
OpenFile ==
  /\ pc = "opening"
  /\ Len(output_files) < Len(FileLen)
  /\ output_files' = Append(output_files,
       [len |-> FileLen[Len(output_files) + 1], offset |-> NextOffset])
  /\ UNCHANGED <<pc, locals, err, save_err, fileVars, schedulerVars>>

\* One of the expects of build_output_files.
OpenFails ==
  /\ pc = "opening"
  /\ "open" \in Faults
  /\ pc' = "unopened"
  /\ UNCHANGED <<output_files, locals, err, save_err, fileVars, schedulerVars>>

\* The savefile is opened and read to its end, where it will be continued.  The
\* files have been pushed in the order of their offsets: the sort, which is stable,
\* finds nothing to do.
ReadSavefile ==
  /\ pc = "opening"
  /\ Len(output_files) = Len(FileLen)
  /\ pc' = "ready"
  /\ disk_tx' = Append(disk_tx,
       [type |-> "CompletedPieces", bits |-> {savefile[i] : i \in DOMAIN savefile}])
  /\ UNCHANGED <<output_files, locals, err, save_err, fileVars>>
  /\ UNCHANGED <<disk_rx, have, verified, restarts>>

-----------------------------------------------------------------------------
(***************************************************************************)
(* try_hash_and_write.                                                     *)
(***************************************************************************)
\* The locals of write, and the first file it goes to.
StartWrite(p) ==
  /\ pc' = "seek"
  /\ piece' = p
  /\ piece_offset' = PieceStart(p)
  /\ remaining' = PieceLenForIndex(p)
  /\ \E k \in 1 .. Len(output_files) + 1 : FirstFile(PieceStart(p), k) /\ idx' = k

\* Variant: a piece with the wrong hash is reported and then written all the same.
HashAndGoOn ==
  /\ pc = "ready"
  /\ disk_rx # <<>>
  /\ disk_rx' = Tail(disk_rx)
  /\ StartWrite(Head(disk_rx))
  /\ \/ UNCHANGED disk_tx
     \/ "hash" \in Faults /\ Respond("Failed", Head(disk_rx))
  /\ UNCHANGED <<output_files, err, save_err, fileVars, have, verified, restarts>>

TryHash ==
  /\ pc = "ready"
  /\ disk_rx # <<>>
  /\ disk_rx' = Tail(disk_rx)
  /\ \/ StartWrite(Head(disk_rx)) /\ UNCHANGED disk_tx
     \/ "hash" \in Faults /\ Respond("Failed", Head(disk_rx)) /\ UNCHANGED <<pc, locals>>
  /\ UNCHANGED <<output_files, err, save_err, fileVars, have, verified, restarts>>

WriteFails ==
  /\ pc' = "ready"
  /\ Respond("Failed", piece)

\* Where get_mut(idx).unwrap() or file.len - file_offset panics.
OutsideFiles == idx \notin DOMAIN output_files \/ FileOffset > output_files[idx].len

\* Variant: a failed seek is not reported.
SeekFailsSilently ==
  /\ pc = "seek"
  /\ ~OutsideFiles /\ InFlight(idx) = {}
  /\ pc' = "write" \/ ("seek" \in Faults /\ pc' = "ready")
  /\ UNCHANGED <<output_files, locals, err, save_err, fileVars, schedulerVars>>

\* The top of the loop, and the seek, which waits for the write in flight.
Seek ==
  /\ pc = "seek"
  /\ IF OutsideFiles
     THEN pc' = "panicked" /\ UNCHANGED disk_tx
     ELSE /\ InFlight(idx) = {}
          /\ \/ pc' = "write" /\ UNCHANGED disk_tx
             \/ "seek" \in Faults /\ WriteFails
  /\ UNCHANGED <<output_files, locals, err, save_err, fileVars>>
  /\ UNCHANGED <<disk_rx, have, verified, restarts>>

\* Variant: the loop ends after the first file.
AdvanceOnce ==
  /\ piece_offset' = piece_offset + WriteLen
  /\ remaining' = 0
  /\ pc' = "save"
  /\ Respond("PieceHashedAndWritten", piece)
  /\ verified' = verified \cup {piece}
  /\ UNCHANGED idx

\* The rest of the loop's body; at its end the verdict is sent.
Advance ==
  /\ piece_offset' = piece_offset + WriteLen
  /\ remaining' = remaining - WriteLen
  /\ \/ /\ remaining' = 0
        /\ pc' = "save"
        /\ Respond("PieceHashedAndWritten", piece)
        /\ verified' = verified \cup {piece}
        /\ UNCHANGED idx
     \/ /\ remaining' # 0
        /\ pc' = "seek"
        /\ idx' = idx + 1
        /\ UNCHANGED <<disk_tx, verified>>

\* write_all: with nothing to write it does not touch the file.
Write ==
  /\ pc = "write"
  /\ \/ /\ idx \in err /\ WriteLen > 0
        /\ err' = err \ {idx}
        /\ WriteFails
        /\ UNCHANGED <<idx, piece_offset, remaining, flight, verified>>
     \/ /\ idx \notin err \/ WriteLen = 0
        /\ flight' = flight \cup Chunk
        /\ Advance
        /\ UNCHANGED err
  /\ UNCHANGED <<output_files, piece, save_err, content, savefile, lost, save_flight>>
  /\ UNCHANGED <<disk_rx, have, restarts>>

\* The number of the piece goes to the savefile after the verdict has been sent.
Save ==
  /\ pc = "save"
  /\ save_flight = <<>>
  /\ \/ save_err /\ pc' = "dead" /\ UNCHANGED save_flight
     \/ ~save_err /\ pc' = "ready" /\ save_flight' = <<piece>>
  /\ UNCHANGED <<output_files, locals, err, save_err, content, savefile, lost, flight>>
  /\ UNCHANGED schedulerVars

-----------------------------------------------------------------------------
(***************************************************************************)
(* Around the task: the threads that write, a crash, and the scheduler.    *)
(***************************************************************************)
\* A failed write may have stored a part.
WriteDone(k) ==
  /\ InFlight(k) # {}
  /\ flight' = flight \ InFlight(k)
  /\ \/ content' = content \cup InFlight(k) /\ UNCHANGED <<err, lost>>
     \/ /\ "write" \in Faults
        /\ \E part \in (SUBSET InFlight(k)) \ {InFlight(k)} :
             /\ content' = content \cup part
             /\ lost' = lost \cup Bytes(InFlight(k) \ part)
        /\ err' = err \cup {k}
  /\ UNCHANGED <<pc, output_files, locals, save_err, savefile, save_flight, schedulerVars>>

SaveDone ==
  /\ save_flight # <<>>
  /\ save_flight' = <<>>
  /\ \/ savefile' = savefile \o save_flight /\ UNCHANGED save_err
     \/ "save" \in Faults /\ save_err' = TRUE /\ UNCHANGED savefile
  /\ UNCHANGED <<pc, output_files, locals, err, content, lost, flight, schedulerVars>>

\* The program is killed, with some of the writes in flight done, and started again.
Crash ==
  /\ "crash" \in Faults
  /\ restarts < MaxRestarts
  /\ restarts' = restarts + 1
  /\ \E part \in SUBSET flight :
       /\ content' = content \cup part
       /\ lost' = lost \cup Bytes(flight \ part)
  /\ savefile' \in {savefile, savefile \o save_flight}
  /\ flight' = {} /\ save_flight' = <<>>
  /\ pc' = "opening"
  /\ output_files' = <<>>
  /\ piece' = 0 /\ idx' = 1 /\ piece_offset' = 0 /\ remaining' = 0
  /\ err' = {} /\ save_err' = FALSE
  /\ disk_rx' = <<>> /\ disk_tx' = <<>>
  /\ have' = {}
  /\ UNCHANGED verified

Writing == pc \in {"seek", "write"}

Pending(p) ==
  \/ \E i \in DOMAIN disk_rx : disk_rx[i] = p
  \/ \E i \in DOMAIN disk_tx : disk_tx[i].type # "CompletedPieces" /\ disk_tx[i].piece = p
  \/ Writing /\ piece = p

\* The scheduler's side, as module Scheduler has it: a piece is handed over whole,
\* and not again before its verdict.  When the task is gone the send fails, and .ok()
\* hides it: nothing happens.
Submit(p) ==
  /\ ~Gone
  /\ p \notin have /\ ~Pending(p)
  /\ disk_rx' = Append(disk_rx, p)
  /\ UNCHANGED <<taskVars, fileVars, disk_tx, have, verified, restarts>>

HandleResponse ==
  /\ disk_tx # <<>>
  /\ disk_tx' = Tail(disk_tx)
  /\ LET r == Head(disk_tx) IN
     have' = CASE r.type = "CompletedPieces"       -> have \cup r.bits
               [] r.type = "PieceHashedAndWritten" -> have \cup {r.piece}
               [] r.type = "Failed"                -> have \ {r.piece}
  /\ UNCHANGED <<taskVars, fileVars, disk_rx, verified, restarts>>

TaskNext == OpenFile \/ OpenFails \/ ReadSavefile \/ TryHash \/ Seek \/ Write \/ Save

Next ==
  \/ TaskNext
  \/ \E k \in File : WriteDone(k)
  \/ SaveDone
  \/ Crash
  \/ \E p \in Piece : Submit(p)
  \/ HandleResponse

Spec == Init /\ [][Next]_vars

(***************************************************************************)
(* Fairness: the task, the threads that write and the scheduler are run    *)
(* again and again.                                                        *)
(***************************************************************************)
FairSpec ==
  /\ Spec
  /\ WF_vars(TaskNext) /\ WF_vars(HandleResponse)
  /\ \A k \in File : WF_vars(WriteDone(k))
  /\ WF_vars(SaveDone)
=============================================================================
