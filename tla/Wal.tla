-------------------------------- MODULE Wal --------------------------------
(***************************************************************************)
(* The write-ahead log of package consensus (src/consensus/wal.go): frames *)
(* appended to the last of a row of files, housekeeping that starts a new  *)
(* file and removes the oldest, crashes that cut the last file anywhere    *)
(* after what was synced, and the reader that repairs the log on restart.  *)
(*                                                                         *)
(* A frame is four cells, two of the header and two of the payload, so     *)
(* that a cut may fall inside either of them or between them.  Records are *)
(* numbered in the order they are written.                                 *)
(***************************************************************************)
EXTENDS Integers, Sequences, FiniteSets
LOCAL INSTANCE TLC
LOCAL INSTANCE SequencesExt
LOCAL INSTANCE FiniteSetsExt

CONSTANTS
  FileLimit,   \* size above which housekeeping starts a new file
  TotalLimit,  \* size above which it removes the oldest files
  CutsAt,      \* cells of a frame that a crash may leave of it
  MaxRecords,  \* bound on records written
  MaxStops     \* bound on crashes and closes

FrameLen == 4

ASSUME LimitsAssumption ==
  FileLimit \in Nat /\ TotalLimit \in Nat /\ FileLimit <= TotalLimit
ASSUME CutsAssumption == CutsAt \subseteq 1 .. FrameLen - 1
ASSUME BoundsAssumption == MaxRecords \in Nat /\ MaxStops \in Nat

VARIABLES
  mode,     \* "write", "down", "read" or "ended"
  files,    \* file index -> cells in the file that are on disk
  tailIdx,  \* index of the file being written
  buf,      \* cells not synced yet, in the buffer or in the file
  wi,       \* what housekeeping has seen of the files, or NoInfo
  read,     \* records the reader has returned
  error,    \* how reading ended
  damaged,  \* a restart has left the log other than it read it (history)
  logged,   \* records in the log, synced or not (history)
  synced,   \* those that are synced (history)
  written,  \* number of records written so far
  stops     \* number of crashes and closes so far

vars == <<mode, files, tailIdx, buf, wi, read, error, damaged, logged, synced, written, stops>>

reader == <<read, error, damaged>>

NoInfo == [headIdx |-> -1, tailSize |-> 0, totalSize |-> 0]

FrameAndOne(n) == [i \in 1 .. FrameLen + 1 |-> <<n, i>>]

Frame(n) == [i \in 1 .. FrameLen |-> <<n, i>>]

headIdx == Min(DOMAIN files)

SizeOf(fs, I) == MapThenSumSet(LAMBDA i : Len(fs[i]), I)

RecordsIn(cells) == {cells[i][1] : i \in DOMAIN cells}

-----------------------------------------------------------------------------
(* The writer *)

WriteBytes ==
  /\ mode = "write" /\ written < MaxRecords
  /\ written' = written + 1
  /\ buf' = buf \o Frame(written + 1)
  /\ logged' = logged \cup {written + 1}
  /\ UNCHANGED <<mode, files, tailIdx, wi, reader, synced, stops>>

Flushed == [files EXCEPT ![tailIdx] = @ \o buf]

syncNoFlush == UNCHANGED <<files, buf>> /\ synced' = logged

sync == files' = Flushed /\ buf' = <<>> /\ synced' = logged

Sync ==
  /\ mode = "write"
  /\ sync
  /\ UNCHANGED <<mode, tailIdx, wi, reader, logged, written, stops>>

(* Close first waits for housekeeping to finish the round it is in. *)
Close ==
  /\ mode = "write" /\ wi = NoInfo /\ stops < MaxStops
  /\ sync
  /\ stops' = stops + 1
  /\ mode' = "down"
  /\ UNCHANGED <<tailIdx, wi, reader, logged, written>>

(* Housekeeping looks at the directory before it takes the mutex; bufio    *)
(* may have flushed any part of the buffer by then.                        *)
readWALInfo ==
  /\ mode = "write" /\ wi = NoInfo
  /\ \E flushed \in 0 .. Len(buf) :
       wi' = [headIdx   |-> headIdx,
              tailSize  |-> Len(files[tailIdx]) + flushed,
              totalSize |-> SizeOf(files, DOMAIN files) + flushed]
  /\ UNCHANGED <<mode, files, tailIdx, buf, reader, logged, synced, written, stops>>

RemovedFromTail(fs) ==
  {i \in DOMAIN fs :
     wi.totalSize - SizeOf(fs, {j \in DOMAIN fs : i < j}) > TotalLimit}

(* Files from the oldest on, until the rest is within TotalLimit. *)
Removed(fs) ==
  {i \in DOMAIN fs :
     wi.totalSize - SizeOf(fs, {j \in DOMAIN fs : wi.headIdx <= j /\ j < i}) > TotalLimit}

Trim(fs) ==
  LET kept == DOMAIN fs \ Removed(fs)
      gone == UNION {RecordsIn(fs[i]) : i \in Removed(fs)}
  IN  /\ files' = [i \in kept |-> fs[i]]
      /\ logged' = logged \ gone

doHousekeeping ==
  /\ mode = "write" /\ wi # NoInfo
  /\ \/ /\ wi.tailSize > FileLimit
        /\ Trim([i \in DOMAIN files \cup {tailIdx + 1} |->
                   IF i = tailIdx + 1 THEN <<>> ELSE Flushed[i]])
        /\ tailIdx' = tailIdx + 1
        /\ buf' = <<>> /\ synced' = logged'
     \/ /\ wi.tailSize <= FileLimit /\ buf # <<>>
        /\ Trim(Flushed)
        /\ buf' = <<>> /\ synced' = logged'
        /\ UNCHANGED tailIdx
     \/ /\ wi.tailSize <= FileLimit
        /\ Trim(files)
        /\ synced' = synced \cap logged'
        /\ UNCHANGED <<buf, tailIdx>>
  /\ wi' = NoInfo
  /\ UNCHANGED <<mode, reader, written, stops>>

(* Of what was not synced a prefix is on disk, cut within a frame or not. *)
Crash ==
  /\ mode = "write" /\ stops < MaxStops
  /\ \E whole \in 0 .. Len(buf) \div FrameLen, cut \in CutsAt \cup {0} :
       /\ whole * FrameLen + cut <= Len(buf)
       /\ files' = [files EXCEPT ![tailIdx] = @ \o SubSeq(buf, 1, whole * FrameLen + cut)]
       /\ logged' = synced \cup RecordsIn(SubSeq(buf, 1, whole * FrameLen))
  /\ stops' = stops + 1
  /\ mode' = "down" /\ buf' = <<>> /\ wi' = NoInfo
  /\ UNCHANGED <<tailIdx, reader, synced, written>>

-----------------------------------------------------------------------------
(* The reader, as applyRoundWAL and its like use it *)

Contiguous == DOMAIN files = headIdx .. Max(DOMAIN files)

(* A log with a file missing is taken for a log that does not exist. *)
OpenWALForRead ==
  /\ mode = "down"
  /\ mode' = IF files # <<>> /\ Contiguous THEN "read" ELSE "ended"
  /\ read' = <<>> /\ error' = "none"
  /\ UNCHANGED <<files, tailIdx, buf, wi, damaged, logged, synced, written, stops>>

Cells ==
  LET idxs == SetToSortSeq(DOMAIN files, <)
  IN  FlattenSeq([i \in DOMAIN idxs |-> files[idxs[i]]])

(* The log on disk is exactly the frames the reader has returned. *)
Intact == Cells = FlattenSeq([i \in DOMAIN read |-> Frame(read[i])])

validOffset == FrameLen * Len(read)

(* io.ReadAtLeast returns EOF, not ErrUnexpectedEOF, when it can read      *)
(* nothing at all: at the end of the log, and right after a header.        *)
ReadBytes ==
  LET rest == SubSeq(Cells, validOffset + 1, Len(Cells))
      n    == rest[1][1]
  IN  /\ mode = "read" /\ error = "none"
      /\ \/ /\ Len(rest) \in {0, 2}
            /\ error' = "EOF" /\ mode' = "ended"
            /\ UNCHANGED read
         \/ /\ Len(rest) \in {1, 3}
            /\ error' = "UnexpectedEOF" /\ UNCHANGED <<mode, read>>
         \/ /\ Len(rest) >= FrameLen /\ SubSeq(rest, 1, FrameLen) = Frame(n)
            /\ read' = Append(read, n) /\ UNCHANGED <<mode, error>>
         \/ /\ Len(rest) >= FrameLen /\ SubSeq(rest, 1, FrameLen) # Frame(n)
            /\ error' = "CorruptedWAL" /\ UNCHANGED <<mode, read>>
      /\ UNCHANGED <<files, tailIdx, buf, wi, damaged, logged, synced, written, stops>>

Before(i) == SizeOf(files, {j \in DOMAIN files : j < i})

(* The file in which the valid part of the log ends, by the code's search. *)
RepairIdx == Min({i \in DOMAIN files : validOffset <= Before(i) + Len(files[i])})

Truncated == [files EXCEPT ![RepairIdx] = SubSeq(@, 1, validOffset - Before(RepairIdx))]

(* For each later file the loop removes file RepairIdx itself: the first   *)
(* removal succeeds, a second one fails with os.ErrNotExist, which         *)
(* applyWAL takes for a log that is not there.  Start goes on either way.  *)
CloseAndRepair ==
  LET later == Cardinality({i \in DOMAIN files : i > RepairIdx})
  IN  /\ mode = "read" /\ error \in {"UnexpectedEOF", "CorruptedWAL"}
      /\ files' = IF later = 0 THEN Truncated ELSE [i \in DOMAIN files \ {RepairIdx} |-> files[i]]
      /\ mode' = "ended"
      /\ UNCHANGED <<tailIdx, buf, wi, reader, logged, synced, written, stops>>

(* The log continues in its last file with the records the reader saw. *)
OpenWALForWrite ==
  /\ mode = "ended"
  /\ mode' = "write"
  /\ tailIdx' = IF files = <<>> THEN 0 ELSE Max(DOMAIN files)
  /\ files' = IF files = <<>> THEN 0 :> <<>> ELSE files
  /\ logged' = ToSet(read) /\ synced' = ToSet(read)
  /\ read' = <<>> /\ error' = "none"
  /\ damaged' = (damaged \/ ~Intact)
  /\ UNCHANGED <<buf, wi, written, stops>>

-----------------------------------------------------------------------------
Init ==
  /\ mode = "down" /\ files = <<>> /\ tailIdx = 0 /\ buf = <<>> /\ wi = NoInfo
  /\ read = <<>> /\ error = "none" /\ damaged = FALSE
  /\ logged = {} /\ synced = {} /\ written = 0 /\ stops = 0

Next ==
  \/ WriteBytes
  \/ Sync
  \/ Close
  \/ readWALInfo
  \/ doHousekeeping
  \/ Crash
  \/ OpenWALForRead
  \/ ReadBytes
  \/ CloseAndRepair
  \/ OpenWALForWrite

Spec == Init /\ [][Next]_vars

-----------------------------------------------------------------------------
(* Every variable has the values the writer and the reader give it. *)
TypeOK ==
  /\ mode \in {"write", "down", "read", "ended"}
  /\ DOMAIN files \subseteq Nat /\ tailIdx \in Nat
  /\ \A i \in DOMAIN files : files[i] \in Seq((1 .. MaxRecords) \X (1 .. FrameLen))
  /\ buf \in Seq((1 .. MaxRecords) \X (1 .. FrameLen))
  /\ wi \in [headIdx : Int, tailSize : Nat, totalSize : Nat]
  /\ read \in Seq(1 .. MaxRecords)
  /\ error \in {"none", "EOF", "UnexpectedEOF", "CorruptedWAL"}
  /\ damaged \in BOOLEAN
  /\ logged \subseteq 1 .. MaxRecords /\ synced \subseteq logged
  /\ written \in 0 .. MaxRecords /\ stops \in 0 .. MaxStops

(* A restart reads back, in order, a prefix of the records the log held    *)
(* and at least the synced ones: what consensus synced before it sent a    *)
(* vote is there when it restarts.  Holds until a restart leaves a log it  *)
(* did not read: a header without payload, which reads as a clean end, or  *)
(* the wrong file removed by CloseAndRepair.                               *)
Durable ==
  mode = "ended" /\ ~damaged =>
    /\ synced \subseteq ToSet(read)
    /\ ToSet(read) \subseteq logged
    /\ \A i, j \in DOMAIN read : i < j => read[i] < read[j]
    /\ \A n \in logged \ ToSet(read), m \in ToSet(read) : n > m

(* The files of an undamaged log in use have consecutive indices, or the   *)
(* next restart would take the log for one that does not exist, and the    *)
(* file being written is the last of them: housekeeping, working from a    *)
(* view of the directory that is out of date, never removes it.            *)
FilesInRow ==
  mode = "write" /\ ~damaged =>
    tailIdx \in DOMAIN files /\ DOMAIN files = headIdx .. tailIdx

(* After the reader has met a torn or corrupted frame and repaired the log *)
(* "by truncating" (wal.go:48), the log holds exactly the frames read.     *)
RepairKeepsValidPrefix ==
  mode = "ended" /\ error \in {"UnexpectedEOF", "CorruptedWAL"} =>
    Intact
=============================================================================
