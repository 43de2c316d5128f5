-------------------------------- MODULE WAL ---------------------------------
(***************************************************************************)
(* The write-ahead log of wal/wal.go: callers of Write queue a record and  *)
(* wait; one flusher goroutine drains the queue into a batch, appends the  *)
(* batch to the current segment file, syncs it once, rotates the segment   *)
(* when it is full and answers every caller of the batch.  A restart reads *)
(* the manifest, reopens its last segment and replays all of them.         *)
(*                                                                         *)
(* A record is named by the number of its Write call.  A segment file is   *)
(* the sequence of what was appended to it: whole records, and records cut *)
(* short by a failed write or a crash.                                     *)
(***************************************************************************)
EXTENDS Integers, Sequences

CONSTANTS
  Writers,      \* goroutines that call Write
  QueueCap,     \* capacity of the channel w.pending (1024 in the code)
  MaxSize,      \* w.maxSize, in records; 0 turns rotation off
  MaxWrites,    \* bound: Write calls in a behaviour
  MaxCrashes,   \* bound: crashes in a behaviour
  Faults        \* what the environment does to the process

(***************************************************************************)
(*   crash       the process dies between two steps; what was not synced   *)
(*               may be lost                                               *)
(*   truncCrash  it may also die while the manifest is being rewritten     *)
(*   tornTail    the crash may leave part of a record at the end of a file *)
(*   writeErr    an append fails, possibly after writing part of a record  *)
(*   syncErr     an fsync fails                                            *)
(*   openErr     a segment file cannot be opened                           *)
(*   manifestErr the manifest cannot be read or written                    *)
(***************************************************************************)
AllFaults == {"crash", "truncCrash", "tornTail", "writeErr", "syncErr",
              "openErr", "manifestErr"}

ASSUME WALConstants ==
  /\ QueueCap \in Nat \ {0}
  /\ MaxSize \in Nat
  /\ MaxWrites \in Nat
  /\ MaxCrashes \in Nat
  /\ Faults \subseteq AllFaults

VARIABLES
  phase,        \* "down", "boot", "run", or "close" after a failed replay
  pc,           \* the next step of NewWAL, of Close or of the flusher
  pending,      \* the channel w.pending
  batch,        \* the flusher's batch
  pos,          \* index of the batch entry being encoded or answered
  written,      \* totalWritten of this batch
  err,          \* "failed" once writeErr or syncErr of this batch is not nil
  wait,         \* the record each writer waits for, 0 if it waits for none
  lastId,       \* number of the latest Write call
  acked,        \* records answered with nil
  failed,       \* records answered with an error
  seq,          \* w.seq
  file,         \* w.file: "open" or "closed"
  currentSz,    \* w.currentSz, in records
  segs,         \* the segment files, by sequence number
  synced,       \* how much of each segment file is known to be on disk
  manifest,     \* manifest.json
  newList,      \* the segments that writeManifest is about to write
  crashes       \* crashes so far

procVars  == <<phase, pc>>
queueVars == <<pending, wait, lastId>>
batchVars == <<batch, pos, written, err>>
ackVars   == <<acked, failed>>
fileVars  == <<seq, file, currentSz>>
segVars   == <<segs, synced>>
manVars   == <<manifest, newList>>
vars == <<procVars, queueVars, batchVars, ackVars, fileVars, segVars, manVars,
          crashes>>

(***************************************************************************)
(* What a segment file holds.  Where a record is cut decides how           *)
(* RecordDecoder.Decode ends: inside the 19 bytes it reads as the header,  *)
(* right after them, or further on.                                        *)
(***************************************************************************)
Cuts == {"header", "afterHeader", "body"}
Item == [id : Nat, cut : Cuts \cup {"whole"}]
Whole(id) == [id |-> id, cut |-> "whole"]
Cut(id, c) == [id |-> id, cut |-> c]

Manifest == [state : {"absent", "torn", "ok"}, segments : Seq(Nat)]
NoManifest == [state |-> "absent", segments |-> << >>]
TornManifest == [state |-> "torn", segments |-> << >>]
ManifestOf(list) == [state |-> "ok", segments |-> list]

Elems(s) == {s[i] : i \in 1..Len(s)}
LastOf(s) == s[Len(s)]

\* Faulty variant: replaySegment takes every decode error for the end.
ReadableLenient(items) == TRUE

\* Decode reads a file to its end without an error: every record is whole,
\* but for a last one cut exactly after the header, where the read of the
\* rest returns io.EOF and replaySegment takes it for the end of the file.
Readable(items) ==
  \A i \in 1..Len(items) :
    items[i].cut # "whole" => i = Len(items) /\ items[i].cut = "afterHeader"

\* The records that replaySegment hands to the engine: the whole ones, up to
\* the first that is cut (what follows a cut record fails its CRC).
Records(items) ==
  {items[i].id : i \in {j \in 1..Len(items) : \A k \in 1..j : items[k].cut = "whole"}}

\* NewWAL and Replay succeed on the files as they are.
CanBoot ==
  /\ manifest.state # "torn"
  /\ \A s \in Elems(manifest.segments) : s \in DOMAIN segs /\ Readable(segs[s])

Replayed == UNION {Records(segs[s]) : s \in Elems(manifest.segments)}

-----------------------------------------------------------------------------
Init ==
  /\ phase = "down" /\ pc = "new"
  /\ pending = << >> /\ wait = [w \in Writers |-> 0] /\ lastId = 0
  /\ batch = << >> /\ pos = 1 /\ written = 0 /\ err = "nil"
  /\ acked = {} /\ failed = {}
  /\ seq = 0 /\ file = "closed" /\ currentSz = 0
  /\ segs = << >> /\ synced = << >>
  /\ manifest = NoManifest /\ newList = << >>
  /\ crashes = 0

\* Write: queue the record, blocking while the channel is full ...
Write(w) ==
  /\ phase = "run" /\ wait[w] = 0 /\ lastId < MaxWrites
  /\ Len(pending) < QueueCap
  /\ lastId' = lastId + 1
  /\ pending' = Append(pending, lastId + 1)
  /\ wait' = [wait EXCEPT ![w] = lastId + 1]
  /\ UNCHANGED <<procVars, batchVars, ackVars, fileVars, segVars, manVars, crashes>>

\* ... and wait for the flusher's answer.
WriteReturn(w) ==
  /\ wait[w] # 0 /\ wait[w] \in acked \cup failed
  /\ wait' = [wait EXCEPT ![w] = 0]
  /\ UNCHANGED <<procVars, pending, lastId, batchVars, ackVars, fileVars, segVars,
                 manVars, crashes>>
-----------------------------------------------------------------------------
(***************************************************************************)
(* rotate and writeManifest, called by NewWAL, by the flusher and (only    *)
(* the second) by Close.                                                   *)
(***************************************************************************)

\* They return nil or an error to NewWAL, which fails or goes on to the
\* replay; to the flusher, which makes the error the batch's; or to Close,
\* after which the process exits.
Return(result) ==
  /\ phase' = IF phase = "close" \/ (phase = "boot" /\ result # "nil") THEN "down" ELSE phase
  /\ pc' = IF phase = "run" THEN "ack"
           ELSE IF phase = "boot" /\ result = "nil" THEN "replay" ELSE "new"
  /\ err' = IF phase = "run" /\ result # "nil" THEN "failed" ELSE err

\* rotate closes the old file and opens (or creates) the next segment.
RotateOpen ==
  /\ pc = "open"
  /\ seq' = seq + 1
  /\ file' = "open" /\ currentSz' = 0
  /\ segs' = [s \in DOMAIN segs \cup {seq + 1} |->
                IF s \in DOMAIN segs THEN segs[s] ELSE << >>]
  /\ synced' = [s \in DOMAIN segs \cup {seq + 1} |->
                  IF s \in DOMAIN segs THEN synced[s] ELSE 0]
  /\ pc' = "readManifest"
  /\ UNCHANGED <<phase, queueVars, batchVars, ackVars, manVars, crashes>>

\* Faulty variant: a failed rotation goes on with the next batch at once.
RotateFailAbandons ==
  /\ pc = "open" /\ "openErr" \in Faults
  /\ seq' = seq + 1
  /\ file' = "closed"
  /\ phase' = IF phase = "run" THEN "run" ELSE "down"
  /\ pc' = IF phase = "run" THEN "recv" ELSE "new"
  /\ err' = "nil"
  /\ UNCHANGED <<currentSz, queueVars, batch, pos, written, ackVars, segVars,
                 manVars, crashes>>

\* The segment cannot be opened: w.seq has moved and w.file is closed.
RotateFail ==
  /\ pc = "open" /\ "openErr" \in Faults
  /\ seq' = seq + 1
  /\ file' = "closed"
  /\ Return("failed")
  /\ UNCHANGED <<currentSz, queueVars, batch, pos, written, ackVars, segVars,
                 manVars, crashes>>

\* Faulty variant: the segments listed so far are forgotten.
ManifestTruncateForgets ==
  /\ pc = "readManifest" /\ manifest.state # "torn"
  /\ newList' = <<seq>>
  /\ manifest' = TornManifest
  /\ pc' = "writeManifest"
  /\ UNCHANGED <<phase, queueVars, batchVars, ackVars, fileVars, segVars, crashes>>

\* writeManifest reads the list, adds the current segment if it is not
\* there, and writeManifestFile truncates the file.
ManifestTruncate ==
  /\ pc = "readManifest" /\ manifest.state # "torn"
  /\ newList' = IF seq \in Elems(manifest.segments) THEN manifest.segments
                ELSE Append(manifest.segments, seq)
  /\ manifest' = TornManifest
  /\ pc' = "writeManifest"
  /\ UNCHANGED <<phase, queueVars, batchVars, ackVars, fileVars, segVars, crashes>>

\* The manifest cannot be read, or not opened for writing.
ManifestReadFail ==
  /\ pc = "readManifest"
  /\ manifest.state = "torn" \/ "manifestErr" \in Faults
  /\ Return("failed")
  /\ UNCHANGED <<queueVars, batch, pos, written, ackVars, fileVars, segVars,
                 manVars, crashes>>

\* writeManifestFile writes the new list into the truncated file.
ManifestWrite ==
  /\ pc = "writeManifest"
  /\ manifest' = ManifestOf(newList)
  /\ newList' = << >>
  /\ Return("nil")
  /\ UNCHANGED <<queueVars, batch, pos, written, ackVars, fileVars, segVars, crashes>>

\* Writing the list fails and leaves the truncated file behind.
ManifestWriteFail ==
  /\ pc = "writeManifest" /\ "manifestErr" \in Faults
  /\ newList' = << >>
  /\ Return("failed")
  /\ UNCHANGED <<manifest, queueVars, batch, pos, written, ackVars, fileVars,
                 segVars, crashes>>
-----------------------------------------------------------------------------
(***************************************************************************)
(* Start: NewWAL, then Replay before the server accepts a client.          *)
(***************************************************************************)

\* Faulty variant: the first segment is reopened.
NewWALReopenFirst ==
  /\ phase = "down" /\ manifest.state = "ok"
  /\ manifest.segments[1] \in DOMAIN segs
  /\ phase' = "boot" /\ pc' = "replay"
  /\ seq' = manifest.segments[1]
  /\ file' = "open"
  /\ currentSz' = Len(segs[manifest.segments[1]])
  /\ UNCHANGED <<queueVars, batchVars, ackVars, segVars, manVars, crashes>>

\* The manifest lists segments: reopen the last one for appending.
NewWALReopen ==
  /\ phase = "down" /\ manifest.state = "ok"
  /\ LastOf(manifest.segments) \in DOMAIN segs
  /\ phase' = "boot" /\ pc' = "replay"
  /\ seq' = LastOf(manifest.segments)
  /\ file' = "open"
  /\ currentSz' = Len(segs[LastOf(manifest.segments)])
  /\ UNCHANGED <<queueVars, batchVars, ackVars, segVars, manVars, crashes>>

\* There is no manifest: rotate creates the first segment.  (With an
\* unreadable manifest NewWAL fails and nothing changes.)
NewWALCreate ==
  /\ phase = "down" /\ manifest.state = "absent"
  /\ phase' = "boot" /\ pc' = "open"
  /\ seq' = 0 /\ file' = "closed" /\ currentSz' = 0
  /\ UNCHANGED <<queueVars, batchVars, ackVars, segVars, manVars, crashes>>

\* Replay reads every segment of the manifest; the flusher takes over.
Replay ==
  /\ pc = "replay" /\ CanBoot
  /\ phase' = "run" /\ pc' = "recv"
  /\ UNCHANGED <<queueVars, batchVars, ackVars, fileVars, segVars, manVars, crashes>>

\* A segment cannot be read: NewWALEngine closes the log and gives up.
ReplayFail ==
  /\ pc = "replay" /\ ~CanBoot
  /\ phase' = "close" /\ pc' = "readManifest"
  /\ file' = "closed"
  /\ UNCHANGED <<seq, currentSz, queueVars, batchVars, ackVars, segVars, manVars,
                 crashes>>
-----------------------------------------------------------------------------
(***************************************************************************)
(* runFlusher.                                                             *)
(***************************************************************************)

\* The blocking receive of the first entry of a batch.
Receive ==
  /\ pc = "recv" /\ pending # << >>
  /\ batch' = <<Head(pending)>>
  /\ pending' = Tail(pending)
  /\ pc' = "drain"
  /\ UNCHANGED <<phase, wait, lastId, pos, written, err, ackVars, fileVars,
                 segVars, manVars, crashes>>

\* The drain loop takes whatever else is queued ...
Drain ==
  /\ pc = "drain" /\ pending # << >>
  /\ batch' = Append(batch, Head(pending))
  /\ pending' = Tail(pending)
  /\ UNCHANGED <<procVars, wait, lastId, pos, written, err, ackVars, fileVars,
                 segVars, manVars, crashes>>

\* ... and stops when the channel is empty.
DrainDone ==
  /\ pc = "drain" /\ pending = << >>
  /\ pc' = "encode"
  /\ pos' = 1 /\ written' = 0 /\ err' = "nil"
  /\ UNCHANGED <<phase, queueVars, batch, ackVars, fileVars, segVars, manVars, crashes>>

\* The size is added up and the segment rotated when it is full.
SizeCheck(total) ==
  /\ currentSz' = currentSz + total
  /\ pc' = IF MaxSize > 0 /\ currentSz + total >= MaxSize THEN "open" ELSE "ack"
  /\ pos' = 1

\* One record of the batch is appended to the current segment.
Encode ==
  /\ pc = "encode" /\ file = "open"
  /\ segs' = [segs EXCEPT ![seq] = Append(@, Whole(batch[pos]))]
  /\ written' = written + 1
  /\ pos' = pos + 1
  /\ pc' = IF pos = Len(batch) THEN "sync" ELSE "encode"
  /\ UNCHANGED <<phase, queueVars, batch, err, ackVars, fileVars, synced,
                 manVars, crashes>>

\* Faulty variant: the append's error is shadowed and never reported.
EncodeFailShadowed ==
  /\ pc = "encode"
  /\ file = "closed" \/ "writeErr" \in Faults
  /\ SizeCheck(written)
  /\ UNCHANGED <<phase, queueVars, batch, written, err, ackVars, seq, file,
                 segVars, manVars, crashes>>

\* The append fails, always on a closed file; part of the record may have
\* been written.  The rest of the batch is not written and nothing synced.
EncodeFail ==
  /\ pc = "encode"
  /\ \/ UNCHANGED segs /\ (file = "closed" \/ "writeErr" \in Faults)
     \/ /\ file = "open" /\ "writeErr" \in Faults
        /\ \E c \in Cuts : segs' = [segs EXCEPT ![seq] = Append(@, Cut(batch[pos], c))]
  /\ err' = "failed"
  /\ SizeCheck(written)
  /\ UNCHANGED <<phase, queueVars, batch, written, ackVars, seq, file, synced,
                 manVars, crashes>>

\* One fsync for the whole batch.
Sync ==
  /\ pc = "sync"
  /\ synced' = [synced EXCEPT ![seq] = Len(segs[seq])]
  /\ SizeCheck(written)
  /\ UNCHANGED <<phase, queueVars, batch, written, err, ackVars, seq, file,
                 segs, manVars, crashes>>

\* Faulty variant: the result of the fsync is dropped.
SyncFailDropped ==
  /\ pc = "sync" /\ "syncErr" \in Faults
  /\ SizeCheck(written)
  /\ UNCHANGED <<phase, queueVars, batch, written, err, ackVars, seq, file,
                 segVars, manVars, crashes>>

\* The fsync fails: nothing more is known to be on disk.
SyncFail ==
  /\ pc = "sync" /\ "syncErr" \in Faults
  /\ err' = "failed"
  /\ SizeCheck(written)
  /\ UNCHANGED <<phase, queueVars, batch, written, ackVars, seq, file, segVars,
                 manVars, crashes>>

\* Faulty variant: the loop over the batch runs one entry too far.
AckPastEnd ==
  /\ pc = "ack"
  /\ acked' = IF err = "failed" THEN acked ELSE acked \cup {batch[pos]}
  /\ failed' = IF err = "failed" THEN failed \cup {batch[pos]} ELSE failed
  /\ IF pos > Len(batch)
     THEN pc' = "recv" /\ batch' = << >> /\ pos' = 1 /\ written' = 0 /\ err' = "nil"
     ELSE pos' = pos + 1 /\ UNCHANGED <<pc, batch, written, err>>
  /\ UNCHANGED <<phase, queueVars, fileVars, segVars, manVars, crashes>>

\* Every entry of the batch gets the same answer, one after the other.
Ack ==
  /\ pc = "ack"
  /\ acked' = IF err = "failed" THEN acked ELSE acked \cup {batch[pos]}
  /\ failed' = IF err = "failed" THEN failed \cup {batch[pos]} ELSE failed
  /\ IF pos = Len(batch)
     THEN pc' = "recv" /\ batch' = << >> /\ pos' = 1 /\ written' = 0 /\ err' = "nil"
     ELSE pos' = pos + 1 /\ UNCHANGED <<pc, batch, written, err>>
  /\ UNCHANGED <<phase, queueVars, fileVars, segVars, manVars, crashes>>
-----------------------------------------------------------------------------
\* What a crash may leave of the files: everything that was synced, any
\* prefix of the rest and, in the current segment, part of the next record.
Survivors(keep, c) ==
  [s \in DOMAIN segs |->
     LET whole == SubSeq(segs[s], 1, keep[s])
     IN IF c # "whole" /\ s = seq /\ keep[s] < Len(segs[s])
        THEN Append(whole, Cut(segs[s][keep[s] + 1].id, c))
        ELSE whole]

\* The process dies; everything in memory is gone.
Crash ==
  /\ phase # "down" /\ crashes < MaxCrashes /\ "crash" \in Faults
  /\ pc = "writeManifest" => "truncCrash" \in Faults
  /\ \E keep \in [DOMAIN segs -> 0..MaxWrites],
        c \in {"whole"} \cup (IF "tornTail" \in Faults THEN Cuts ELSE {}) :
       /\ \A s \in DOMAIN segs : synced[s] <= keep[s] /\ keep[s] <= Len(segs[s])
       /\ segs' = Survivors(keep, c)
  /\ phase' = "down" /\ pc' = "new"
  /\ pending' = << >> /\ wait' = [w \in Writers |-> 0]
  /\ batch' = << >> /\ pos' = 1 /\ written' = 0 /\ err' = "nil"
  /\ seq' = 0 /\ file' = "closed" /\ currentSz' = 0
  /\ newList' = << >>
  /\ crashes' = crashes + 1
  /\ UNCHANGED <<lastId, ackVars, synced, manifest>>
-----------------------------------------------------------------------------
ManifestStep == ManifestTruncate \/ ManifestReadFail \/ ManifestWrite \/ ManifestWriteFail
BootStep == NewWALReopen \/ NewWALCreate \/ Replay \/ ReplayFail
FlushStep == Receive \/ Drain \/ DrainDone \/ Encode \/ EncodeFail \/ Sync \/ SyncFail \/ Ack

\* What the process does by itself.
Server == BootStep \/ FlushStep \/ RotateOpen \/ RotateFail \/ ManifestStep

Next == (\E w \in Writers : Write(w) \/ WriteReturn(w)) \/ Server \/ Crash

Spec == Init /\ [][Next]_vars

\* The Go scheduler runs every goroutine that can run, and a supervisor
\* restarts the process.
FairSpec == Spec /\ WF_vars(Server) /\ \A w \in Writers : WF_vars(WriteReturn(w))
-----------------------------------------------------------------------------
(***************************************************************************)
(* Properties.                                                             *)
(***************************************************************************)

ProcType ==
  /\ phase \in {"down", "boot", "run", "close"}
  /\ pc \in {"new", "open", "readManifest", "writeManifest", "replay", "recv",
             "drain", "encode", "sync", "ack"}
  /\ crashes \in Nat
QueueType == pending \in Seq(Nat) /\ wait \in [Writers -> Nat] /\ lastId \in Nat
BatchType ==
  /\ batch \in Seq(Nat) /\ pos \in Nat \ {0} /\ written \in Nat /\ err \in {"nil", "failed"}
  /\ pc \in {"encode", "ack"} => pos \in 1..Len(batch)
AckType == acked \subseteq Nat /\ failed \subseteq Nat
FileType ==
  /\ seq \in Nat /\ file \in {"open", "closed"} /\ currentSz \in Nat
  /\ file = "open" /\ phase # "down" => seq \in DOMAIN segs
SegType ==
  /\ DOMAIN segs \subseteq Nat /\ segs \in [DOMAIN segs -> Seq(Item)]
  /\ synced \in [DOMAIN segs -> Nat]
ManifestType == manifest \in Manifest /\ newList \in Seq(Nat)

\* Every variable has the shape the code gives it, and the flusher's
\* cursor and current file exist whenever a step of wal.go uses them.
TypeOK ==
  /\ ProcType /\ QueueType /\ BatchType /\ AckType
  /\ FileType /\ SegType /\ ManifestType

\* The record is in the part of a segment file that an fsync covered.
OnDisk(id) ==
  \E s \in DOMAIN segs : \E i \in 1..synced[s] :
    i <= Len(segs[s]) /\ segs[s][i] = Whole(id)

\* A Write that returned nil has its record on disk, whatever fails and
\* whenever the process dies: runFlusher answers nil only after the fsync
\* that covers the whole batch.
AckedOnDisk == \A id \in acked : OnDisk(id)

\* A restart finds every acknowledged record: once a Write has returned nil,
\* the manifest can be read, the segments it lists decode to their ends, and
\* they hold every record whose Write returned nil.
AckedRecovered == phase = "down" /\ acked # {} => CanBoot /\ acked \subseteq Replayed

\* A restart that succeeds has replayed every acknowledged record: damage
\* to the files stops NewWALEngine, it never drops a record unnoticed.
NoSilentLoss == phase = "down" /\ CanBoot => acked \subseteq Replayed

\* Replay hands records to the engine in the order of the Write calls, none
\* twice, across batches, rotations, failed rotations and restarts.
ReplayInOrder ==
  \A j, k \in 1..Len(manifest.segments) :
    LET a == segs[manifest.segments[j]]
        b == segs[manifest.segments[k]]
    IN \A m \in 1..Len(a), n \in 1..Len(b) :
         j < k \/ (j = k /\ m < n) => a[m].id < b[n].id

\* Every Write returns unless the process dies: no path through runFlusher,
\* a failed append, fsync or rotation included, forgets an entry of the
\* batch.
WriteReturns == \A w \in Writers : wait[w] # 0 ~> wait[w] = 0

\* The log as DurableLog sees it: the records of the listed segments.
Listed == IF pc = "writeManifest" THEN newList ELSE manifest.segments
LogIds == UNION {Records(segs[s]) : s \in Elems(Listed)}

\* Group commit, rotation and recovery together keep the promise of
\* DurableLog: records join the log in call order, only a record in the log
\* is acknowledged, and no crash loses an acknowledged one.
Promise == INSTANCE DurableLog WITH Ids <- 1..MaxWrites, log <- LogIds
DurableLogSpec == Promise!Spec
=============================================================================
