----------------------------- MODULE Compaction -----------------------------
(***************************************************************************)
(* wal/wal.go: Compact, the writes to the disk that it makes one after the *)
(* other, and the replay of what a crash after some of them leaves.  A     *)
(* disk has segments, by their numbers, and the manifest that lists them;  *)
(* << >> stands for a manifest that was truncated and not yet written.     *)
(* Keys are numbers, sorted as such.                                       *)
(***************************************************************************)
EXTENDS Integers, Sequences, FiniteSets, SequencesExt

CONSTANT NoValue

\* The contents that replay rebuilds from a sequence of SET, DEL and FLUSHALL.
Applied(contents, r) ==
  CASE r.op = "SET" -> [contents EXCEPT ![r.key] = r.value]
    [] r.op = "DEL" -> [contents EXCEPT ![r.key] = NoValue]
    [] r.op = "FLUSHALL" -> [k \in DOMAIN contents |-> NoValue]

Contents(records, keys) == FoldLeft(Applied, [k \in keys |-> NoValue], records)

\* The records of the segments that a manifest lists.
Records(disk) == FlattenSeq([i \in DOMAIN disk.manifest |-> disk.segs[disk.manifest[i]]])

\* Replay returned an error, and the server does not start.
NoStart == << >>

\* Faulty variant: a segment that is not there counts as empty.
ReplaySkips(disk, keys) ==
  LET there == SelectSeq(disk.manifest, LAMBDA s : s \in DOMAIN disk.segs)
  IN IF disk.manifest = << >> THEN NoStart
     ELSE Contents(Records([disk EXCEPT !.manifest = there]), keys)

\* Replay: a manifest that cannot be decoded and a segment that cannot be opened
\* are errors.
Replay(disk, keys) ==
  IF disk.manifest = << >> \/ \E i \in DOMAIN disk.manifest : disk.manifest[i] \notin DOMAIN disk.segs
  THEN NoStart ELSE Contents(Records(disk), keys)

\* Faulty variant: a deleted key keeps its last record.
LatestKeepsDeleted(latest, r) ==
  IF r.op \in {"DEL", "FLUSHALL"} THEN latest ELSE [latest EXCEPT ![r.key] = <<r>>]

\* The map latest, with << >> for a key that has no entry; FLUSHALL has no key.
Latest(latest, r) ==
  CASE r.op = "DEL" -> [latest EXCEPT ![r.key] = << >>]
    [] r.op = "FLUSHALL" -> latest
    [] OTHER -> [latest EXCEPT ![r.key] = <<r>>]

\* The records of the new segment, in the order of their keys.
Kept(disk, keys) ==
  LET latest == FoldLeft(Latest, [k \in keys |-> << >>], Records(disk))
  IN FlattenSeq([i \in 1..Cardinality(keys) |-> latest[SetToSortSeq(keys, <)[i]]])

\* The disk as Compact finds it and after each of its writes: the new segment is
\* created and filled, the old segments are removed, the manifest is truncated
\* and written.  seq is the number of the current segment.
Compact(disk, seq, keys) ==
  LET old == disk.manifest
      kept == Kept(disk, keys)
      with(segs, n) == [s \in segs \cup {seq + 1} |->
                          IF s = seq + 1 THEN SubSeq(kept, 1, n) ELSE disk.segs[s]]
      left(n) == DOMAIN disk.segs \ {old[i] : i \in 1..n}
      filled == [i \in 1..Len(kept) + 1 |->
                   [manifest |-> old, segs |-> with(left(0), i - 1)]]
      removed == [i \in 1..Len(old) |->
                    [manifest |-> old, segs |-> with(left(i), Len(kept))]]
      listed(m) == <<[manifest |-> m, segs |-> with(left(Len(old)), Len(kept))]>>
  IN IF Len(old) <= 1 THEN <<disk>>
     ELSE <<disk>> \o filled \o removed \o listed(<< >>) \o listed(<<seq + 1>>)
=============================================================================
