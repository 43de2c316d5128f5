---------------------------- MODULE MCFunctions -----------------------------
(***************************************************************************)
(* The functions of the program that compute without state of their own,   *)
(* each applied to every input of a small set: a behaviour is one          *)
(* application.  The result is checked against what the function is for.   *)
(***************************************************************************)
EXTENDS WALFormat, ListRange, Glob, Protocol, Config, Compaction

CONSTANT KeyLengths      \* of the keys in segments

VARIABLES input, result

vars == <<input, result>>

\* Sequences over S of at most n elements.
UpTo(S, n) == UNION {[1..m -> S] : m \in 0..n}
Bytes(n, b) == [i \in 1..n |-> <<b>>]
-----------------------------------------------------------------------------
\* Operations; their values are with and without NUL.
SomeValues == {<< >>, Bytes(1, 0), Bytes(1, 1), <<<<1>>, <<0>>, <<2>>>>, Bytes(17, 3)}
SomeKeys == {Bytes(0, 1), Bytes(1, 2), Bytes(8, 3), Bytes(15, 2)}
EngineCalls(keys) ==
  {<<op, <<k>>>> : op \in Popping, k \in keys}
    \cup {<<op, <<k, v>>>> : op \in Paired, k \in keys, v \in SomeValues}
    \cup {<<"HSET", <<k, f, v>>>> : k \in keys, f \in SomeValues, v \in SomeValues}
    \cup {<<"FLUSHALL", << >>>>}

Logged(call) == EncodeRecord(MakeRecord(opToCode(call[1]), call[2]))

\* A segment of two records of which the first cut bytes are left.
Firsts ==
  {<<"SET", <<Bytes(n, 1), Bytes(2, 1)>>>> : n \in KeyLengths} \cup {<<"FLUSHALL", << >>>>}
Seconds == {<<"HSET", <<Bytes(1, 1), Bytes(1, 2), Bytes(1, 3)>>>>, <<"INCR", <<Bytes(0, 1)>>>>}
Segments ==
  UNION {{[fn |-> "segment", first |-> a, second |-> b, cut |-> n] :
            n \in 0..Len(Logged(a) \o Logged(b))} : a \in Firsts, b \in Seconds}

Slices ==
  {[fn |-> "lrange", list |-> [i \in 1..n |-> i], start |-> a, stop |-> b] :
     n \in 0..3, a \in -5..5, b \in -5..5}

Letters == {97, 98, 99}
Patterns ==
  UpTo({Star, AnyOne, 97}, 4)
    \cup {<<Open>> \o p : p \in UpTo({Close, Dash, Star, 97}, 3)}
    \cup {<<Open, 97, Dash>> \o p : p \in UpTo({Close, Dash, Star, 99}, 3)}
Globs ==
  {[fn |-> "glob", pattern |-> p, key |-> s] :
     p \in Patterns, s \in UpTo(Letters, 2) \cup {<<97, 99, 97>>, <<Open, 97>>, <<Open, Star>>, <<Dash>>}}

Arguments ==
  UpTo({<< >>, <<97>>, <<CR, LF>>, <<Dollar, 49, CR, LF, 97>>, [i \in 1..12 |-> 98]}, 2)
Pipelined == {<< >>, WriteArray(<<<<97>>>>), <<CR, LF>>}
Streams ==
  {[fn |-> "parse", args |-> a, rest |-> r, cut |-> 0] : a \in Arguments, r \in Pipelined}
    \cup UNION {{[fn |-> "parse", args |-> a, rest |-> << >>, cut |-> n] :
                   n \in 1..Len(WriteArray(a))} : a \in Arguments}

\* Three of the settings; timeout has no flag.
Settings == {"port", "requirepass", "timeout"}
DefaultConfig == [s \in Settings |-> 0]
Partial(S, v) == UNION {[D -> v] : D \in SUBSET S}
Starts ==
  {[fn |-> "config", given |-> g, file |-> [state |-> st, settings |-> f]] :
     g \in Partial(Flags, {0, 1}), st \in {"missing", "broken", "read"}, f \in Partial(Settings, {0, 2})}

\* Two or three segments of SET and DEL records, and a crash after n writes.
Writes ==
  [op : {"SET"}, key : {1, 2}, value : {1, 2}] \cup [op : {"DEL"}, key : {1, 2}, value : {1}]
Disks ==
  {[manifest |-> <<1>>, segs |-> <<a>>] : a \in UpTo(Writes, 1)}
    \cup {[manifest |-> <<1, 2>>, segs |-> <<a, b>>] : a \in UpTo(Writes, 2), b \in UpTo(Writes, 1)}
    \cup {[manifest |-> <<1, 2, 3>>, segs |-> <<a, b, c>>] :
             a \in UpTo(Writes, 1), b \in UpTo(Writes, 1), c \in UpTo(Writes, 1)}
Compactions ==
  UNION {{[fn |-> "compact", disk |-> d, writes |-> n] :
            n \in 0..Len(Compact(d, Len(d.manifest), {1, 2})) - 1} : d \in Disks}

Init ==
  /\ input \in {[fn |-> "record", call |-> c] : c \in EngineCalls(SomeKeys)}
       \cup Segments \cup Slices \cup Globs \cup Streams \cup Starts \cup Compactions
  /\ result = [done |-> "no"]

Compute(fn, value) ==
  /\ input.fn = fn /\ result.done = "no"
  /\ result' = [done |-> "yes", value |-> value]
  /\ UNCHANGED input

Stream == WriteArray(input.args) \o input.rest
After(n) == Compact(input.disk, Len(input.disk.manifest), {1, 2})[n + 1]

Next ==
  \/ Compute("record", DecodeRecord(Logged(input.call)))
  \/ Compute("segment", replaySegment(SubSeq(Logged(input.first) \o Logged(input.second), 1, input.cut)))
  \/ Compute("lrange", LRange(input.list, input.start, input.stop))
  \/ Compute("glob", matchPattern(input.pattern, input.key))
  \/ Compute("parse", Parse(SubSeq(Stream, 1, Len(Stream) - input.cut)))
  \/ Compute("config", Configured(input.given, input.file))
  \/ Compute("compact", Replay(After(input.writes), {1, 2}))

Spec == Init /\ [][Next]_vars

Done(fn) == result.done = "yes" /\ input.fn = fn
-----------------------------------------------------------------------------
\* A record is decoded to the operation that was encoded (MakeRecord,
\* EncodeRecord, DecodeRecord, replaySegment), whatever bytes are in its key and
\* its value; only the field of an HSET must not hold a NUL.
LoggedIsReplayed ==
  Done("record") =>
    /\ result.value.err = "nil"
    /\ ReplayCall(result.value) = input.call
         <=> (input.call[1] = "HSET" => Nul \notin {input.call[2][2][i] : i \in DOMAIN input.call[2][2]})

\* However many bytes of a segment are left, replay applies the records that are
\* there in full, in their order, and nothing else; the end of the segment is an
\* error only within a record (RecordDecoder.Decode, replaySegment).
CutNeverInvents ==
  Done("segment") =>
    LET sizes == <<Len(Logged(input.first)), Len(Logged(input.first)) + Len(Logged(input.second))>>
        whole == {i \in 1..2 : sizes[i] <= input.cut}
    IN /\ result.value.calls = SubSeq(<<input.first, input.second>>, 1, Cardinality(whole))
       /\ result.value.err # "EOF" =>
            result.value.err = "unexpected EOF" /\ input.cut \notin {0, sizes[1], sizes[2]}

\* "On restart the WAL is replayed to rebuild state": a segment that is there in
\* full is replayed in full.
WholeSegmentReplayed ==
  Done("segment") /\ input.cut = Len(Logged(input.first) \o Logged(input.second)) =>
    result.value = [calls |-> <<input.first, input.second>>, err |-> "EOF"]

\* LRANGE answers the elements between its two ends, counted from the front or
\* from the back.
RangeExact ==
  Done("lrange") => RangeOf(result.value, input.list, input.start, input.stop)

\* A key matches a pattern of KEYS exactly if it can be cut into pieces that the
\* items of the pattern stand for (globMatch and its backtracking over stars).
GlobExact ==
  Done("glob") =>
    (result.value <=> Means(input.pattern, input.key, Letters \cup {Open, Star, Dash}))

\* A request is parsed to its arguments, whatever bytes are in them, and what the
\* client sent behind it is left for the next Parse.
PipelinedExact ==
  Done("parse") /\ input.cut = 0 =>
    result.value = Taken(input.args, input.rest)

\* A request that has not arrived in full is never taken for a command, though
\* its arguments may hold whole requests (Parse, ReadFull).
PrefixWaits ==
  Done("parse") /\ input.cut > 0 => result.value.ok = "no"

\* Every setting is that of its flag if the flag is given, else that of the file,
\* else the default, and a file that cannot be decoded stops the program
\* (ParseFlags, Load, Merge, main): a flag given with its default value wins.
Precedence ==
  Done("config") => InOrder(input.given, input.file, result.value)

\* After a crash in Compact, or its end, a restart rebuilds the contents from
\* before, or fails and rebuilds none: it never comes up with other contents, if
\* the log holds SET and DEL only.
CompactCrashSafe ==
  Done("compact") =>
    \/ result.value = NoStart
    \/ result.value = Replay(input.disk, {1, 2})

\* When Compact is done, replay gives the contents from before, and the one
\* segment that is left has a record for each key that exists and no other.
CompactExact ==
  Done("compact") /\ input.writes = Len(Compact(input.disk, Len(input.disk.manifest), {1, 2})) - 1
    /\ Len(input.disk.manifest) > 1 =>
    LET contents == Replay(input.disk, {1, 2})
    IN /\ result.value = contents
       /\ Len(Records(After(input.writes))) = Cardinality({k \in {1, 2} : contents[k] # NoValue})
=============================================================================
