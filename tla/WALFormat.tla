----------------------------- MODULE WALFormat ------------------------------
(***************************************************************************)
(* wal/format.go: how an operation becomes a record, the record bytes in a *)
(* segment, and the bytes a record again.  A byte is the tuple <<n>>.  The *)
(* checksum is taken as perfect: its four bytes name the bytes it is of.   *)
(* Base is 256 in the code; the lengths in a record are two and four       *)
(* digits to this base, so a small Base wraps where the code does, only    *)
(* earlier.                                                                *)
(***************************************************************************)
EXTENDS Integers, Sequences

CONSTANT Base      \* values of a byte

ASSUME WALFormatConstants == Base \in {4, 256}

entryHeaderSize == 4 + 1 + 2 + 4 + 8

Nul == <<0>>

\* The operations in the order of their codes, OpSet = 1 to OpHDel = 14.
Codes == <<"SET", "DEL", "INCR", "DECR", "FLUSHALL", "LPUSH", "RPUSH", "LPOP", "RPOP",
           "SADD", "SREM", "SPOP", "HSET", "HDEL">>

\* Those with a key only, and those with a key and a value.
Popping == {"DEL", "INCR", "DECR", "LPOP", "RPOP", "SPOP"}
Paired == {"SET", "LPUSH", "RPUSH", "SADD", "SREM", "HDEL"}

\* A name that is not known is logged as SET.
opToCode(op) ==
  IF \E i \in DOMAIN Codes : Codes[i] = op
  THEN CHOOSE i \in DOMAIN Codes : Codes[i] = op ELSE 1

MakeRecord(code, args) ==
  LET record(key, value) == [op |-> code, key |-> key, value |-> value]
      op == Codes[code]
  IN CASE op \in Popping -> record(args[1], << >>)
       [] op \in Paired -> record(args[1], args[2])
       [] op = "HSET" -> record(args[1], <<Nul>> \o args[2] \o <<Nul>> \o args[3])
       [] op = "FLUSHALL" -> record(<< >>, << >>)

\* Faulty variant: cuts at the last NUL.
HashFieldAndValueLast(r) ==
  LET nuls == {i \in 1..Len(r.value) : r.value[i] = Nul}
      cut == CHOOSE i \in nuls : \A j \in nuls : j <= i
  IN <<SubSeq(r.value, 2, cut - 1), SubSeq(r.value, cut + 1, Len(r.value))>>

\* strings.SplitN(r.Value, "\x00", 3), of which the first part is empty: from the
\* first NUL to the second one, and the rest.
HashFieldAndValue(r) ==
  LET nuls == {i \in 2..Len(r.value) : r.value[i] = Nul}
      cut == CHOOSE i \in nuls : \A j \in nuls : i <= j
  IN IF nuls = {} THEN <<<< >>, << >>>>
     ELSE <<SubSeq(r.value, 2, cut - 1), SubSeq(r.value, cut + 1, Len(r.value))>>

\* The call of the engine that replaySegment makes for a record.
ReplayCall(r) ==
  LET op == Codes[r.op]
  IN CASE op \in Popping -> <<op, <<r.key>>>>
       [] op \in Paired -> <<op, <<r.key, r.value>>>>
       [] op = "HSET" -> <<op, <<r.key>> \o HashFieldAndValue(r)>>
       [] op = "FLUSHALL" -> <<op, << >>>>
-----------------------------------------------------------------------------
\* binary.BigEndian of two and of four bytes; a number too large loses its
\* upper digits.
PutUint16(n) == <<<<(n \div Base) % Base>>, <<n % Base>>>>
PutUint32(n) == PutUint16(n \div (Base * Base)) \o PutUint16(n)
Uint16(b) == Base * b[1][1] + b[2][1]
Uint32(b) == Base * Base * Uint16(SubSeq(b, 1, 2)) + Uint16(SubSeq(b, 3, 4))

Checksum(b) == [i \in 1..4 |-> <<i, b>>]

\* ExpireAt is always 0.
NoExpiry == [i \in 1..8 |-> <<0>>]

EncodeRecord(r) ==
  LET body == <<<<r.op>>>> \o PutUint16(Len(r.key)) \o r.key
                \o PutUint32(Len(r.value)) \o r.value \o NoExpiry
  IN Checksum(body) \o body

Short == [err |-> "short"]

DecodeRecord(data) ==
  LET keyLen == Uint16(SubSeq(data, 6, 7))
      valAt == 7 + keyLen
      valLen == Uint32(SubSeq(data, valAt + 1, valAt + 4))
  IN IF Len(data) < entryHeaderSize THEN Short
     ELSE IF SubSeq(data, 1, 4) # Checksum(SubSeq(data, 5, Len(data))) THEN [err |-> "checksum"]
     ELSE IF valAt + 4 > Len(data) THEN Short
     ELSE IF valAt + 4 + valLen + 8 > Len(data) THEN Short
     ELSE [err |-> "nil", op |-> data[5][1], key |-> SubSeq(data, 8, valAt),
           value |-> SubSeq(data, valAt + 5, valAt + 4 + valLen)]
-----------------------------------------------------------------------------
\* Faulty variant: the value is not counted in the length of the record.
DecodeKeyOnly(s) ==
  LET keyLen == Uint16(SubSeq(s, 6, 7))
  IN IF s = << >> THEN [err |-> "EOF"]
     ELSE IF Len(s) < entryHeaderSize THEN [err |-> "unexpected EOF"]
     ELSE IF Len(s) < entryHeaderSize + keyLen THEN [err |-> "unexpected EOF"]
     ELSE DecodeRecord(SubSeq(s, 1, entryHeaderSize + keyLen))

\* RecordDecoder.Decode on what is left of a segment.  The header is read first,
\* and the length of the value is looked for in it; ReadFull says EOF, rather
\* than unexpected EOF, where it reads nothing.
Decode(s) ==
  LET keyLen == Uint16(SubSeq(s, 6, 7))
      valLen == Uint32(SubSeq(s, 8 + keyLen, 11 + keyLen))
      total == entryHeaderSize + keyLen + valLen
      stop(err) == [err |-> err]
  IN IF s = << >> THEN stop("EOF")
     ELSE IF Len(s) < entryHeaderSize THEN stop("unexpected EOF")
     ELSE IF 11 + keyLen > entryHeaderSize THEN stop("panic")
     ELSE IF Len(s) = entryHeaderSize /\ total > entryHeaderSize THEN stop("EOF")
     ELSE IF Len(s) < total THEN stop("unexpected EOF")
     ELSE DecodeRecord(SubSeq(s, 1, total))

\* The records of a segment up to the first error, and that error.
replaySegment(s) ==
  LET from[i \in 0..Len(s)] ==
        LET d == Decode(SubSeq(s, i + 1, Len(s)))
            more == from[i + entryHeaderSize + Len(d.key) + Len(d.value)]
        IN IF d.err # "nil" THEN [calls |-> << >>, err |-> d.err]
           ELSE [calls |-> <<ReplayCall(d)>> \o more.calls, err |-> more.err]
  IN from[0]
=============================================================================
