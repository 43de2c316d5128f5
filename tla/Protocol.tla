------------------------------ MODULE Protocol ------------------------------
(***************************************************************************)
(* core/protocol/protocol.go: the bytes of a request and of an array, and  *)
(* how they are read.  Bytes are their codes.  A stream is what will ever  *)
(* arrive: where it ends, reading fails.                                   *)
(***************************************************************************)
EXTENDS Integers, Sequences

CR == 13
LF == 10
Space == 9..13 \cup {32}
Digits == 48..57
StarSign == 42
Dollar == 36

\* %d of a natural number.
Itoa[n \in Nat] ==
  IF n < 10 THEN <<48 + n>> ELSE Itoa[n \div 10] \o <<48 + (n % 10)>>

WriteBulkString(msg) == <<Dollar>> \o Itoa[Len(msg)] \o <<CR, LF>> \o msg \o <<CR, LF>>

WriteArray(items) ==
  LET bulk[i \in 0..Len(items)] ==
        IF i = 0 THEN << >> ELSE bulk[i - 1] \o WriteBulkString(items[i])
  IN <<StarSign>> \o Itoa[Len(items)] \o <<CR, LF>> \o bulk[Len(items)]
-----------------------------------------------------------------------------
Failed == [ok |-> "no", args |-> << >>, rest |-> << >>]
Taken(args, rest) == [ok |-> "yes", args |-> args, rest |-> rest]

\* ReadString('\n') and TrimSpace, and what follows; or the end of the stream.
ReadLine(s) ==
  LET ends == {i \in 1..Len(s) : s[i] = LF}
      end == CHOOSE i \in ends : \A j \in ends : i <= j
      inner == {i \in 1..end : s[i] \notin Space}
      first == CHOOSE i \in inner : \A j \in inner : i <= j
      last == CHOOSE i \in inner : \A j \in inner : j <= i
  IN IF ends = {} THEN [eof |-> "yes", line |-> << >>, rest |-> << >>]
     ELSE [eof |-> "no", rest |-> SubSeq(s, end + 1, Len(s)),
           line |-> IF inner = {} THEN << >> ELSE SubSeq(s, first, last)]

\* Sscanf("%d") behind the character that starts a line: the digits up to another
\* character, or -1 where there is none.  Numbers are not signed here: what a
\* client writes is made by WriteArray.
Scan(line, sign) ==
  LET stop == {i \in 2..Len(line) + 1 : i > Len(line) \/ line[i] \notin Digits}
      end == CHOOSE i \in stop : \A j \in stop : i <= j
      value[i \in 1..end - 1] == IF i = 1 THEN 0 ELSE 10 * value[i - 1] + line[i] - 48
  IN IF line = << >> THEN -1
     ELSE IF line[1] # sign \/ end = 2 THEN -1 ELSE value[end - 1]

\* Faulty variant: whatever has arrived is taken for the whole string.
ReadBulkSome(s) ==
  LET head == ReadLine(s)
      length == Scan(head.line, Dollar)
      there == IF Len(head.rest) < length THEN Len(head.rest) ELSE length
  IN IF head.eof = "yes" \/ length < 0 THEN Failed
     ELSE Taken(<<SubSeq(head.rest, 1, there)>>, SubSeq(head.rest, there + 3, Len(head.rest)))

\* Faulty variant: the line end after the string stays unread.
ReadBulkNoEnd(s) ==
  LET head == ReadLine(s)
      length == Scan(head.line, Dollar)
  IN IF head.eof = "yes" \/ length < 0 \/ Len(head.rest) < length THEN Failed
     ELSE Taken(<<SubSeq(head.rest, 1, length)>>, SubSeq(head.rest, length + 1, Len(head.rest)))

\* One argument: a line with its length, then that many bytes and two more.
ReadBulk(s) ==
  LET head == ReadLine(s)
      length == Scan(head.line, Dollar)
  IN IF head.eof = "yes" \/ length < 0 \/ Len(head.rest) < length + 2 THEN Failed
     ELSE Taken(<<SubSeq(head.rest, 1, length)>>, SubSeq(head.rest, length + 3, Len(head.rest)))

Parse(s) ==
  LET head == ReadLine(s)
      count == Scan(head.line, StarSign)
      loop[i \in 0..count] ==
        IF i = 0 THEN Taken(<< >>, head.rest)
        ELSE LET before == loop[i - 1]
                 next == ReadBulk(before.rest)
             IN IF before.ok = "no" \/ next.ok = "no" THEN Failed
                ELSE Taken(before.args \o next.args, next.rest)
  IN IF head.eof = "yes" \/ count < 0 THEN Failed ELSE loop[count]
=============================================================================
