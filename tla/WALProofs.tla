----------------------------- MODULE WALProofs ------------------------------
(***************************************************************************)
(* Proofs about the write-ahead log, for every number of writers, every    *)
(* queue capacity, segment size and set of faults.                         *)
(***************************************************************************)
EXTENDS WAL, WALFormat, SequenceTheorems, TLAPS

\* The steps that name no prover are within reach of Zenon.
USE Zenon

(***************************************************************************)
(* What is read from a segment is what was written to it, for keys and     *)
(* values of every length that fits the lengths in a record.               *)
(***************************************************************************)

\* The part b of a \o b \o c is found where it was put: the offsets of
\* EncodeRecord and DecodeRecord.
LEMMA Piece ==
  ASSUME NEW U, NEW a \in Seq(U), NEW b \in Seq(U), NEW c \in Seq(U)
  PROVE  /\ a \o b \o c \in Seq(U)
         /\ Len(a \o b \o c) = Len(a) + Len(b) + Len(c)
         /\ SubSeq(a \o b \o c, Len(a) + 1, Len(a) + Len(b)) = b
<1> DEFINE s == a \o b \o c
           t == SubSeq(s, Len(a) + 1, Len(a) + Len(b))
<1>1. /\ a \o b \in Seq(U) /\ Len(a \o b) = Len(a) + Len(b)
      /\ \A i \in 1..Len(a) + Len(b) : (a \o b)[i] = IF i <= Len(a) THEN a[i] ELSE b[i - Len(a)]
  BY ConcatProperties
<1>2. /\ s \in Seq(U) /\ Len(s) = Len(a \o b) + Len(c)
      /\ \A i \in 1..Len(a \o b) + Len(c) :
           s[i] = IF i <= Len(a \o b) THEN (a \o b)[i] ELSE c[i - Len(a \o b)]
  BY <1>1, ConcatProperties, SMTT(15)
<1>3. Len(a) \in Nat /\ Len(b) \in Nat /\ Len(c) \in Nat
  BY LenProperties
<1> HIDE DEF s
<1>4. /\ t \in Seq(U)
      /\ Len(t) = Len(b)
      /\ \A i \in 1..Len(b) : t[i] = s[Len(a) + i]
  <2> DEFINE m == Len(a) + 1
             n == Len(a) + Len(b)
  <2>1. /\ m \in 1..Len(s) + 1 /\ n \in m - 1..Len(s)
        /\ n - m + 1 = Len(b) /\ \A i \in 1..Len(b) : m + i - 1 = Len(a) + i
    BY <1>1, <1>2, <1>3, SMTT(15)
  <2>2. t = SubSeq(s, m, n) /\ s \in Seq(U) BY <1>2
  <2> HIDE DEF m, n, t
  <2>3. m \in Int /\ n \in Int /\ (m <= n \/ n - m + 1 = 0) /\ \A i \in m..n : i \in 1..Len(s)
    BY <2>1, <1>3, SMTT(15)
  <2>4. \A i \in m..n : s[i] \in U BY <2>2, <2>3, ElementOfSeq
  <2>5. /\ SubSeq(s, m, n) \in Seq(U)
        /\ Len(SubSeq(s, m, n)) = IF m <= n THEN n - m + 1 ELSE 0
        /\ \A i \in 1..n - m + 1 : SubSeq(s, m, n)[i] = s[m + i - 1]
    BY <2>3, <2>4, SubSeqProperties, SMTT(15)
  <2>6. /\ t \in Seq(U) /\ Len(t) = n - m + 1
        /\ \A i \in 1..n - m + 1 : t[i] = s[m + i - 1]
    BY <2>2, <2>3, <2>5
  <2> QED BY <2>1, <2>6
<1> HIDE DEF t
<1>5. ASSUME NEW i \in 1..Len(b)
      PROVE  t[i] = b[i]
  <2>1. Len(a) + i \in 1..Len(a \o b) /\ ~(Len(a) + i <= Len(a)) /\ (Len(a) + i) - Len(a) = i
    BY <1>1, <1>3, SMTT(15)
  <2>2. s[Len(a) + i] = (a \o b)[Len(a) + i]
    BY <2>1, <1>1, <1>2, <1>3, SMTT(15)
  <2>3. (a \o b)[Len(a) + i] = b[i]
    BY <2>1, <1>1, <1>3
  <2> QED BY <2>2, <2>3, <1>4
<1>6. t = b
  BY <1>4, <1>5, SeqEqual
<1> QED BY <1>1, <1>2, <1>3, <1>6 DEF s, t

\* Arithmetic of the digits of a number to the base of a byte.
LEMMA DigitsOf ==
  ASSUME NEW m \in Nat
  PROVE  /\ m \div Base \in Nat /\ (m \div Base) % Base \in Nat /\ m % Base \in Nat
         /\ m \div (Base * Base) \in Nat /\ m % (Base * Base) \in Nat
         /\ Base * ((m \div Base) % Base) + (m % Base) = m % (Base * Base)
         /\ Base * Base * (m \div (Base * Base)) + (m % (Base * Base)) = m
         /\ m < Base * Base => m % (Base * Base) = m
         /\ m < Base * Base * Base * Base => m \div (Base * Base) < Base * Base
<1>1. CASE Base = 4
  <2>1. Base * Base = 16 /\ Base * Base * Base * Base = 256
    BY <1>1, SMT
  <2> QED BY <1>1, <2>1, SMT
<1>2. CASE Base = 256
  <2>1. Base * Base = 65536 /\ Base * Base * Base * Base = 4294967296
    BY <1>2, SMT
  <2> QED BY <1>2, <2>1, SMTT(15)
<1> QED BY <1>1, <1>2, WALFormatConstants

\* The two and four digits of a length give the length back, if it fits.
LEMMA Lengths ==
  ASSUME NEW n \in Nat
  PROVE  /\ n < Base * Base => Uint16(PutUint16(n)) = n
         /\ n < Base * Base * Base * Base => Uint32(PutUint32(n)) = n
         /\ PutUint16(n) \in Seq({<<m>> : m \in Nat}) /\ Len(PutUint16(n)) = 2
         /\ PutUint32(n) \in Seq({<<m>> : m \in Nat}) /\ Len(PutUint32(n)) = 4
<1> DEFINE B == {<<m>> : m \in Nat}
           hi == PutUint16(n \div (Base * Base))
           lo == PutUint16(n)
<1>1. Base \in Nat
  BY WALFormatConstants, SMT
<1>2. ASSUME NEW m \in Nat
      PROVE  /\ PutUint16(m) \in Seq(B) /\ Len(PutUint16(m)) = 2
             /\ Uint16(PutUint16(m)) = m % (Base * Base)
  <2>1. <<(m \div Base) % Base>> \in B /\ <<m % Base>> \in B
    BY DigitsOf
  <2>2. PutUint16(m) \in Seq(B) /\ Len(PutUint16(m)) = 2
    BY <2>1, SMT DEF PutUint16
  <2>3. Uint16(PutUint16(m)) = Base * ((m \div Base) % Base) + (m % Base)
    BY DEF PutUint16, Uint16
  <2> QED BY <2>2, <2>3, DigitsOf
<1>3. n < Base * Base => Uint16(PutUint16(n)) = n
  BY <1>2, DigitsOf
<1>4. n \div (Base * Base) \in Nat
  BY DigitsOf
<1>5. hi \in Seq(B) /\ lo \in Seq(B) /\ Len(hi) = 2 /\ Len(lo) = 2
  BY <1>2, <1>4
<1> HIDE DEF hi, lo, B
<1>6. << >> \in Seq(B) /\ << >> \o hi \o lo = hi \o lo /\ hi \o lo \o << >> = hi \o lo
  BY <1>5, SMT
<1>7. SubSeq(hi \o lo, 1, 2) = hi /\ SubSeq(hi \o lo, 3, 4) = lo
      /\ hi \o lo \in Seq(B) /\ Len(hi \o lo) = 4
  BY <1>5, <1>6, Piece, SMTT(15)
<1>8. ASSUME n < Base * Base * Base * Base
      PROVE  Uint32(hi \o lo) = n
  <2>1. Uint16(lo) = n % (Base * Base)
    BY <1>2 DEF lo
  <2>2. Uint16(hi) = n \div (Base * Base)
    BY <1>2, <1>4, <1>8, DigitsOf, SMTT(15) DEF hi
  <2>3. Uint32(hi \o lo) = Base * Base * (n \div (Base * Base)) + (n % (Base * Base))
    BY <2>1, <2>2, <1>7 DEF Uint32
  <2> QED BY <2>3, DigitsOf
<1> QED BY <1>2, <1>3, <1>7, <1>8 DEF PutUint32, hi, lo, B
-----------------------------------------------------------------------------
\* Concatenation, length and subsequence under names of their own, and the facts
\* on them that place the parts of a record.  Q is the set of sequences.
Cat(x, y) == x \o y
Size(x) == Len(x)
Sub(x, i, j) == SubSeq(x, i, j)

Joins(Q) ==
  /\ \A x \in Q : Size(x) \in Nat
  /\ \A x, y \in Q : /\ Cat(x, y) \in Q
                     /\ Size(Cat(x, y)) = Size(x) + Size(y)
                     /\ Sub(Cat(x, y), 1, Size(x)) = x
  /\ \A x, y, z \in Q : /\ Cat(Cat(x, y), z) = Cat(x, Cat(y, z))
                        /\ Sub(Cat(Cat(x, y), z), Size(x) + 1, Size(x) + Size(y)) = y

\* The sequences over a set have these properties.
LEMMA SequencesJoin ==
  ASSUME NEW U
  PROVE  Joins(Seq(U))
<1>1. \A x \in Seq(U) : Size(x) \in Nat
  BY LenProperties DEF Size
<1>2. ASSUME NEW x \in Seq(U), NEW y \in Seq(U)
      PROVE  /\ Cat(x, y) \in Seq(U)
             /\ Size(Cat(x, y)) = Size(x) + Size(y)
             /\ Sub(Cat(x, y), 1, Size(x)) = x
  <2>1. Cat(x, y) \in Seq(U) /\ Size(Cat(x, y)) = Size(x) + Size(y)
    BY ConcatProperties DEF Cat, Size
  <2>2. << >> \in Seq(U) /\ Len(<< >>) = 0 /\ << >> \o x = x /\ Len(x) \in Nat
    BY SMT
  <2>3. SubSeq(<< >> \o x \o y, Len(<< >>) + 1, Len(<< >>) + Len(x)) = x
    BY <2>2, Piece, SMT
  <2>4. SubSeq(x \o y, 1, Len(x)) = x
    BY <2>2, <2>3, SMT
  <2> QED BY <2>1, <2>4 DEF Cat, Sub, Size
<1>3. ASSUME NEW x \in Seq(U), NEW y \in Seq(U), NEW z \in Seq(U)
      PROVE  /\ Cat(Cat(x, y), z) = Cat(x, Cat(y, z))
             /\ Sub(Cat(Cat(x, y), z), Size(x) + 1, Size(x) + Size(y)) = y
  <2>1. (x \o y) \o z = x \o (y \o z)
    BY SMT
  <2>2. SubSeq(x \o y \o z, Len(x) + 1, Len(x) + Len(y)) = y
    BY Piece, SMT
  <2> QED BY <2>1, <2>2 DEF Cat, Sub, Size
<1> QED BY <1>1, <1>2, <1>3 DEF Joins

\* The parts of a record, one behind the other, in a segment s that goes on with
\* rest.
Layout(Q, c, p1, p2, p3, p4, p5, p6, rest, body, s) ==
  /\ c \in Q /\ p1 \in Q /\ p2 \in Q /\ p3 \in Q /\ p4 \in Q /\ p5 \in Q /\ p6 \in Q
  /\ rest \in Q
  /\ Size(c) = 4 /\ Size(p1) = 1 /\ Size(p2) = 2 /\ Size(p4) = 4 /\ Size(p6) = 8
  /\ body = Cat(Cat(Cat(Cat(Cat(p1, p2), p3), p4), p5), p6)
  /\ s = Cat(Cat(c, body), rest)

\* Where Layout puts the parts.
Placed(Q, c, p1, p2, p3, p4, p5, rest, body, s) ==
  /\ body \in Q /\ Size(body) = 15 + Size(p3) + Size(p5)
  /\ s \in Q /\ Size(s) = 19 + Size(p3) + Size(p5) + Size(rest)
  /\ Sub(s, 1, 4) = c
  /\ Sub(s, 5, 19 + Size(p3) + Size(p5)) = body
  /\ Sub(s, 5, 5) = p1
  /\ Sub(s, 6, 7) = p2
  /\ Sub(s, 8, 7 + Size(p3)) = p3
  /\ Sub(s, 8 + Size(p3), 11 + Size(p3)) = p4
  /\ Sub(s, 12 + Size(p3), 11 + Size(p3) + Size(p5)) = p5

\* Where the parts are, at the offsets of EncodeRecord and DecodeRecord.
LEMMA Laid ==
  ASSUME NEW Q, Joins(Q), NEW c, NEW p1, NEW p2, NEW p3, NEW p4, NEW p5, NEW p6, NEW rest,
         NEW body, NEW s, Layout(Q, c, p1, p2, p3, p4, p5, p6, rest, body, s)
  PROVE  Placed(Q, c, p1, p2, p3, p4, p5, rest, body, s)
<1> USE DEF Layout, Placed
<1>1. \A x, y \in Q : /\ Cat(x, y) \in Q /\ Size(Cat(x, y)) = Size(x) + Size(y)
                     /\ Sub(Cat(x, y), 1, Size(x)) = x
  BY DEF Joins
<1>2. \A x, y, z \in Q : Cat(Cat(x, y), z) = Cat(x, Cat(y, z))
  BY SMTT(15) DEF Joins
<1>3. \A x, y, z \in Q : Sub(Cat(Cat(x, y), z), Size(x) + 1, Size(x) + Size(y)) = y
  BY DEF Joins
<1>4. Size(p3) \in Nat /\ Size(p5) \in Nat /\ Size(rest) \in Nat
  BY DEF Joins
<1> DEFINE q2 == Cat(p1, p2)
           q3 == Cat(q2, p3)
           q4 == Cat(q3, p4)
           q5 == Cat(q4, p5)
           z5 == Cat(p6, rest)
           z4 == Cat(p5, z5)
           z3 == Cat(p4, z4)
           z2 == Cat(p3, z3)
           z1 == Cat(p2, z2)
           a2 == Cat(c, p1)
           a3 == Cat(a2, p2)
           a4 == Cat(a3, p3)
           a5 == Cat(a4, p4)
<1>5. q2 \in Q /\ Size(q2) = 3 /\ a2 \in Q /\ Size(a2) = 5 /\ z5 \in Q
  BY <1>1, SMTT(15)
<1> HIDE DEF q2, z5, a2
<1>6. /\ q3 \in Q /\ Size(q3) = 3 + Size(p3) /\ a3 \in Q /\ Size(a3) = 7
      /\ z4 \in Q
  BY <1>1, <1>5, SMTT(15)
<1> HIDE DEF q3, z4, a3
<1>7. /\ q4 \in Q /\ Size(q4) = 7 + Size(p3) /\ a4 \in Q /\ Size(a4) = 7 + Size(p3)
      /\ z3 \in Q
  BY <1>1, <1>4, <1>6, SMTT(15)
<1> HIDE DEF q4, z3, a4
<1>8. /\ q5 \in Q /\ Size(q5) = 7 + Size(p3) + Size(p5)
      /\ a5 \in Q /\ Size(a5) = 11 + Size(p3) /\ z2 \in Q
  BY <1>1, <1>4, <1>7, SMTT(15)
<1> HIDE DEF q5, z2, a5
<1>9. body = Cat(q5, p6)
  BY DEF q2, q3, q4, q5
<1>10. body \in Q /\ Size(body) = 15 + Size(p3) + Size(p5) /\ z1 \in Q
  BY <1>1, <1>4, <1>8, <1>9, SMTT(15)
<1> HIDE DEF z1
<1>11. Cat(body, rest) = Cat(p1, z1)
  <2>1. Cat(body, rest) = Cat(q5, z5)
    BY <1>2, <1>8, <1>9, SMTT(15) DEF z5
  <2>2. Cat(q5, z5) = Cat(q4, z4)
    BY <1>2, <1>5, <1>7, SMTT(15) DEF q5, z4
  <2>3. Cat(q4, z4) = Cat(q3, z3)
    BY <1>2, <1>6, SMTT(15) DEF q4, z3
  <2>4. Cat(q3, z3) = Cat(q2, z2)
    BY <1>2, <1>5, <1>7, SMTT(15) DEF q3, z2
  <2>5. Cat(q2, z2) = Cat(p1, z1)
    BY <1>2, <1>8, SMTT(15) DEF q2, z1
  <2> QED BY <2>1, <2>2, <2>3, <2>4, <2>5
<1>12. s = Cat(c, Cat(body, rest)) /\ s = Cat(a2, z1)
  BY <1>2, <1>10, <1>11, SMTT(15) DEF a2
<1>13. s = Cat(Cat(c, p1), z1)
  BY <1>12 DEF a2
<1>14. s = Cat(Cat(a2, p2), z2) /\ s = Cat(a3, z2)
  BY <1>2, <1>5, <1>8, <1>12, SMTT(15) DEF z1, a3
<1>15. s = Cat(Cat(a3, p3), z3) /\ s = Cat(a4, z3)
  BY <1>2, <1>6, <1>7, <1>14, SMTT(15) DEF z2, a4
<1>16. s = Cat(Cat(a4, p4), z4) /\ s = Cat(a5, z4)
  BY <1>2, <1>6, <1>7, <1>15, SMTT(15) DEF z3, a5
<1>17. s = Cat(Cat(a5, p5), z5)
  BY <1>2, <1>5, <1>8, <1>16, SMTT(15) DEF z4
<1>18. s \in Q /\ Size(s) = 19 + Size(p3) + Size(p5) + Size(rest)
  <2>1. Cat(c, body) \in Q /\ Size(Cat(c, body)) = 19 + Size(p3) + Size(p5)
    BY <1>1, <1>4, <1>10, SMTT(15)
  <2> QED BY <2>1, <1>1, <1>4
<1>19. Sub(s, 1, 4) = c
  <2>1. Cat(body, rest) \in Q
    BY <1>1, <1>10
  <2>2. Sub(Cat(c, Cat(body, rest)), 1, Size(c)) = c
    BY <2>1, <1>1
  <2> QED BY <2>2, <1>12
<1>20. Sub(s, 5, 19 + Size(p3) + Size(p5)) = body
  <2>1. Sub(s, Size(c) + 1, Size(c) + Size(body)) = body
    BY <1>3, <1>10
  <2>2. Size(c) + 1 = 5 /\ Size(c) + Size(body) = 19 + Size(p3) + Size(p5)
    BY <1>4, <1>10, SMTT(15)
  <2> QED BY <2>1, <2>2
<1>21. Sub(s, 5, 5) = p1
  <2>1. Sub(s, Size(c) + 1, Size(c) + Size(p1)) = p1
    BY <1>3, <1>10, <1>13, SMTT(15)
  <2> QED BY <2>1, SMTT(15)
<1>22. Sub(s, 6, 7) = p2
  <2>1. Sub(Cat(Cat(a2, p2), z2), Size(a2) + 1, Size(a2) + Size(p2)) = p2
    BY <1>3, <1>5, <1>8
  <2>2. Sub(s, Size(a2) + 1, Size(a2) + Size(p2)) = p2
    BY <2>1, <1>14
  <2> QED BY <2>2, <1>5, SMTT(15)
<1>23. Sub(s, 8, 7 + Size(p3)) = p3
  <2>1. Sub(Cat(Cat(a3, p3), z3), Size(a3) + 1, Size(a3) + Size(p3)) = p3
    BY <1>3, <1>6, <1>7
  <2>2. Sub(s, Size(a3) + 1, Size(a3) + Size(p3)) = p3
    BY <2>1, <1>15
  <2> QED BY <2>2, <1>6, SMTT(15)
<1>24. Sub(s, 8 + Size(p3), 11 + Size(p3)) = p4
  <2>1. Sub(Cat(Cat(a4, p4), z4), Size(a4) + 1, Size(a4) + Size(p4)) = p4
    BY <1>3, <1>6, <1>7
  <2>2. Sub(s, Size(a4) + 1, Size(a4) + Size(p4)) = p4
    BY <2>1, <1>16
  <2>3. Size(a4) + 1 = 8 + Size(p3) /\ Size(a4) + Size(p4) = 11 + Size(p3)
    BY <1>4, <1>7, SMTT(15)
  <2> QED BY <2>2, <2>3
<1>25. Sub(s, 12 + Size(p3), 11 + Size(p3) + Size(p5)) = p5
  <2>1. Sub(s, Size(a5) + 1, Size(a5) + Size(p5)) = p5
    BY <1>3, <1>5, <1>8, <1>17, SMTT(15)
  <2>2. Size(a5) + 1 = 12 + Size(p3) /\ Size(a5) + Size(p5) = 11 + Size(p3) + Size(p5)
    BY <1>4, <1>8, SMTT(15)
  <2> QED BY <2>1, <2>2
<1> QED BY <1>10, <1>18, <1>19, <1>20, <1>21, <1>22, <1>23, <1>24, <1>25

\* A record with a key and a value that fit the lengths of two and four bytes.
Record(op, key, value) == [op |-> op, key |-> key, value |-> value]
Decoded(op, key, value) == [err |-> "nil", op |-> op, key |-> key, value |-> value]

\* The segment s begins with such a record, as EncodeRecord writes it.
Written(T, op, key, value, rest, s) ==
  /\ key \in Seq(T) /\ value \in Seq(T) /\ rest \in Seq(T)
  /\ Len(key) < Base * Base /\ Len(value) < Base * Base * Base * Base
  /\ s = EncodeRecord(Record(op, key, value)) \o rest

\* What DecodeRecord and RecordDecoder.Decode find at the offsets they look at.
FoundIn(op, key, value, rest, s) ==
  /\ Len(EncodeRecord(Record(op, key, value))) = 19 + Len(key) + Len(value)
  /\ Len(key) \in Nat /\ Len(value) \in Nat /\ Len(rest) \in Nat
  /\ Len(s) = 19 + Len(key) + Len(value) + Len(rest)
  /\ SubSeq(s, 1, 4) = Checksum(SubSeq(s, 5, 19 + Len(key) + Len(value)))
  /\ s[5] = <<op>>
  /\ Uint16(SubSeq(s, 6, 7)) = Len(key)
  /\ SubSeq(s, 8, 7 + Len(key)) = key
  /\ Uint32(SubSeq(s, 8 + Len(key), 11 + Len(key))) = Len(value)
  /\ SubSeq(s, 12 + Len(key), 11 + Len(key) + Len(value)) = value
  /\ SubSeq(s, 1, 19 + Len(key) + Len(value)) = EncodeRecord(Record(op, key, value))

\* Whatever EncodeRecord wrote is found there.
LEMMA Found ==
  ASSUME NEW T, NEW op, NEW key, NEW value, NEW rest, NEW s,
         Written(T, op, key, value, rest, s)
  PROVE  FoundIn(op, key, value, rest, s)
<1> USE DEF Written
<1> DEFINE p1 == <<<<op>>>>
           p2 == PutUint16(Len(key))
           p4 == PutUint32(Len(value))
           body == p1 \o p2 \o key \o p4 \o value \o NoExpiry
           c == Checksum(body)
           U == T \cup {<<op>>} \cup {<<m>> : m \in Nat} \cup {<<i, body>> : i \in 1..4}
           Q == Seq(U)
<1>1. Len(key) \in Nat /\ Len(value) \in Nat /\ Len(rest) \in Nat
  BY LenProperties
<1>2. /\ p2 \in Seq({<<m>> : m \in Nat}) /\ Len(p2) = 2 /\ Uint16(p2) = Len(key)
      /\ p4 \in Seq({<<m>> : m \in Nat}) /\ Len(p4) = 4 /\ Uint32(p4) = Len(value)
  BY <1>1, Lengths
<1>3. EncodeRecord(Record(op, key, value)) = c \o body
  BY DEF EncodeRecord, Record
<1> HIDE DEF p2, p4
<1>4. key \in Q /\ value \in Q /\ rest \in Q /\ p2 \in Q /\ p4 \in Q
  <2>1. T \subseteq U /\ {<<m>> : m \in Nat} \subseteq U
    OBVIOUS
  <2> HIDE DEF U
  <2> QED BY <2>1, <1>2, SeqMonotonic
<1>5. p1 \in Q /\ Len(p1) = 1
  BY SMT
<1>6. NoExpiry \in Q /\ Len(NoExpiry) = 8
  <2>1. <<0>> \in U
    OBVIOUS
  <2> HIDE DEF U
  <2> QED BY <2>1, SMT DEF NoExpiry
<1>7. c \in Q /\ Len(c) = 4
  <2>1. \A i \in 1..4 : <<i, body>> \in U
    OBVIOUS
  <2> HIDE DEF U, body
  <2> QED BY <2>1, SMT DEF Checksum
<1> HIDE DEF U, Q, c, p1
<1>8. Joins(Q)
  BY SequencesJoin DEF Q
<1>9. /\ body = Cat(Cat(Cat(Cat(Cat(p1, p2), key), p4), value), NoExpiry)
       /\ s = Cat(Cat(c, body), rest)
  BY <1>3 DEF Cat
<1> HIDE DEF body
<1>10. /\ Size(c) = 4 /\ Size(p1) = 1 /\ Size(p2) = 2 /\ Size(p4) = 4 /\ Size(NoExpiry) = 8
  BY <1>2, <1>5, <1>6, <1>7 DEF Size
<1>11. Layout(Q, c, p1, p2, key, p4, value, NoExpiry, rest, body, s)
  BY <1>4, <1>5, <1>6, <1>7, <1>9, <1>10 DEF Layout
<1>12. Placed(Q, c, p1, p2, key, p4, value, rest, body, s)
  BY <1>11, <1>8, Laid
<1>13. /\ Len(body) = 15 + Len(key) + Len(value)
       /\ Len(s) = 19 + Len(key) + Len(value) + Len(rest)
       /\ SubSeq(s, 1, 4) = c
       /\ SubSeq(s, 5, 19 + Len(key) + Len(value)) = body
       /\ SubSeq(s, 5, 5) = p1
       /\ SubSeq(s, 6, 7) = p2
       /\ SubSeq(s, 8, 7 + Len(key)) = key
       /\ SubSeq(s, 8 + Len(key), 11 + Len(key)) = p4
       /\ SubSeq(s, 12 + Len(key), 11 + Len(key) + Len(value)) = value
  <2>1. /\ Size(body) = 15 + Size(key) + Size(value)
        /\ Size(s) = 19 + Size(key) + Size(value) + Size(rest)
        /\ Sub(s, 1, 4) = c
        /\ Sub(s, 5, 19 + Size(key) + Size(value)) = body
        /\ Sub(s, 5, 5) = p1
        /\ Sub(s, 6, 7) = p2
        /\ Sub(s, 8, 7 + Size(key)) = key
        /\ Sub(s, 8 + Size(key), 11 + Size(key)) = p4
        /\ Sub(s, 12 + Size(key), 11 + Size(key) + Size(value)) = value
    BY <1>12 DEF Placed
  <2> QED BY <2>1 DEF Size, Sub
<1>14. s[5] = <<op>>
  <2>1. s \in Q
    BY <1>12 DEF Placed
  <2>2. s \in Seq(U) /\ 5 \in 1..Len(s)
    BY <2>1, <1>1, <1>13, SMTT(15) DEF Q
  <2>3. Head(SubSeq(s, 5, 5)) = s[5]
    BY <2>2, HeadTailOfSubSeq, SMT
  <2>4. Head(p1) = <<op>>
    BY SMT DEF p1
  <2>5. SubSeq(s, 5, 5) = p1
    BY <1>13
  <2> HIDE DEF p1
  <2> QED BY <2>3, <2>4, <2>5
<1>15. Len(c \o body) = 19 + Len(key) + Len(value)
  <2>1. body \in Q
    BY <1>12 DEF Placed
  <2>2. Size(Cat(c, body)) = Size(c) + Size(body)
    BY <2>1, <1>7, <1>8 DEF Joins
  <2> QED BY <2>2, <1>1, <1>7, <1>13, SMTT(15) DEF Size, Cat
<1>16. SubSeq(s, 1, 19 + Len(key) + Len(value)) = c \o body
  <2>1. Cat(c, body) \in Q
    <3>1. body \in Q
      BY <1>12 DEF Placed
    <3> QED BY <3>1, <1>7, <1>8 DEF Joins
  <2>2. Sub(Cat(Cat(c, body), rest), 1, Size(Cat(c, body))) = Cat(c, body)
    BY <2>1, <1>4, <1>8 DEF Joins
  <2> QED BY <2>2, <1>9, <1>15 DEF Sub, Cat, Size
<1> QED BY <1>1, <1>2, <1>3, <1>13, <1>14, <1>15, <1>16 DEF c, FoundIn

\* DecodeRecord gives back the record that EncodeRecord was given, whatever bytes
\* are in its key and its value, if their lengths fit two and four bytes.
THEOREM DecodedAsEncoded ==
  ASSUME NEW T, NEW op, NEW key \in Seq(T), NEW value \in Seq(T),
         Len(key) < Base * Base, Len(value) < Base * Base * Base * Base
  PROVE  DecodeRecord(EncodeRecord(Record(op, key, value))) = Decoded(op, key, value)
<1> DEFINE s == EncodeRecord(Record(op, key, value))
<1>1. << >> \in Seq(T) /\ Len(<< >>) = 0
  BY EmptySeq
<1>2. s = s \o << >>
  BY SMT DEF EncodeRecord, Checksum
<1>3. /\ Len(key) \in Nat /\ Len(value) \in Nat
      /\ Len(s) = 19 + Len(key) + Len(value)
      /\ SubSeq(s, 1, 4) = Checksum(SubSeq(s, 5, 19 + Len(key) + Len(value)))
      /\ s[5] = <<op>>
      /\ Uint16(SubSeq(s, 6, 7)) = Len(key)
      /\ SubSeq(s, 8, 7 + Len(key)) = key
      /\ Uint32(SubSeq(s, 8 + Len(key), 11 + Len(key))) = Len(value)
      /\ SubSeq(s, 12 + Len(key), 11 + Len(key) + Len(value)) = value
  <2>1. Written(T, op, key, value, << >>, s)
    BY <1>1, <1>2 DEF Written
  <2> HIDE DEF s
  <2>2. FoundIn(op, key, value, << >>, s)
    BY <2>1, Found
  <2>3. Len(key) \in Nat /\ Len(value) \in Nat /\ Len(s) = 19 + Len(key) + Len(value) + Len(<< >>)
    BY <2>2 DEF FoundIn
  <2>4. Len(s) = 19 + Len(key) + Len(value)
    BY <2>3, <1>1, SMT
  <2> QED BY <2>2, <2>3, <2>4 DEF FoundIn
<1> HIDE DEF s
<1>4. s[5][1] = op
  BY <1>3, SMTT(15)
<1>5. /\ (7 + Len(key)) + 1 = 8 + Len(key) /\ (7 + Len(key)) + 4 = 11 + Len(key)
      /\ (7 + Len(key)) + 5 = 12 + Len(key)
      /\ (7 + Len(key)) + 4 + Len(value) = 11 + Len(key) + Len(value)
      /\ ~(Len(s) < entryHeaderSize) /\ ~((7 + Len(key)) + 4 > Len(s))
      /\ ~((7 + Len(key)) + 4 + Len(value) + 8 > Len(s))
  BY <1>3, SMTT(15) DEF entryHeaderSize
<1>6. DecodeRecord(s) = Decoded(op, key, value)
  BY <1>3, <1>4, <1>5 DEF DecodeRecord, Decoded
<1> QED BY <1>6 DEF s

\* RecordDecoder reads a record whose key has at most 8 bytes as it was written,
\* wherever it is in a segment.
THEOREM RecordRead ==
  ASSUME NEW T, NEW op, NEW key \in Seq(T), NEW value \in Seq(T), NEW rest \in Seq(T),
         Len(key) <= 8, Len(value) < Base * Base * Base * Base
  PROVE  Decode(EncodeRecord(Record(op, key, value)) \o rest) = Decoded(op, key, value)
<1> DEFINE r == EncodeRecord(Record(op, key, value))
           s == r \o rest
<1>1. 8 < Base * Base
  BY WALFormatConstants, SMT
<1>2. Len(key) \in Nat /\ Base * Base \in Nat /\ Len(key) < Base * Base
  BY <1>1, LenProperties, WALFormatConstants, SMT
<1>3. /\ Len(value) \in Nat /\ Len(rest) \in Nat
      /\ Len(r) = 19 + Len(key) + Len(value)
      /\ Len(s) = 19 + Len(key) + Len(value) + Len(rest)
      /\ Uint16(SubSeq(s, 6, 7)) = Len(key)
      /\ Uint32(SubSeq(s, 8 + Len(key), 11 + Len(key))) = Len(value)
      /\ SubSeq(s, 1, 19 + Len(key) + Len(value)) = r
  <2>1. Written(T, op, key, value, rest, s)
    BY <1>2 DEF Written
  <2>2. r = EncodeRecord(Record(op, key, value))
    OBVIOUS
  <2> HIDE DEF r, s
  <2>3. FoundIn(op, key, value, rest, s)
    BY <2>1, Found
  <2> QED BY <2>2, <2>3 DEF FoundIn
<1> HIDE DEF r, s
<1>4. Len(s) >= 19 /\ Len(s) # 0
  BY <1>2, <1>3, SMTT(15)
<1>5. s # << >> /\ ~(Len(s) < entryHeaderSize)
  BY <1>4, EmptySeq, SMT DEF entryHeaderSize
<1>6. ~(11 + Len(key) > entryHeaderSize)
  BY <1>2, SMT DEF entryHeaderSize
<1>7. /\ entryHeaderSize + Len(key) + Len(value) = 19 + Len(key) + Len(value)
      /\ ~(Len(s) < entryHeaderSize + Len(key) + Len(value))
      /\ ~(Len(s) = entryHeaderSize /\ entryHeaderSize + Len(key) + Len(value) > entryHeaderSize)
  BY <1>2, <1>3, SMTT(15) DEF entryHeaderSize
<1>8. Decode(s) = DecodeRecord(r)
  BY <1>3, <1>5, <1>6, <1>7 DEF Decode
<1>9. DecodeRecord(r) = Decoded(op, key, value)
  BY <1>2, DecodedAsEncoded DEF r
<1> QED BY <1>8, <1>9 DEF r, s

\* RecordDecoder panics at a record whose key is longer, for the length of the
\* value is behind the header it has read.
THEOREM LongKeyPanics ==
  ASSUME NEW T, NEW op, NEW key \in Seq(T), NEW value \in Seq(T), NEW rest \in Seq(T),
         Len(key) > 8, Len(key) < Base * Base, Len(value) < Base * Base * Base * Base
  PROVE  Decode(EncodeRecord(Record(op, key, value)) \o rest) = [err |-> "panic"]
<1> DEFINE r == EncodeRecord(Record(op, key, value))
           s == r \o rest
<1>1. Len(key) \in Nat /\ Base * Base \in Nat /\ Len(key) < Base * Base
  BY LenProperties, WALFormatConstants, SMT
<1>2. /\ Len(value) \in Nat /\ Len(rest) \in Nat
      /\ Len(r) = 19 + Len(key) + Len(value)
      /\ Len(s) = 19 + Len(key) + Len(value) + Len(rest)
      /\ Uint16(SubSeq(s, 6, 7)) = Len(key)
      /\ Uint32(SubSeq(s, 8 + Len(key), 11 + Len(key))) = Len(value)
      /\ SubSeq(s, 1, 19 + Len(key) + Len(value)) = r
  <2>1. Written(T, op, key, value, rest, s)
    BY <1>1 DEF Written
  <2>2. r = EncodeRecord(Record(op, key, value))
    OBVIOUS
  <2> HIDE DEF r, s
  <2>3. FoundIn(op, key, value, rest, s)
    BY <2>1, Found
  <2> QED BY <2>2, <2>3 DEF FoundIn
<1> HIDE DEF r, s
<1>3. Len(s) >= 19 /\ Len(s) # 0
  BY <1>1, <1>2, SMTT(15)
<1>4. s # << >> /\ ~(Len(s) < entryHeaderSize)
  BY <1>3, EmptySeq, SMT DEF entryHeaderSize
<1>5. 11 + Len(key) > entryHeaderSize
  BY <1>1, SMT DEF entryHeaderSize
<1>6. Decode(s) = [err |-> "panic"]
  BY <1>2, <1>4, <1>5 DEF Decode
<1> QED BY <1>6 DEF r, s
-----------------------------------------------------------------------------
(***************************************************************************)
(* Where the process can be: which phases a step belongs to, and that a    *)
(* batch is there, with the cursor at its start, until it is answered.     *)
(***************************************************************************)
Control ==
  /\ phase = "down" <=> pc = "new"
  /\ pc \in {"recv", "drain", "encode", "sync", "ack"} => phase = "run"
  /\ pc = "replay" => phase = "boot"
  /\ phase = "run" /\ pc # "recv" => batch # << >>
  /\ phase = "run" /\ pc \in {"open", "readManifest", "writeManifest"} => pos = 1
  /\ pc = "sync" => file = "open"

TypeInv == TypeOK /\ Control

\* Appending a record to a segment file gives a segment file.
LEMMA AppendItem ==
  ASSUME NEW items \in Seq(Item), NEW e \in Item
  PROVE  Append(items, e) \in Seq(Item)
  BY AppendProperties

\* The records put in files have the type of a segment's items.
LEMMA ItemTypes ==
  ASSUME NEW id \in Nat
  PROVE  Whole(id) \in Item /\ \A c \in Cuts : Cut(id, c) \in Item
  BY DEF Whole, Cut, Item

\* What a crash leaves of a segment file is a segment file.
LEMMA SurvivorsType ==
  ASSUME TypeOK, NEW keep \in [DOMAIN segs -> 0..MaxWrites],
         NEW c \in {"whole"} \cup Cuts,
         \A s \in DOMAIN segs : synced[s] <= keep[s] /\ keep[s] <= Len(segs[s])
  PROVE  /\ DOMAIN Survivors(keep, c) = DOMAIN segs
         /\ Survivors(keep, c) \in [DOMAIN segs -> Seq(Item)]
         /\ \A s \in DOMAIN segs :
              /\ Len(Survivors(keep, c)[s]) >= keep[s]
              /\ \A i \in 1..keep[s] : Survivors(keep, c)[s][i] = segs[s][i]
<1>1. SUFFICES ASSUME NEW s \in DOMAIN segs
               PROVE  /\ Survivors(keep, c)[s] \in Seq(Item)
                      /\ Len(Survivors(keep, c)[s]) >= keep[s]
                      /\ \A i \in 1..keep[s] : Survivors(keep, c)[s][i] = segs[s][i]
  BY DEF Survivors
<1> DEFINE kept == SubSeq(segs[s], 1, keep[s])
<1>2. segs[s] \in Seq(Item) /\ keep[s] \in Nat /\ keep[s] <= Len(segs[s])
  BY SMT DEF TypeOK, SegType
<1>3. \A i \in 1..keep[s] : segs[s][i] \in Item
  BY <1>2, LenProperties, SMT
<1>4. /\ kept \in Seq(Item) /\ Len(kept) = keep[s]
      /\ \A i \in 1..keep[s] : kept[i] = segs[s][i]
  BY <1>2, <1>3, SubSeqProperties, SMT
<1>5. CASE c # "whole" /\ s = seq /\ keep[s] < Len(segs[s])
  <2> DEFINE torn == Cut(segs[s][keep[s] + 1].id, c)
  <2>1. torn \in Item
    <3>1. keep[s] + 1 \in 1..Len(segs[s])
      BY <1>2, <1>5, SMT
    <3>2. segs[s][keep[s] + 1] \in Item
      BY <1>2, <3>1, ElementOfSeq
    <3>3. segs[s][keep[s] + 1].id \in Nat /\ c \in Cuts
      BY <1>5, <3>2 DEF Item
    <3>4. QED BY <3>3, ItemTypes
  <2>2. Survivors(keep, c)[s] = Append(kept, torn)
    BY <1>5 DEF Survivors
  <2> HIDE DEF torn, kept
  <2>3. QED BY <1>2, <1>4, <2>1, <2>2, AppendProperties, SMT
<1>6. CASE ~(c # "whole" /\ s = seq /\ keep[s] < Len(segs[s]))
  <2>1. Survivors(keep, c)[s] = kept
    BY <1>6 DEF Survivors
  <2> HIDE DEF kept
  <2>2. QED BY <1>2, <1>4, <2>1, SMT
<1>7. QED BY <1>5, <1>6

\* Every action keeps the types and the control facts.
LEMMA TypeInvStep ==
  ASSUME TypeInv, [Next]_vars
  PROVE  TypeInv'
<1> USE DEF TypeInv, TypeOK, procVars, queueVars, batchVars, ackVars, fileVars,
            segVars, manVars
<1>1. ASSUME NEW w \in Writers, Write(w) PROVE TypeInv'
  <2>1. QueueType'
    BY <1>1, AppendProperties, SMT DEF Write, QueueType
  <2>2. QED
    BY <1>1, <2>1
        DEF Write, Control, ProcType, QueueType, BatchType, AckType,
            FileType, SegType, ManifestType
<1>2. ASSUME NEW w \in Writers, WriteReturn(w) PROVE TypeInv'
  <2>1. QueueType'
    BY <1>2 DEF WriteReturn, QueueType
  <2>2. QED
    BY <1>2, <2>1, SMT
        DEF WriteReturn, Control, ProcType, BatchType, AckType, FileType, SegType,
            ManifestType
<1>3. CASE NewWALReopen
  <2>1. FileType'
    BY <1>3, LenProperties DEF NewWALReopen, FileType, SegType
  <2>2. QED
    BY <1>3, <2>1
        DEF NewWALReopen, Control, ProcType, QueueType, BatchType, AckType,
            FileType, SegType, ManifestType
<1>4. CASE NewWALCreate
  BY <1>4 DEF NewWALCreate, Control, ProcType, QueueType, BatchType, AckType,
        FileType, SegType, ManifestType
<1>5. CASE Replay
  BY <1>5 DEF Replay, Control, ProcType, QueueType, BatchType, AckType,
        FileType, SegType, ManifestType
<1>6. CASE ReplayFail
  BY <1>6 DEF ReplayFail, Control, ProcType, QueueType, BatchType, AckType,
        FileType, SegType, ManifestType
<1>7. CASE RotateOpen
  <2>1. SegType'
    BY <1>7, SMT DEF RotateOpen, SegType, FileType
  <2>2. QED
    BY <1>7, <2>1
        DEF RotateOpen, Control, ProcType, QueueType, BatchType, AckType,
            FileType, SegType, ManifestType
<1>8. CASE RotateFail
  <2>1. FileType'
    BY <1>8, SMT DEF RotateFail, FileType
  <2>2. ProcType' /\ Control'
    BY <1>8 DEF RotateFail, Return, ProcType, Control
  <2>3. BatchType'
    BY <1>8, EmptySeq, SMT DEF RotateFail, Return, BatchType, Control, ProcType
  <2>4. QED
    BY <1>8, <2>1, <2>2, <2>3
        DEF RotateFail, QueueType, AckType, SegType, ManifestType
<1>9. CASE ManifestTruncate
  <2>1. ManifestType'
    BY <1>9, AppendProperties, SMT DEF ManifestTruncate, ManifestType, FileType, Manifest, TornManifest
  <2>2. ProcType' /\ Control'
    BY <1>9 DEF ManifestTruncate, ProcType, Control
  <2>3. BatchType'
    BY <1>9 DEF ManifestTruncate, BatchType
  <2>4. QED
    BY <1>9, <2>1, <2>2, <2>3
        DEF ManifestTruncate, QueueType, AckType, FileType, SegType
<1>10. CASE ManifestReadFail
  <2>1. ProcType' /\ Control'
    BY <1>10 DEF ManifestReadFail, Return, ProcType, Control
  <2>2. BatchType'
    BY <1>10, EmptySeq, SMT DEF ManifestReadFail, Return, BatchType, Control, ProcType
  <2>3. FileType'
    BY <1>10 DEF ManifestReadFail, Return, FileType, ProcType, Control
  <2>4. QED
    BY <1>10, <2>1, <2>2, <2>3
        DEF ManifestReadFail, QueueType, AckType, SegType, ManifestType
<1>11. CASE ManifestWrite
  <2>1. ManifestType'
    BY <1>11, SMT DEF ManifestWrite, ManifestType, Manifest, ManifestOf
  <2>2. ProcType' /\ Control'
    BY <1>11 DEF ManifestWrite, Return, ProcType, Control
  <2>3. BatchType'
    BY <1>11, EmptySeq, SMT DEF ManifestWrite, Return, BatchType, Control, ProcType
  <2>4. FileType'
    BY <1>11 DEF ManifestWrite, Return, FileType, ProcType, Control
  <2>5. QED
    BY <1>11, <2>1, <2>2, <2>3, <2>4
        DEF ManifestWrite, QueueType, AckType, SegType
<1>12. CASE ManifestWriteFail
  <2>1. ManifestType'
    BY <1>12, SMT DEF ManifestWriteFail, ManifestType
  <2>2. ProcType' /\ Control'
    BY <1>12 DEF ManifestWriteFail, Return, ProcType, Control
  <2>3. BatchType'
    BY <1>12, EmptySeq, SMT DEF ManifestWriteFail, Return, BatchType, Control, ProcType
  <2>4. QED
    BY <1>12, <2>1, <2>2, <2>3
        DEF ManifestWriteFail, Return, Control, ProcType, QueueType, BatchType, AckType,
            FileType, SegType, ManifestType
<1>13. CASE Receive
  <2>1. QueueType' /\ batch' \in Seq(Nat) /\ batch' # << >>
    BY <1>13, HeadTailProperties, SMT DEF Receive, QueueType
  <2>2. QED
    BY <1>13, <2>1
        DEF Receive, Control, ProcType, QueueType, BatchType, AckType,
            FileType, SegType, ManifestType
<1>14. CASE Drain
  <2>1. Head(pending) \in Nat /\ Tail(pending) \in Seq(Nat)
    BY <1>14, HeadTailProperties DEF Drain, QueueType
  <2>2. QueueType' /\ batch' \in Seq(Nat) /\ batch' # << >>
    BY <1>14, <2>1, AppendProperties, SMTT(15) DEF Drain, QueueType, BatchType
  <2>3. QED
    BY <1>14, <2>1, <2>2
        DEF Drain, Control, ProcType, QueueType, BatchType, AckType,
            FileType, SegType, ManifestType
<1>15. CASE DrainDone
  <2>1. BatchType'
    BY <1>15, EmptySeq, SMT DEF DrainDone, BatchType, Control
  <2>2. QED
    BY <1>15, <2>1
        DEF DrainDone, Control, ProcType, QueueType, BatchType, AckType,
            FileType, SegType, ManifestType
<1>16. CASE Encode
  <2>1. Whole(batch[pos]) \in Item
    BY <1>16, ElementOfSeq, ItemTypes DEF Encode, BatchType
  <2>2. SegType'
    BY <1>16, <2>1, AppendProperties DEF Encode, SegType, FileType, Control
  <2>3. BatchType'
    BY <1>16, LenProperties, SMT DEF Encode, BatchType
  <2>4. QED
    BY <1>16, <2>1, <2>2, <2>3
        DEF Encode, Control, ProcType, QueueType, BatchType, AckType,
            FileType, SegType, ManifestType
<1>17. CASE EncodeFail
  <2>1. \A c \in Cuts : Cut(batch[pos], c) \in Item
    BY <1>17, ElementOfSeq, ItemTypes DEF EncodeFail, BatchType
  <2>2. SegType'
    <3>1. CASE UNCHANGED segs
      BY <1>17, <3>1 DEF EncodeFail, SegType
    <3>2. ASSUME NEW c \in Cuts, file = "open",
                 segs' = [segs EXCEPT ![seq] = Append(@, Cut(batch[pos], c))]
          PROVE  SegType'
      <4>1. seq \in DOMAIN segs /\ segs[seq] \in Seq(Item)
        BY <1>17, <3>2 DEF EncodeFail, SegType, FileType, Control
      <4>2. Append(segs[seq], Cut(batch[pos], c)) \in Seq(Item)
        BY <2>1, <4>1, AppendItem
      <4>3. QED BY <1>17, <3>2, <4>1, <4>2 DEF EncodeFail, SegType
    <3>3. QED BY <1>17, <3>1, <3>2 DEF EncodeFail
  <2>3. FileType' /\ DOMAIN segs' = DOMAIN segs
    BY <1>17, SMT DEF EncodeFail, SizeCheck, FileType, BatchType
  <2>4. ProcType' /\ Control'
    BY <1>17 DEF EncodeFail, SizeCheck, ProcType, Control
  <2>5. BatchType'
    BY <1>17, EmptySeq, SMT DEF EncodeFail, SizeCheck, BatchType, Control
  <2>6. QED
    BY <1>17, <2>1, <2>2, <2>3, <2>4, <2>5
        DEF EncodeFail, SizeCheck, Control, ProcType, QueueType, BatchType, AckType,
            FileType, SegType, ManifestType
<1>18. CASE Sync
  <2>1. SegType'
    BY <1>18, LenProperties DEF Sync, SegType
  <2>2. FileType'
    BY <1>18, SMT DEF Sync, SizeCheck, FileType, BatchType
  <2>3. ProcType' /\ Control'
    BY <1>18 DEF Sync, SizeCheck, ProcType, Control
  <2>4. BatchType'
    BY <1>18, EmptySeq, SMT DEF Sync, SizeCheck, BatchType, Control
  <2>5. QED
    BY <1>18, <2>1, <2>2, <2>3, <2>4
        DEF Sync, SizeCheck, Control, ProcType, QueueType, BatchType, AckType,
            FileType, SegType, ManifestType
<1>19. CASE SyncFail
  <2>1. FileType'
    BY <1>19, SMT DEF SyncFail, SizeCheck, FileType, BatchType
  <2>2. ProcType' /\ Control'
    BY <1>19 DEF SyncFail, SizeCheck, ProcType, Control
  <2>3. BatchType'
    BY <1>19, EmptySeq, SMT DEF SyncFail, SizeCheck, BatchType, Control
  <2>4. QED
    BY <1>19, <2>1, <2>2, <2>3
        DEF SyncFail, SizeCheck, Control, ProcType, QueueType, BatchType, AckType,
            FileType, SegType, ManifestType
<1>20. CASE Ack
  <2>1. batch[pos] \in Nat
    BY <1>20, ElementOfSeq DEF Ack, BatchType
  <2>2. BatchType'
    <3>1. CASE pos = Len(batch)
      BY <1>20, <3>1, SMT DEF Ack, BatchType
    <3>2. CASE pos # Len(batch)
      BY <1>20, <3>2, LenProperties, SMT DEF Ack, BatchType
    <3>3. QED BY <3>1, <3>2
  <2>3. QED
    BY <1>20, <2>1, <2>2
        DEF Ack, Control, ProcType, QueueType, BatchType, AckType,
            FileType, SegType, ManifestType
<1>21. CASE Crash
  <2>1. SegType'
    <3>1. PICK keep \in [DOMAIN segs -> 0..MaxWrites], c \in {"whole"} \cup Cuts :
               /\ \A s \in DOMAIN segs : synced[s] <= keep[s] /\ keep[s] <= Len(segs[s])
               /\ segs' = Survivors(keep, c)
      BY <1>21 DEF Crash
    <3>2. DOMAIN segs' = DOMAIN segs /\ segs' \in [DOMAIN segs -> Seq(Item)]
      BY <3>1, SurvivorsType
    <3>3. QED BY <1>21, <3>2 DEF Crash, SegType
  <2>2. BatchType'
    BY <1>21, SMT DEF Crash, BatchType
  <2>3. QueueType'
    BY <1>21, SMT DEF Crash, QueueType
  <2>4. FileType' /\ ManifestType'
    BY <1>21, SMT DEF Crash, FileType, ManifestType
  <2>5. ProcType' /\ Control'
    BY <1>21, SMT DEF Crash, ProcType, Control
  <2>6. QED
    BY <1>21, <2>1, <2>2, <2>3, <2>4, <2>5 DEF Crash, AckType
<1>22. CASE UNCHANGED vars
  BY <1>22, SMTT(15) DEF vars, Control, ProcType, QueueType, BatchType, AckType, FileType,
        SegType, ManifestType
<1>23. QED
  BY <1>1, <1>2, <1>3, <1>4, <1>5, <1>6, <1>7, <1>8, <1>9, <1>10, <1>11, <1>12,
     <1>13, <1>14, <1>15, <1>16, <1>17, <1>18, <1>19, <1>20, <1>21, <1>22
     DEF Next, Server, BootStep, FlushStep, ManifestStep

\* The initial state has the types and the control facts.
LEMMA TypeInvInit == Init => TypeInv
<1>1. Init => segs = << >> /\ synced = << >> /\ DOMAIN << >> = {}
  BY SMT DEF Init
<1>2. QED
  BY <1>1, SMT DEF Init, TypeInv, TypeOK, Control, ProcType, QueueType, BatchType, AckType,
        FileType, SegType, ManifestType, Manifest, NoManifest

\* The flusher's cursor stays within its batch and its file among the
\* segment files, in every behaviour of wal.go.
THEOREM TypeCorrect == Spec => []TypeOK
<1>1. Spec => []TypeInv
  BY TypeInvInit, TypeInvStep, PTL DEF Spec
<1>2. TypeInv => TypeOK
  BY DEF TypeInv
<1>3. QED BY <1>1, <1>2, PTL

-----------------------------------------------------------------------------
(***************************************************************************)
(* A Write that returned nil is on disk.  The invariant follows a record   *)
(* of the batch: appended to the current file by Encode, covered by the    *)
(* fsync of the whole batch, and only then answered with nil.              *)
(***************************************************************************)
InFile(id) == \E i \in 1..Len(segs[seq]) : segs[seq][i] = Whole(id)

SyncedInFile == \A s \in DOMAIN segs : synced[s] <= Len(segs[s])

BatchInFile ==
  pc \in {"encode", "sync"} =>
    \A j \in 1..Len(batch) : j < pos \/ pc = "sync" => file = "open" /\ InFile(batch[j])

BatchOnDisk ==
  phase = "run" /\ pc \in {"open", "readManifest", "writeManifest", "ack"} /\ err = "nil"
    => \A j \in 1..Len(batch) : OnDisk(batch[j])

DurInv == SyncedInFile /\ AckedOnDisk /\ BatchInFile /\ BatchOnDisk

\* What a step may never do: alter or drop a record that was synced.
DiskKept ==
  /\ DOMAIN segs \subseteq DOMAIN segs'
  /\ \A s \in DOMAIN segs :
       /\ synced[s] <= synced'[s]
       /\ \A i \in 1..synced[s] : i <= Len(segs'[s]) /\ segs'[s][i] = segs[s][i]

\* A record on disk stays there as long as no step alters what was synced.
LEMMA OnDiskStable ==
  ASSUME TypeInv, TypeInv', DiskKept, NEW id, OnDisk(id)
  PROVE  OnDisk(id)'
<1>1. PICK s \in DOMAIN segs :
             \E i \in 1..synced[s] : i <= Len(segs[s]) /\ segs[s][i] = Whole(id)
  BY DEF OnDisk
<1>2. PICK i \in 1..synced[s] : i <= Len(segs[s]) /\ segs[s][i] = Whole(id)
  BY <1>1
<1>3. synced[s] \in Nat /\ synced'[s] \in Nat /\ s \in DOMAIN segs'
  BY DEF TypeInv, TypeOK, SegType, DiskKept
<1>4. i \in 1..synced'[s] /\ i <= Len(segs'[s]) /\ segs'[s][i] = Whole(id)
  BY <1>2, <1>3, SMT DEF DiskKept
<1>5. QED BY <1>3, <1>4 DEF OnDisk, Whole

\* No step of the log, and no crash, alters or drops what was synced.
LEMMA DiskKeptStep ==
  ASSUME TypeInv, SyncedInFile, [Next]_vars
  PROVE  DiskKept /\ SyncedInFile'
<1> USE DEF TypeInv, TypeOK, SegType
<1>1. CASE UNCHANGED segVars
  <2>1. DiskKept
    BY <1>1, LenProperties, SMT DEF segVars, DiskKept, SyncedInFile
  <2>2. QED BY <1>1, <2>1 DEF segVars, SyncedInFile
<1>2. CASE RotateOpen
  <2>1. DiskKept
    BY <1>2, LenProperties, SMT DEF RotateOpen, DiskKept, SyncedInFile
  <2>2. SyncedInFile'
    BY <1>2, EmptySeq, SMT DEF RotateOpen, SyncedInFile
  <2>3. QED BY <2>1, <2>2
<1>3. ASSUME NEW e \in Item, seq \in DOMAIN segs, UNCHANGED synced,
             segs' = [segs EXCEPT ![seq] = Append(@, e)]
      PROVE  DiskKept /\ SyncedInFile'
  <2>1. /\ Len(Append(segs[seq], e)) = Len(segs[seq]) + 1
        /\ \A i \in 1..Len(segs[seq]) : Append(segs[seq], e)[i] = segs[seq][i]
    BY <1>3, AppendProperties, SMT
  <2>2. \A s \in DOMAIN segs : s # seq => segs'[s] = segs[s]
    BY <1>3
  <2>3. segs'[seq] = Append(segs[seq], e) /\ DOMAIN segs' = DOMAIN segs
    BY <1>3
  <2>4. \A s \in DOMAIN segs : synced[s] \in Nat /\ Len(segs[s]) \in Nat
    BY LenProperties
  <2>5. QED BY <1>3, <2>1, <2>2, <2>3, <2>4, SMTT(15) DEF DiskKept, SyncedInFile
<1>4. CASE Encode
  <2>1. Whole(batch[pos]) \in Item
    BY <1>4, ElementOfSeq, ItemTypes DEF Encode, BatchType
  <2>2. QED
    BY <1>3, <1>4, <2>1 DEF Encode, FileType, Control
<1>5. CASE EncodeFail
  <2>1. \A c \in Cuts : Cut(batch[pos], c) \in Item
    BY <1>5, ElementOfSeq, ItemTypes DEF EncodeFail, BatchType
  <2>2. CASE UNCHANGED segs
    BY <1>1, <1>5, <2>2 DEF EncodeFail, segVars
  <2>3. CASE segs' # segs
    BY <1>3, <1>5, <2>1, <2>3 DEF EncodeFail, FileType, Control
  <2>4. QED BY <2>2, <2>3
<1>6. CASE Sync
  <2>1. \A s \in DOMAIN segs : synced[s] \in Nat /\ Len(segs[s]) \in Nat
    BY LenProperties
  <2>2. QED BY <1>6, <2>1, SMT DEF Sync, DiskKept, SyncedInFile
<1>7. CASE Crash
  <2>1. PICK keep \in [DOMAIN segs -> 0..MaxWrites], c \in {"whole"} \cup Cuts :
               /\ \A s \in DOMAIN segs : synced[s] <= keep[s] /\ keep[s] <= Len(segs[s])
               /\ segs' = Survivors(keep, c)
    BY <1>7 DEF Crash
  <2>2. /\ DOMAIN segs' = DOMAIN segs /\ segs' \in [DOMAIN segs -> Seq(Item)]
        /\ \A s \in DOMAIN segs : /\ Len(segs'[s]) >= keep[s]
                                  /\ \A i \in 1..keep[s] : segs'[s][i] = segs[s][i]
    BY <2>1, SurvivorsType
  <2>3. \A s \in DOMAIN segs : /\ synced[s] \in Nat /\ keep[s] \in Nat
                               /\ Len(segs'[s]) \in Nat /\ synced'[s] = synced[s]
    <3>1. synced' = synced
      BY <1>7 DEF Crash
    <3>2. \A s \in DOMAIN segs : Len(segs'[s]) \in Nat
      BY <2>2, LenProperties
    <3>3. QED BY <3>1, <3>2, SMT
  <2>4. SyncedInFile'
    BY <2>1, <2>2, <2>3, SMT DEF SyncedInFile
  <2>5. DiskKept
    <3>1. ASSUME NEW s \in DOMAIN segs, NEW i \in 1..synced[s]
          PROVE  i <= Len(segs'[s]) /\ segs'[s][i] = segs[s][i]
      <4>1. i \in 1..keep[s]
        BY <2>1, <2>3, SMT
      <4>2. QED BY <2>2, <2>3, <4>1, SMT
    <3>2. QED BY <2>2, <2>3, <3>1, SMT DEF DiskKept
  <2>6. QED BY <2>4, <2>5
<1>8. QED
  BY <1>1, <1>2, <1>4, <1>5, <1>6, <1>7
     DEF Next, Server, BootStep, FlushStep, ManifestStep, vars, segVars, Write, WriteReturn,
         NewWALReopen, NewWALCreate, Replay, ReplayFail, RotateFail, ManifestTruncate,
         ManifestReadFail, ManifestWrite, ManifestWriteFail, Receive, Drain, DrainDone,
         SyncFail, Ack

\* An appended batch is on disk once its file has been synced to the end.
LEMMA SyncCoversBatch ==
  ASSUME TypeInv, TypeInv', BatchInFile, Sync
  PROVE  \A j \in 1..Len(batch) : OnDisk(batch[j])'
<1> SUFFICES ASSUME NEW j \in 1..Len(batch)
             PROVE  OnDisk(batch[j])'
  OBVIOUS
<1>1. PICK i \in 1..Len(segs[seq]) : segs[seq][i] = Whole(batch[j])
  BY DEF BatchInFile, InFile, Sync
<1>2. seq \in DOMAIN segs
  BY DEF TypeInv, TypeOK, FileType, Control, Sync
<1>3. /\ segs' = segs /\ batch' = batch /\ synced'[seq] = Len(segs[seq])
  BY <1>2 DEF Sync, TypeInv, TypeOK, SegType
<1>4. QED BY <1>1, <1>2, <1>3, SMT DEF OnDisk, Whole

\* A batch entry that Encode has appended stays in the current file.
LEMMA EncodeAppends ==
  ASSUME TypeInv, BatchInFile, Encode
  PROVE  BatchInFile'
<1>1. seq \in DOMAIN segs /\ segs[seq] \in Seq(Item) /\ Len(segs[seq]) \in Nat
  BY LenProperties DEF Encode, TypeInv, TypeOK, FileType, SegType, Control
<1>2. Whole(batch[pos]) \in Item /\ pos \in 1..Len(batch) /\ Len(batch) \in Nat
  BY ElementOfSeq, ItemTypes, LenProperties DEF Encode, TypeInv, TypeOK, BatchType
<1>3. /\ segs'[seq] = Append(segs[seq], Whole(batch[pos])) /\ seq' = seq
      /\ batch' = batch /\ pos' = pos + 1 /\ file' = "open"
      /\ pc' = "sync" => pos = Len(batch)
  BY <1>1 DEF Encode, fileVars
<1>4. /\ Len(segs'[seq]) = Len(segs[seq]) + 1
      /\ \A i \in 1..Len(segs[seq]) : segs'[seq][i] = segs[seq][i]
      /\ segs'[seq][Len(segs[seq]) + 1] = Whole(batch[pos])
  BY <1>1, <1>2, <1>3, AppendProperties, SMT
<1>5. SUFFICES ASSUME NEW j \in 1..Len(batch), j < pos + 1 \/ pos = Len(batch)
               PROVE  InFile(batch[j])'
  BY <1>2, <1>3 DEF BatchInFile
<1>6. CASE j = pos
  <2>1. Len(segs[seq]) + 1 \in 1..Len(segs'[seq'])
    BY <1>1, <1>3, <1>4, SMT
  <2>2. QED BY <1>3, <1>4, <1>6, <2>1 DEF InFile, Whole
<1>7. CASE j < pos
  <2>1. PICK i \in 1..Len(segs[seq]) : segs[seq][i] = Whole(batch[j])
    BY <1>7 DEF BatchInFile, InFile, Encode
  <2>2. i \in 1..Len(segs'[seq']) /\ segs'[seq'][i] = Whole(batch[j])
    BY <1>1, <1>3, <1>4, <2>1, SMTT(15)
  <2>3. QED BY <1>3, <2>2 DEF InFile, Whole
<1>8. QED BY <1>2, <1>5, <1>6, <1>7, SMT

\* Every action keeps the durability invariant.
LEMMA DurInvStep ==
  ASSUME TypeInv, TypeInv', DurInv, [Next]_vars
  PROVE  DurInv'
<1> USE DEF procVars, queueVars, batchVars, ackVars, fileVars, segVars, manVars
<1>1. DiskKept /\ SyncedInFile'
  BY DiskKeptStep DEF DurInv
<1>2. \A id : OnDisk(id) => OnDisk(id)'
  BY <1>1, OnDiskStable
<1>3. ASSUME acked' = acked PROVE AckedOnDisk'
  BY <1>2, <1>3 DEF DurInv, AckedOnDisk
<1>4. CASE Sync
  <2>1. AckedOnDisk' /\ BatchInFile'
    BY <1>3, <1>4 DEF Sync, SizeCheck, BatchInFile
  <2>2. BatchOnDisk'
    BY <1>4, SyncCoversBatch DEF DurInv, BatchOnDisk, Sync
  <2>3. QED BY <1>1, <2>1, <2>2 DEF DurInv
<1>5. CASE Encode
  <2>1. AckedOnDisk' /\ BatchInFile'
    BY <1>3, <1>5, EncodeAppends DEF Encode, DurInv
  <2>2. BatchOnDisk'
    BY <1>5 DEF Encode, BatchOnDisk
  <2>3. QED BY <1>1, <2>1, <2>2 DEF DurInv
<1>6. CASE Ack
  <2>1. AckedOnDisk'
    BY <1>2, <1>6 DEF Ack, DurInv, AckedOnDisk, BatchOnDisk, TypeInv, TypeOK,
                      BatchType, Control
  <2>2. BatchOnDisk'
    BY <1>2, <1>6 DEF Ack, DurInv, BatchOnDisk
  <2>3. BatchInFile'
    BY <1>6 DEF Ack, BatchInFile
  <2>4. QED BY <1>1, <2>1, <2>2, <2>3 DEF DurInv
<1>7. CASE DrainDone
  <2>1. AckedOnDisk' /\ BatchOnDisk'
    BY <1>3, <1>7 DEF DrainDone, BatchOnDisk
  <2>2. BatchInFile'
    BY <1>7, SMT DEF DrainDone, BatchInFile
  <2>3. QED BY <1>1, <2>1, <2>2 DEF DurInv
<1>8. CASE EncodeFail \/ SyncFail
  <2>1. AckedOnDisk' /\ BatchOnDisk' /\ BatchInFile'
    BY <1>3, <1>8 DEF EncodeFail, SyncFail, SizeCheck, BatchOnDisk, BatchInFile
  <2>2. QED BY <1>1, <2>1 DEF DurInv
<1>9. CASE RotateOpen \/ RotateFail \/ ManifestStep
  <2>1. AckedOnDisk' /\ batch' = batch
    BY <1>3, <1>9 DEF RotateOpen, RotateFail, ManifestStep, ManifestTruncate,
                      ManifestReadFail, ManifestWrite, ManifestWriteFail
  <2>2. BatchInFile'
    BY <1>9 DEF RotateOpen, RotateFail, ManifestStep, ManifestTruncate, Return,
                ManifestReadFail, ManifestWrite, ManifestWriteFail, BatchInFile
  <2>3. phase' = "run" /\ err' = "nil" => phase = "run" /\ err = "nil"
    BY <1>9 DEF RotateOpen, RotateFail, ManifestStep, ManifestTruncate, Return,
                ManifestReadFail, ManifestWrite, ManifestWriteFail, TypeInv, TypeOK, ProcType
  <2>4. pc \in {"open", "readManifest", "writeManifest"}
    BY <1>9 DEF RotateOpen, RotateFail, ManifestStep, ManifestTruncate,
                ManifestReadFail, ManifestWrite, ManifestWriteFail
  <2>5. BatchOnDisk'
    BY <1>2, <2>1, <2>3, <2>4 DEF BatchOnDisk, DurInv
  <2>6. QED BY <1>1, <2>1, <2>2, <2>5 DEF DurInv
<1>10. CASE Receive \/ Drain \/ BootStep \/ Crash
  <2>1. AckedOnDisk' /\ BatchOnDisk' /\ BatchInFile'
    BY <1>3, <1>10 DEF Receive, Drain, BootStep, NewWALReopen, NewWALCreate, Replay,
                       ReplayFail, Crash, BatchOnDisk, BatchInFile
  <2>2. QED BY <1>1, <2>1 DEF DurInv
<1>11. CASE (\E w \in Writers : Write(w) \/ WriteReturn(w)) \/ UNCHANGED vars
  <2>1. UNCHANGED <<procVars, batchVars, ackVars, fileVars, segVars>>
    BY <1>11 DEF Write, WriteReturn, vars
  <2>2. AckedOnDisk' /\ BatchOnDisk' /\ BatchInFile'
    BY <1>2, <1>3, <2>1 DEF DurInv, BatchOnDisk, BatchInFile, InFile
  <2>3. QED BY <1>1, <2>2 DEF DurInv
<1>12. QED
  BY <1>4, <1>5, <1>6, <1>7, <1>8, <1>9, <1>10, <1>11
     DEF Next, Server, FlushStep

\* Before the first start nothing is acknowledged and nothing on disk.
LEMMA DurInvInit == Init => DurInv
<1>1. Init => segs = << >> /\ DOMAIN << >> = {}
  BY SMT DEF Init
<1>2. QED
  BY <1>1 DEF Init, DurInv, SyncedInFile, AckedOnDisk, BatchInFile, BatchOnDisk

\* Whatever fails and whenever the process dies, a record whose Write
\* returned nil was covered by a successful fsync and is still on disk.
THEOREM AckedDurable == Spec => []AckedOnDisk
<1>1. TypeInv /\ TypeInv' /\ DurInv /\ [Next]_vars => DurInv'
  BY DurInvStep
<1>2. DurInv => AckedOnDisk
  BY DEF DurInv
<1>3. QED BY <1>1, <1>2, DurInvInit, TypeInvInit, TypeInvStep, PTL DEF Spec
-----------------------------------------------------------------------------
(***************************************************************************)
(* What a restart finds, for every number of writers, every queue and      *)
(* segment size and any number of writes and crashes: nothing acknowledged *)
(* is lost unnoticed as long as the manifest can be read and written;      *)
(* everything acknowledged is recovered, and the log keeps the promise of  *)
(* DurableLog, if crashes, failed fsyncs and failed opens are all that     *)
(* goes wrong.                                                             *)
(***************************************************************************)
ManifestSound == "manifestErr" \notin Faults
Mild == Faults \cap {"truncCrash", "tornTail", "writeErr", "manifestErr"} = {}

\* A crash hit the manifest: no process will start again.
Dead == manifest.state = "torn" /\ pc # "writeManifest"

(***************************************************************************)
(* The manifest lists every segment that holds something, and the current  *)
(* one before anything is appended to it.                                  *)
(***************************************************************************)
ListInv ==
  /\ Dead => phase = "down"
  /\ manifest.state # "ok" => manifest.segments = << >>
  /\ manifest.state = "ok" => manifest.segments # << >>
  /\ pc = "writeManifest" => manifest.state = "torn" /\ seq \in Elems(newList)
  /\ Elems(Listed) \subseteq DOMAIN segs
  /\ ~Dead => \A s \in DOMAIN segs : segs[s] # << >> => s \in Elems(Listed)
  /\ pc \in {"replay", "readManifest"} => seq \in DOMAIN segs
  /\ file = "open" /\ pc \in {"replay", "recv", "drain", "encode", "sync", "ack"}
       => seq \in Elems(manifest.segments)

(***************************************************************************)
(* Records are in the files in the order of their Write calls, and those   *)
(* in the batch and in the queue come after them.                          *)
(***************************************************************************)
Filed == UNION {{segs[s][m].id : m \in 1..Len(segs[s])} : s \in DOMAIN segs}

ToWrite ==
  IF pc = "drain" THEN 1..Len(batch) ELSE IF pc = "encode" THEN pos..Len(batch) ELSE {}

FilesOrdered ==
  \A s, t \in DOMAIN segs : \A m \in 1..Len(segs[s]), n \in 1..Len(segs[t]) :
    s < t \/ (s = t /\ m < n) => segs[s][m].id < segs[t][n].id

SegmentsOrdered ==
  /\ \A j, k \in 1..Len(Listed) : j < k => Listed[j] < Listed[k]
  /\ phase # "down" => \A s \in Elems(Listed) : s <= seq

QueueOrdered ==
  /\ lastId <= MaxWrites
  /\ \A id \in Filed : id \in 1..lastId
  /\ \A j \in 1..Len(batch) : batch[j] \in 1..lastId
  /\ \A p \in 1..Len(pending) : pending[p] \in 1..lastId
  /\ \A p, q \in 1..Len(pending) : p < q => pending[p] < pending[q]
  /\ \A id \in Filed, p \in 1..Len(pending) : id < pending[p]
  /\ \A j \in ToWrite, p \in 1..Len(pending) : batch[j] < pending[p]
  /\ \A j, k \in ToWrite : j < k => batch[j] < batch[k]
  /\ \A id \in Filed, j \in ToWrite : id < batch[j]

OrderInv == FilesOrdered /\ SegmentsOrdered /\ QueueOrdered

AllWhole == \A s \in DOMAIN segs : \A i \in 1..Len(segs[s]) : segs[s][i].cut = "whole"
MildInv == AllWhole /\ ~Dead

-----------------------------------------------------------------------------
(***************************************************************************)
(* Lists of segments and what a crash leaves of the files.                 *)
(***************************************************************************)

\* writeManifest appends the current segment: the list holds it and the others.
LEMMA ElemsAppend ==
  ASSUME NEW L \in Seq(Nat), NEW x \in Nat
  PROVE  Elems(Append(L, x)) = Elems(L) \cup {x} /\ Append(L, x) # << >>
<1>1. /\ Append(L, x) \in Seq(Nat) /\ Len(Append(L, x)) = Len(L) + 1 /\ Len(L) \in Nat
      /\ \A i \in 1..Len(L) : Append(L, x)[i] = L[i]
      /\ Append(L, x)[Len(L) + 1] = x
  BY AppendProperties, LenProperties, SMT
<1>2. \A i \in 1..(Len(L) + 1) : i \in 1..Len(L) \/ i = Len(L) + 1
  BY <1>1, SMT
<1>3. Len(L) + 1 \in 1..(Len(L) + 1) /\ \A i \in 1..Len(L) : i \in 1..(Len(L) + 1)
  BY <1>1, SMT
<1>4. Elems(Append(L, x)) = Elems(L) \cup {x}
  BY <1>1, <1>2, <1>3 DEF Elems
<1> QED BY <1>1, <1>4, EmptySeq, SMT

\* The segment that NewWAL reopens, the last of the list, is in the list.
LEMMA LastListed ==
  ASSUME NEW L \in Seq(Nat), L # << >>
  PROVE  LastOf(L) \in Elems(L)
<1>1. Len(L) \in Nat /\ Len(L) # 0
  BY EmptySeq, LenProperties
<1>2. Len(L) \in 1..Len(L)
  BY <1>1, SMT
<1> QED BY <1>2 DEF LastOf, Elems

\* A crash may shorten a file and cut its last record, and does nothing else.
LEMMA CrashShape ==
  ASSUME TypeInv, Crash
  PROVE  /\ DOMAIN segs' = DOMAIN segs
         /\ \A s \in DOMAIN segs :
              /\ segs'[s] \in Seq(Item) /\ Len(segs'[s]) <= Len(segs[s])
              /\ \A i \in 1..Len(segs'[s]) :
                   /\ i \in 1..Len(segs[s]) /\ segs'[s][i].id = segs[s][i].id
                   /\ "tornTail" \notin Faults => segs'[s][i] = segs[s][i]
<1>1. PICK keep \in [DOMAIN segs -> 0..MaxWrites], c \in {"whole"} \cup Cuts :
             /\ \A s \in DOMAIN segs : synced[s] <= keep[s] /\ keep[s] <= Len(segs[s])
             /\ segs' = Survivors(keep, c)
             /\ "tornTail" \notin Faults => c = "whole"
  BY DEF Crash
<1>2. DOMAIN segs' = DOMAIN segs /\ segs' \in [DOMAIN segs -> Seq(Item)]
  BY <1>1, SurvivorsType DEF TypeInv
<1>3. SUFFICES ASSUME NEW s \in DOMAIN segs
               PROVE  /\ Len(segs'[s]) <= Len(segs[s])
                      /\ \A i \in 1..Len(segs'[s]) :
                           /\ i \in 1..Len(segs[s]) /\ segs'[s][i].id = segs[s][i].id
                           /\ "tornTail" \notin Faults => segs'[s][i] = segs[s][i]
  BY <1>2
<1> DEFINE kept == SubSeq(segs[s], 1, keep[s])
<1>4. segs[s] \in Seq(Item) /\ keep[s] \in Nat /\ keep[s] <= Len(segs[s]) /\ Len(segs[s]) \in Nat
  BY <1>1, LenProperties, SMT DEF TypeInv, TypeOK, SegType
<1>5. \A i \in 1..keep[s] : segs[s][i] \in Item
  BY <1>4, LenProperties, SMT
<1>6. /\ kept \in Seq(Item) /\ Len(kept) = keep[s]
      /\ \A i \in 1..keep[s] : kept[i] = segs[s][i]
  BY <1>4, <1>5, SubSeqProperties, SMT
<1>7. CASE c # "whole" /\ s = seq /\ keep[s] < Len(segs[s])
  <2> DEFINE torn == Cut(segs[s][keep[s] + 1].id, c)
  <2>1. segs'[s] = Append(kept, torn) /\ torn.id = segs[s][keep[s] + 1].id
    BY <1>1, <1>7 DEF Survivors, Cut
  <2>2. "tornTail" \in Faults
    BY <1>1, <1>7
  <2>3. torn \in Item
    <3>1. keep[s] + 1 \in 1..Len(segs[s])
      BY <1>4, <1>7, SMT
    <3>2. segs[s][keep[s] + 1] \in Item
      BY <1>4, <3>1, ElementOfSeq
    <3>3. segs[s][keep[s] + 1].id \in Nat /\ c \in Cuts
      BY <1>7, <3>2 DEF Item
    <3>4. QED BY <3>3, ItemTypes
  <2> HIDE DEF torn, kept
  <2>4. /\ Len(segs'[s]) = keep[s] + 1
        /\ \A i \in 1..keep[s] : segs'[s][i] = segs[s][i]
        /\ segs'[s][keep[s] + 1] = torn
    BY <1>6, <2>1, <2>3, AppendProperties, SMT
  <2>5. QED BY <1>4, <1>7, <2>1, <2>2, <2>4, SMTT(15)
<1>8. CASE ~(c # "whole" /\ s = seq /\ keep[s] < Len(segs[s]))
  <2>1. segs'[s] = kept
    BY <1>1, <1>8 DEF Survivors
  <2> HIDE DEF kept
  <2>2. QED BY <1>4, <1>6, <2>1, SMT
<1>9. QED BY <1>7, <1>8

\* A segment with nothing in it is still empty after a crash.
LEMMA CrashKeepsEmpty ==
  ASSUME TypeInv, Crash, NEW s \in DOMAIN segs, segs[s] = << >>
  PROVE  segs'[s] = << >>
<1>1. Len(segs'[s]) <= 0 /\ segs'[s] \in Seq(Item)
  BY CrashShape, EmptySeq
<1>2. Len(segs'[s]) = 0
  BY <1>1, LenProperties, SMT
<1> QED BY <1>1, <1>2, EmptySeq

-----------------------------------------------------------------------------
\* The flusher's steps that append nothing leave files and manifest alone.
LEMMA ListInvFlush ==
  ASSUME TypeInv, ListInv,
         Receive \/ Drain \/ DrainDone \/ Sync \/ SyncFail \/ Ack
  PROVE  ListInv'
<1>1. UNCHANGED <<phase, seq, file, segs, manifest, newList>>
  BY DEF Receive, Drain, DrainDone, Sync, SyncFail, Ack, SizeCheck, procVars, fileVars,
         segVars, manVars
<1>2. /\ pc \in {"recv", "drain", "encode", "sync", "ack"}
      /\ pc' \in {"recv", "drain", "encode", "sync", "ack", "open"}
  BY DEF Receive, Drain, DrainDone, Sync, SyncFail, Ack, SizeCheck, procVars
<1> QED BY <1>1, <1>2 DEF ListInv, Dead, Listed

\* A record is appended only to a segment that is in the manifest.
LEMMA ListInvAppend ==
  ASSUME TypeInv, TypeInv', ListInv, Encode \/ EncodeFail
  PROVE  ListInv'
<1>1. UNCHANGED <<phase, seq, file, manifest, newList>>
  BY DEF Encode, EncodeFail, SizeCheck, fileVars, manVars
<1>2. pc = "encode" /\ pc' \in {"encode", "sync", "ack", "open"}
  BY DEF Encode, EncodeFail, SizeCheck
<1>3. /\ DOMAIN segs' = DOMAIN segs
      /\ \A s \in DOMAIN segs : segs'[s] = segs[s] \/ (s = seq /\ file = "open")
  BY DEF Encode, EncodeFail
<1>4. \A s \in DOMAIN segs' : segs'[s] # << >> => s \in Elems(manifest.segments)
  BY <1>2, <1>3, SMTT(15) DEF ListInv, Dead, Listed, TypeInv, Control
<1> QED BY <1>1, <1>2, <1>3, <1>4 DEF ListInv, Dead, Listed, TypeInv, Control

\* rotate, failed or not, adds at most an empty segment.
LEMMA ListInvRotate ==
  ASSUME TypeInv, ListInv, RotateOpen \/ RotateFail
  PROVE  ListInv'
<1>1. UNCHANGED <<manifest, newList>> /\ pc = "open" /\ ~Dead
  BY DEF RotateOpen, RotateFail, manVars, ListInv, TypeInv, Control
<1>2. /\ DOMAIN segs \subseteq DOMAIN segs'
      /\ \A s \in DOMAIN segs' : segs'[s] # << >> => s \in DOMAIN segs /\ segs[s] # << >>
  BY DEF RotateOpen, RotateFail, segVars
<1>3. \/ /\ pc' = "readManifest" /\ phase' = phase /\ seq' \in DOMAIN segs'
      \/ /\ pc' \in {"ack", "new"} /\ file' = "closed"
  BY DEF RotateOpen, RotateFail, Return
<1>4. manifest.state # "torn"
  BY <1>1 DEF Dead
<1> QED BY <1>1, <1>2, <1>3, <1>4 DEF ListInv, Dead, Listed

\* writeManifest keeps the segments listed and adds the current one.
LEMMA ListInvTruncate ==
  ASSUME TypeInv, ListInv, ManifestTruncate
  PROVE  ListInv'
<1>1. /\ manifest.segments \in Seq(Nat) /\ seq \in Nat
      /\ seq \in DOMAIN segs
  BY DEF ManifestTruncate, TypeInv, TypeOK, ManifestType, Manifest, FileType, ListInv
<1>2. Elems(newList') = Elems(manifest.segments) \cup {seq}
  BY <1>1, ElemsAppend DEF ManifestTruncate
<1>3. /\ UNCHANGED <<seq, segs>> /\ pc' = "writeManifest" /\ pc = "readManifest"
      /\ manifest' = [state |-> "torn", segments |-> << >>]
  BY DEF ManifestTruncate, fileVars, segVars, TornManifest
<1>4. Listed = manifest.segments /\ Listed' = newList' /\ ~Dead
  BY <1>3 DEF Listed, Dead, ManifestTruncate
<1> QED BY <1>1, <1>2, <1>3, <1>4 DEF ListInv, Dead

\* The new list takes the place of the truncated one.
LEMMA ListInvWrite ==
  ASSUME TypeInv, ListInv, ManifestWrite
  PROVE  ListInv'
<1>1. newList \in Seq(Nat) /\ newList # << >>
  <2>1. newList \in Seq(Nat)
    BY DEF TypeInv, TypeOK, ManifestType
  <2>2. newList # << >>
    BY EmptySeq, SMTT(15) DEF ListInv, ManifestWrite, Elems
  <2> QED BY <2>1, <2>2
<1>2. /\ UNCHANGED <<seq, file, segs>> /\ pc = "writeManifest"
      /\ pc' \in {"ack", "replay", "new"}
      /\ manifest' = [state |-> "ok", segments |-> newList]
  BY DEF ManifestWrite, fileVars, segVars, ManifestOf, Return
<1>3. Listed = newList /\ Listed' = newList /\ ~Dead /\ ~Dead'
  BY <1>2 DEF Listed, Dead
<1> QED BY <1>1, <1>2, <1>3 DEF ListInv

\* NewWAL reopens the last segment of the list or starts with none; Replay
\* reads the files only.
LEMMA ListInvBoot ==
  ASSUME TypeInv, ListInv, BootStep
  PROVE  ListInv'
<1>1. UNCHANGED <<segs, manifest, newList>> /\ pc \in {"new", "replay"}
  BY DEF BootStep, NewWALReopen, NewWALCreate, Replay, ReplayFail, segVars, manVars,
         TypeInv, Control
<1>2. pc' # "writeManifest" /\ Listed' = Listed
  BY <1>1 DEF BootStep, NewWALReopen, NewWALCreate, Replay, ReplayFail, Listed
<1>3. CASE NewWALReopen
  <2>1. manifest.segments \in Seq(Nat)
    BY DEF TypeInv, TypeOK, ManifestType, Manifest
  <2>2. seq' \in Elems(manifest.segments)
    BY <1>3, <2>1, LastListed DEF NewWALReopen, ListInv
  <2> QED BY <1>1, <1>2, <1>3, <2>2 DEF NewWALReopen, ListInv, Dead
<1>4. CASE NewWALCreate
  BY <1>1, <1>2, <1>4 DEF NewWALCreate, ListInv, Dead
<1>5. CASE Replay \/ ReplayFail
  <2>1. pc = "replay" /\ phase # "down" /\ UNCHANGED seq /\ manifest.state # "torn"
    BY <1>5 DEF Replay, ReplayFail, TypeInv, Control, ListInv, Dead, fileVars
  <2>2. file' = "closed" \/ file' = file
    BY <1>5 DEF Replay, ReplayFail, fileVars
  <2> QED BY <1>1, <1>2, <1>5, <2>1, <2>2 DEF Replay, ReplayFail, ListInv, Dead
<1> QED BY <1>3, <1>4, <1>5 DEF BootStep

\* A crash leaves the list as it is, or no list if it hits writeManifest.
LEMMA ListInvCrash ==
  ASSUME TypeInv, ListInv, Crash
  PROVE  ListInv'
<1>1. /\ phase' = "down" /\ pc' = "new" /\ manifest' = manifest
      /\ Listed' = manifest.segments /\ DOMAIN segs' = DOMAIN segs
  BY CrashShape DEF Crash, Listed
<1>2. \A s \in DOMAIN segs : segs'[s] # << >> => segs[s] # << >>
  BY CrashKeepsEmpty
<1>3. CASE manifest.state = "torn"
  <2>1. Listed' = << >> /\ Elems(<< >>) = {}
    BY <1>1, <1>3, SMTT(15) DEF ListInv, Elems
  <2> QED BY <1>1, <1>3, <2>1 DEF ListInv, Dead
<1>4. CASE manifest.state # "torn"
  <2>1. ~Dead /\ Listed' = Listed
    BY <1>1, <1>4 DEF Dead, Listed, ListInv
  <2> QED BY <1>1, <1>2, <1>4, <2>1 DEF ListInv, Dead
<1> QED BY <1>3, <1>4

\* With a manifest that can be read and written, every step keeps every
\* segment that holds a record listed.
LEMMA ListInvStep ==
  ASSUME ManifestSound, TypeInv, TypeInv', ListInv, [Next]_vars
  PROVE  ListInv'
<1>1. ~ManifestReadFail /\ ~ManifestWriteFail
  BY DEF ManifestReadFail, ManifestWriteFail, ManifestSound, ListInv, Dead, TypeInv, Control
<1>2. CASE (\E w \in Writers : Write(w) \/ WriteReturn(w)) \/ UNCHANGED vars
  <2>1. UNCHANGED <<procVars, fileVars, segVars, manVars>>
    BY <1>2 DEF Write, WriteReturn, vars
  <2> QED BY <2>1 DEF procVars, fileVars, segVars, manVars, ListInv, Dead, Listed
<1> QED
  BY <1>1, <1>2, ListInvFlush, ListInvAppend, ListInvRotate, ListInvTruncate, ListInvWrite,
     ListInvBoot, ListInvCrash DEF Next, Server, FlushStep, ManifestStep

\* No manifest, no segment: the directory of a first start.
LEMMA ListInvInit == Init => ListInv
BY SMTT(15) DEF Init, ListInv, Dead, Listed, NoManifest, Elems

-----------------------------------------------------------------------------
(***************************************************************************)
(* What a restart recovers.                                                *)
(***************************************************************************)

\* A whole record of a file that decodes to its end is handed to the engine.
LEMMA ReadableRecords ==
  ASSUME NEW items \in Seq(Item), Readable(items), NEW i \in 1..Len(items),
         items[i].cut = "whole"
  PROVE  items[i].id \in Records(items)
<1>1. Len(items) \in Nat
  BY LenProperties
<1>2. ASSUME NEW k \in 1..i PROVE items[k].cut = "whole"
  <2>1. k \in 1..Len(items)
    BY <1>1, SMT
  <2>2. CASE k = Len(items)
    BY <1>1, <2>2, SMT
  <2> QED BY <2>1, <2>2 DEF Readable
<1> QED BY <1>2 DEF Records

\* A synced record is in the log if the manifest is there and files decode.
LEMMA OnDiskInLog ==
  ASSUME TypeInv, ListInv, ~Dead, NEW id, OnDisk(id),
         \A s \in Elems(Listed) : Readable(segs[s])
  PROVE  id \in LogIds
<1>1. PICK s \in DOMAIN segs :
             \E i \in 1..synced[s] : i <= Len(segs[s]) /\ segs[s][i] = Whole(id)
  BY DEF OnDisk
<1>2. segs[s] \in Seq(Item) /\ Len(segs[s]) \in Nat /\ synced[s] \in Nat
  BY LenProperties DEF TypeInv, TypeOK, SegType
<1>3. PICK i \in 1..Len(segs[s]) : segs[s][i] = Whole(id)
  BY <1>1, <1>2, SMTT(15)
<1>4. segs[s] # << >>
  BY <1>3, EmptySeq, SMTT(15)
<1>5. s \in Elems(Listed)
  BY <1>4 DEF ListInv
<1>6. segs[s][i].id = id /\ segs[s][i].cut = "whole"
  BY <1>3, SMTT(15) DEF Whole
<1>7. id \in Records(segs[s])
  BY <1>2, <1>5, <1>6, ReadableRecords
<1> QED BY <1>5, <1>7 DEF LogIds

\* If only manifest.json is spared, a restart that succeeds has every record
\* whose Write returned nil, whatever else is cut short, fails or crashes:
\* Replay reports damage, it does not pass over it.
THEOREM LossNoticed ==
  ASSUME ManifestSound
  PROVE  Spec => []NoSilentLoss
<1>1. TypeInv /\ DurInv /\ ListInv => NoSilentLoss
  <2> SUFFICES ASSUME TypeInv, DurInv, ListInv, phase = "down", CanBoot, NEW id \in acked
               PROVE  id \in Replayed
    BY DEF NoSilentLoss
  <2>1. ~Dead /\ Listed = manifest.segments
    BY DEF CanBoot, Dead, Listed, TypeInv, Control
  <2>2. id \in LogIds
    BY <2>1, OnDiskInLog DEF CanBoot, DurInv, AckedOnDisk
  <2> QED BY <2>1, <2>2 DEF LogIds, Replayed
<1>2. TypeInv /\ TypeInv' /\ ListInv /\ [Next]_vars => ListInv'
  BY ListInvStep
<1>3. TypeInv /\ TypeInv' /\ DurInv /\ [Next]_vars => DurInv'
  BY DurInvStep
<1>4. Init => DurInv
  BY DurInvInit
<1> QED BY <1>1, <1>2, <1>3, <1>4, ListInvInit, TypeInvInit, TypeInvStep, PTL DEF Spec

\* Without torn writes, failed appends and crashes inside writeManifest no
\* record is ever cut and the manifest is never left truncated.
LEMMA MildInvStep ==
  ASSUME Mild, TypeInv, ListInv, MildInv, [Next]_vars
  PROVE  MildInv'
<1>1. /\ "truncCrash" \notin Faults /\ "tornTail" \notin Faults
      /\ "writeErr" \notin Faults /\ "manifestErr" \notin Faults
  BY DEF Mild
<1>2. AllWhole'
  <2>1. CASE UNCHANGED segs
    BY <2>1 DEF MildInv, AllWhole
  <2>2. CASE RotateOpen
    BY <2>2, EmptySeq, SMTT(15) DEF RotateOpen, MildInv, AllWhole
  <2>3. CASE Encode
    <3>1. seq \in DOMAIN segs /\ segs[seq] \in Seq(Item) /\ Len(segs[seq]) \in Nat
      BY <2>3, LenProperties DEF Encode, TypeInv, TypeOK, FileType, SegType, Control
    <3>2. Whole(batch[pos]) \in Item /\ Whole(batch[pos]).cut = "whole"
      BY <2>3, ElementOfSeq, ItemTypes DEF Encode, TypeInv, TypeOK, BatchType, Whole
    <3>3. /\ DOMAIN segs' = DOMAIN segs /\ segs'[seq] = Append(segs[seq], Whole(batch[pos]))
          /\ \A s \in DOMAIN segs : s # seq => segs'[s] = segs[s]
      BY <2>3, <3>1 DEF Encode
    <3>4. /\ Len(segs'[seq]) = Len(segs[seq]) + 1
          /\ \A i \in 1..Len(segs[seq]) : segs'[seq][i] = segs[seq][i]
          /\ segs'[seq][Len(segs[seq]) + 1] = Whole(batch[pos])
      BY <3>1, <3>2, <3>3, AppendProperties, SMTT(15)
    <3>5. \A i \in 1..Len(segs'[seq]) : i \in 1..Len(segs[seq]) \/ i = Len(segs[seq]) + 1
      BY <3>1, <3>4, SMT
    <3> QED BY <3>1, <3>2, <3>3, <3>4, <3>5, SMTT(15) DEF MildInv, AllWhole
  <2>4. CASE Crash
    BY <1>1, <2>4, CrashShape, SMT DEF MildInv, AllWhole
  <2>5. EncodeFail => UNCHANGED segs
    BY <1>1 DEF EncodeFail
  <2> QED
    BY <2>1, <2>2, <2>3, <2>4, <2>5
       DEF Next, Server, BootStep, FlushStep, ManifestStep, vars, segVars, Write, WriteReturn,
           NewWALReopen, NewWALCreate, Replay, ReplayFail, RotateFail, ManifestTruncate,
           ManifestReadFail, ManifestWrite, ManifestWriteFail, Receive, Drain, DrainDone,
           Sync, SyncFail, Ack
<1>3. ~Dead'
  <2>1. CASE ManifestTruncate
    BY <2>1 DEF ManifestTruncate, Dead
  <2>2. CASE ManifestWrite
    BY <2>2 DEF ManifestWrite, ManifestOf, Dead
  <2>3. CASE UNCHANGED manifest /\ pc # "writeManifest"
    BY <2>3 DEF MildInv, Dead
  <2>4. CASE UNCHANGED <<pc, manifest>>
    BY <2>4 DEF MildInv, Dead
  <2>5. ~ManifestWriteFail /\ (Crash => pc # "writeManifest" /\ UNCHANGED manifest)
    BY <1>1 DEF ManifestWriteFail, Crash
  <2>6. BootStep => pc # "writeManifest" /\ UNCHANGED manifest
    BY DEF BootStep, NewWALReopen, NewWALCreate, Replay, ReplayFail, manVars, TypeInv, Control
  <2>7. FlushStep \/ RotateOpen \/ RotateFail \/ ManifestReadFail
          => pc # "writeManifest" /\ UNCHANGED manifest
    BY DEF FlushStep, Receive, Drain, DrainDone, Encode, EncodeFail, Sync, SyncFail, Ack,
           RotateOpen, RotateFail, ManifestReadFail, manVars
  <2> QED
    BY <2>1, <2>2, <2>3, <2>4, <2>5, <2>6, <2>7
       DEF Next, Server, ManifestStep, vars, procVars, manVars, Write, WriteReturn
<1> QED BY <1>2, <1>3 DEF MildInv

\* The first start finds no file.
LEMMA MildInvInit == Init => MildInv
<1>1. Init => segs = << >> /\ DOMAIN << >> = {}
  BY SMT DEF Init
<1>2. Init => AllWhole BY <1>1 DEF AllWhole
<1>3. Init => ~Dead BY SMT DEF Init, Dead, NoManifest
<1> QED BY <1>2, <1>3 DEF MildInv

\* With whole records only, every file decodes to its end.
LEMMA AllReadable ==
  ASSUME ListInv, MildInv
  PROVE  \A s \in Elems(Listed) : s \in DOMAIN segs /\ Readable(segs[s])
BY DEF ListInv, MildInv, AllWhole, Readable

\* However often the process crashes, fsyncs fail and rotations fail, a restart
\* succeeds and replays every record whose Write returned nil, provided that
\* crashes do not cut records or hit the rewriting of the manifest.
THEOREM AckedAlwaysRecovered ==
  ASSUME Mild
  PROVE  Spec => []AckedRecovered
<1>1. TypeInv /\ DurInv /\ ListInv /\ MildInv => AckedRecovered
  <2> SUFFICES ASSUME TypeInv, DurInv, ListInv, MildInv, phase = "down"
               PROVE  CanBoot /\ \A id \in acked : id \in Replayed
    BY DEF AckedRecovered
  <2>1. Listed = manifest.segments /\ manifest.state # "torn"
    BY DEF MildInv, Dead, Listed, TypeInv, Control
  <2>2. ~Dead /\ \A id \in acked : OnDisk(id)
    BY DEF MildInv, DurInv, AckedOnDisk
  <2>3. \A id \in acked : id \in LogIds
    BY <2>2, AllReadable, OnDiskInLog
  <2> QED BY <2>1, <2>3, AllReadable DEF CanBoot, LogIds, Replayed
<1>2. ManifestSound
  BY DEF Mild, ManifestSound
<1>3. TypeInv /\ TypeInv' /\ ListInv /\ [Next]_vars => ListInv'
  BY <1>2, ListInvStep
<1>4. TypeInv /\ TypeInv' /\ DurInv /\ [Next]_vars => DurInv'
  BY DurInvStep
<1>5. TypeInv /\ ListInv /\ MildInv /\ [Next]_vars => MildInv'
  BY MildInvStep
<1> QED
  BY <1>1, <1>3, <1>4, <1>5, DurInvInit, ListInvInit, MildInvInit, TypeInvInit, TypeInvStep,
     PTL DEF Spec

-----------------------------------------------------------------------------
(***************************************************************************)
(* The order of the records.                                               *)
(***************************************************************************)

\* The records in the files carry the numbers of Write calls.
LEMMA FiledNat ==
  ASSUME TypeInv
  PROVE  Filed \subseteq Nat
<1>1. ASSUME NEW s \in DOMAIN segs, NEW m \in 1..Len(segs[s]) PROVE segs[s][m].id \in Nat
  <2>1. segs[s] \in Seq(Item)
    BY DEF TypeInv, TypeOK, SegType
  <2>2. segs[s][m] \in Item
    BY <2>1, ElementOfSeq
  <2> QED BY <2>2 DEF Item
<1> QED BY <1>1, SMTT(15) DEF Filed

\* rotate and a crash add no record to the files; a crash may remove some.
LEMMA FilesShrink ==
  ASSUME TypeInv, FilesOrdered, UNCHANGED segs \/ RotateOpen \/ Crash
  PROVE  FilesOrdered' /\ Filed' \subseteq Filed
<1>1. CASE UNCHANGED segs
  BY <1>1, SMTT(15) DEF FilesOrdered, Filed
<1>2. CASE RotateOpen \/ Crash
  <2>1. \A s \in DOMAIN segs' : \A i \in 1..Len(segs'[s]) :
          s \in DOMAIN segs /\ i \in 1..Len(segs[s]) /\ segs'[s][i].id = segs[s][i].id
    <3>1. CASE RotateOpen
      BY <3>1, EmptySeq, SMTT(15) DEF RotateOpen
    <3>2. CASE Crash
      BY <3>2, CrashShape
    <3> QED BY <1>2, <3>1, <3>2
  <2>2. FilesOrdered'
    <3> SUFFICES ASSUME NEW s \in DOMAIN segs', NEW t \in DOMAIN segs',
                        NEW m \in 1..Len(segs'[s]), NEW n \in 1..Len(segs'[t]),
                        s < t \/ (s = t /\ m < n)
                 PROVE  segs'[s][m].id < segs'[t][n].id
      BY DEF FilesOrdered
    <3>1. /\ s \in DOMAIN segs /\ m \in 1..Len(segs[s]) /\ segs'[s][m].id = segs[s][m].id
          /\ t \in DOMAIN segs /\ n \in 1..Len(segs[t]) /\ segs'[t][n].id = segs[t][n].id
      BY <2>1
    <3> QED BY <3>1 DEF FilesOrdered
  <2>3. Filed' \subseteq Filed
    BY <2>1, SMT DEF Filed
  <2> QED BY <2>2, <2>3
<1> QED BY <1>1, <1>2

\* A record appended to the last segment that holds any is the last one.
LEMMA FilesGrow ==
  ASSUME TypeInv, FilesOrdered, NEW e \in Item, seq \in DOMAIN segs,
         segs' = [segs EXCEPT ![seq] = Append(@, e)],
         \A id \in Filed : id < e.id,
         \A t \in DOMAIN segs : t > seq => segs[t] = << >>
  PROVE  FilesOrdered' /\ Filed' \subseteq Filed \cup {e.id}
<1>1. segs[seq] \in Seq(Item) /\ Len(segs[seq]) \in Nat /\ DOMAIN segs \subseteq Nat
  BY LenProperties DEF TypeInv, TypeOK, SegType
<1>2. /\ DOMAIN segs' = DOMAIN segs /\ segs'[seq] = Append(segs[seq], e)
      /\ \A s \in DOMAIN segs : s # seq => segs'[s] = segs[s]
  OBVIOUS
<1>3. /\ Len(segs'[seq]) = Len(segs[seq]) + 1
      /\ \A i \in 1..Len(segs[seq]) : segs'[seq][i] = segs[seq][i]
      /\ segs'[seq][Len(segs[seq]) + 1] = e
  BY <1>1, <1>2, AppendProperties, SMT
<1>4. ASSUME NEW s \in DOMAIN segs, NEW i \in 1..Len(segs'[s])
      PROVE  \/ i \in 1..Len(segs[s]) /\ segs'[s][i] = segs[s][i]
             \/ s = seq /\ i = Len(segs[seq]) + 1 /\ segs'[s][i] = e
  BY <1>1, <1>2, <1>3, SMT
<1>5. ASSUME NEW s \in DOMAIN segs, NEW i \in 1..Len(segs[s]) PROVE segs[s][i].id \in Filed
  BY SMT DEF Filed
<1>6. FilesOrdered'
  <2> SUFFICES ASSUME NEW s \in DOMAIN segs, NEW t \in DOMAIN segs,
                      NEW m \in 1..Len(segs'[s]), NEW n \in 1..Len(segs'[t]),
                      s < t \/ (s = t /\ m < n)
               PROVE  segs'[s][m].id < segs'[t][n].id
    BY <1>2, SMTT(15) DEF FilesOrdered
  <2>1. CASE s = seq /\ m = Len(segs[seq]) + 1
    <3>1. ~(s = t /\ m < n)
      BY <1>1, <1>3, <2>1, SMT
    <3>2. t > seq /\ segs'[t] = << >>
      BY <1>1, <1>2, <2>1, <3>1, SMT
    <3> QED BY <3>2, EmptySeq, SMT
  <2>2. CASE m \in 1..Len(segs[s]) /\ segs'[s][m] = segs[s][m]
    <3>1. CASE n \in 1..Len(segs[t]) /\ segs'[t][n] = segs[t][n]
      BY <2>2, <3>1 DEF FilesOrdered
    <3>2. CASE segs'[t][n] = e
      BY <1>5, <2>2, <3>2
    <3> QED BY <1>4, <3>1, <3>2
  <2> QED BY <1>4, <2>1, <2>2
<1>7. Filed' \subseteq Filed \cup {e.id}
  BY <1>2, <1>4, <1>5, SMTT(15) DEF Filed
<1> QED BY <1>6, <1>7

\* The current segment is the last one that holds a record.
LEMMA CurrentIsLast ==
  ASSUME TypeInv, ListInv, SegmentsOrdered, pc = "encode"
  PROVE  \A t \in DOMAIN segs : t > seq => segs[t] = << >>
<1>1. ~Dead /\ phase # "down" /\ seq \in Nat /\ DOMAIN segs \subseteq Nat
  BY DEF TypeInv, TypeOK, Control, ListInv, FileType, SegType
<1> QED BY <1>1, SMTT(15) DEF ListInv, SegmentsOrdered

\* No record is appended out of order, to no file behind another.
LEMMA FilesOrderedStep ==
  ASSUME TypeInv, ListInv, OrderInv, [Next]_vars
  PROVE  /\ FilesOrdered'
         /\ Filed' \subseteq Filed \cup (IF pc = "encode" THEN {batch[pos]} ELSE {})
<1>1. ASSUME NEW e \in Item, e.id = batch[pos], pc = "encode", seq \in DOMAIN segs,
             segs' = [segs EXCEPT ![seq] = Append(@, e)]
      PROVE  FilesOrdered' /\ Filed' \subseteq Filed \cup {batch[pos]}
  <2>1. pos \in ToWrite
    BY <1>1, LenProperties, SMT DEF ToWrite, TypeInv, TypeOK, BatchType
  <2>2. \A id \in Filed : id < e.id
    BY <1>1, <2>1 DEF OrderInv, QueueOrdered
  <2>3. FilesOrdered /\ SegmentsOrdered
    BY DEF OrderInv
  <2> QED BY <1>1, <2>2, <2>3, CurrentIsLast, FilesGrow
<1>2. CASE UNCHANGED segs \/ RotateOpen \/ Crash
  BY <1>2, FilesShrink DEF OrderInv
<1>3. Encode \/ (EncodeFail /\ file = "open") => batch[pos] \in Nat /\ seq \in DOMAIN segs
  BY ElementOfSeq DEF Encode, EncodeFail, TypeInv, TypeOK, BatchType, FileType, Control
<1>4. CASE Encode
  <2>1. Whole(batch[pos]) \in Item /\ Whole(batch[pos]).id = batch[pos]
    BY <1>3, <1>4, ItemTypes DEF Whole
  <2> QED BY <1>1, <1>3, <1>4, <2>1 DEF Encode
<1>5. CASE EncodeFail
  <2>1. CASE UNCHANGED segs
    BY <1>2, <2>1
  <2>2. ASSUME NEW c \in Cuts, file = "open",
               segs' = [segs EXCEPT ![seq] = Append(@, Cut(batch[pos], c))]
        PROVE  FilesOrdered' /\ Filed' \subseteq Filed \cup {batch[pos]}
    <3>1. Cut(batch[pos], c) \in Item /\ Cut(batch[pos], c).id = batch[pos]
      BY <1>3, <1>5, <2>2, ItemTypes DEF Cut
    <3> QED BY <1>1, <1>3, <1>5, <2>2, <3>1 DEF EncodeFail
  <2> QED BY <1>5, <2>1, <2>2 DEF EncodeFail
<1> QED
  BY <1>2, <1>4, <1>5
     DEF Next, Server, BootStep, FlushStep, ManifestStep, vars, segVars, Write, WriteReturn,
         NewWALReopen, NewWALCreate, Replay, ReplayFail, RotateFail, ManifestTruncate,
         ManifestReadFail, ManifestWrite, ManifestWriteFail, Receive, Drain, DrainDone,
         Sync, SyncFail, Ack

\* Segments are listed in the order in which rotate numbers them, the current
\* one last: also across failed rotations, which skip a number, and restarts.
LEMMA SegmentsOrderedStep ==
  ASSUME ManifestSound, TypeInv, ListInv, SegmentsOrdered, [Next]_vars
  PROVE  SegmentsOrdered'
<1>1. ~ManifestReadFail /\ ~ManifestWriteFail
  BY DEF ManifestReadFail, ManifestWriteFail, ManifestSound, ListInv, Dead, TypeInv, Control
<1>2. /\ manifest.segments \in Seq(Nat) /\ newList \in Seq(Nat) /\ Listed \in Seq(Nat)
      /\ seq \in Nat
  BY DEF TypeInv, TypeOK, ManifestType, Manifest, FileType, Listed
<1>3. Elems(Listed) \subseteq Nat
  BY <1>2, ElementOfSeq DEF Elems
<1>4. CASE /\ Listed' = Listed
           /\ phase' = "down" \/ (phase # "down" /\ seq' \in {seq, seq + 1})
  BY <1>2, <1>3, <1>4, SMT DEF SegmentsOrdered
<1>5. CASE UNCHANGED <<phase, seq, Listed>>
  BY <1>5 DEF SegmentsOrdered
<1>6. CASE ManifestTruncate
  <2>1. Listed = manifest.segments /\ Listed' = newList' /\ UNCHANGED <<phase, seq>>
        /\ phase # "down"
    BY <1>6 DEF ManifestTruncate, Listed, fileVars, TypeInv, Control
  <2>2. CASE seq \in Elems(manifest.segments)
    BY <1>6, <2>1, <2>2 DEF ManifestTruncate, SegmentsOrdered
  <2>3. CASE seq \notin Elems(manifest.segments)
    <3>1. Listed' = Append(Listed, seq)
      BY <1>6, <2>1, <2>3 DEF ManifestTruncate
    <3>2. \A s \in Elems(Listed) : s < seq
      BY <1>2, <1>3, <2>1, <2>3, SMT DEF SegmentsOrdered
    <3>3. /\ Len(Listed') = Len(Listed) + 1 /\ Len(Listed) \in Nat
          /\ \A i \in 1..Len(Listed) : Listed'[i] = Listed[i]
          /\ Listed'[Len(Listed) + 1] = seq
      BY <1>2, <3>1, AppendProperties, LenProperties, SMT
    <3>4. \A i \in 1..Len(Listed) : Listed[i] < seq
      BY <3>2 DEF Elems
    <3>5. \A j, k \in 1..Len(Listed') : j < k => Listed'[j] < Listed'[k]
      <4> SUFFICES ASSUME NEW j \in 1..Len(Listed'), NEW k \in 1..Len(Listed'), j < k
                   PROVE  Listed'[j] < Listed'[k]
        OBVIOUS
      <4>1. j \in 1..Len(Listed) /\ (k \in 1..Len(Listed) \/ k = Len(Listed) + 1)
        BY <3>3, SMT
      <4> QED BY <3>3, <3>4, <4>1 DEF SegmentsOrdered
    <3>6. Elems(Listed') = Elems(Listed) \cup {seq}
      BY <1>2, <3>1, ElemsAppend
    <3> QED BY <1>2, <2>1, <3>2, <3>5, <3>6, SMTT(15) DEF SegmentsOrdered
  <2> QED BY <2>2, <2>3
<1>7. CASE NewWALReopen
  <2>1. Listed = manifest.segments /\ Listed' = Listed /\ Listed # << >>
        /\ seq' = Listed[Len(Listed)]
    BY <1>7 DEF NewWALReopen, Listed, manVars, ListInv, LastOf, TypeInv, Control
  <2>2. Len(Listed) \in Nat /\ Len(Listed) # 0 /\ \A i \in 1..Len(Listed) : Listed[i] \in Nat
    BY <1>2, <2>1, EmptySeq, LenProperties, ElementOfSeq
  <2>3. ASSUME NEW i \in 1..Len(Listed) PROVE Listed[i] <= Listed[Len(Listed)]
    <3>1. i = Len(Listed) \/ (i < Len(Listed) /\ Len(Listed) \in 1..Len(Listed))
      BY <2>2, SMT
    <3>2. Listed[i] \in Nat /\ Listed[Len(Listed)] \in Nat
      BY <2>2, SMT
    <3> QED BY <3>1, <3>2, SMT DEF SegmentsOrdered
  <2>4. \A s \in Elems(Listed) : s <= seq'
    BY <2>1, <2>3 DEF Elems
  <2> QED BY <2>1, <2>4 DEF SegmentsOrdered
<1>8. CASE NewWALCreate
  <2>1. Listed' = Listed /\ Listed = << >>
    BY <1>8 DEF NewWALCreate, Listed, manVars, ListInv, TypeInv, Control
  <2> QED BY <2>1, SMT DEF SegmentsOrdered, Elems
<1>9. CASE ManifestWrite
  <2>1. Listed' = Listed /\ seq' = seq /\ phase # "down"
    BY <1>9 DEF ManifestWrite, ManifestOf, Return, Listed, fileVars, TypeInv, Control
  <2> QED BY <1>4, <2>1
<1>10. CASE Crash
  <2>1. CASE manifest.state = "torn"
    <3>1. Listed' = << >> /\ phase' = "down"
      BY <1>10, <2>1 DEF Crash, Listed, ListInv
    <3> QED BY <3>1, SMT DEF SegmentsOrdered
  <2>2. CASE manifest.state # "torn"
    BY <1>4, <1>10, <2>2 DEF Crash, Listed, ListInv
  <2> QED BY <2>1, <2>2
<1>11. CASE RotateOpen \/ RotateFail \/ Replay \/ ReplayFail \/ FlushStep
  <2>1. pc # "writeManifest" /\ pc' # "writeManifest" /\ UNCHANGED manifest
    BY <1>11 DEF RotateOpen, RotateFail, Replay, ReplayFail, FlushStep, Receive, Drain,
                 DrainDone, Encode, EncodeFail, Sync, SyncFail, Ack, SizeCheck, Return,
                 manVars, procVars
  <2>2. seq' \in {seq, seq + 1} /\ phase # "down"
    BY <1>11 DEF RotateOpen, RotateFail, Replay, ReplayFail, FlushStep, Receive, Drain,
                 DrainDone, Encode, EncodeFail, Sync, SyncFail, Ack, fileVars,
                 TypeInv, Control
  <2> QED BY <1>4, <2>1, <2>2 DEF Listed
<1> QED
  BY <1>1, <1>5, <1>6, <1>7, <1>8, <1>9, <1>10, <1>11
     DEF Next, Server, BootStep, ManifestStep, vars, procVars, fileVars, manVars, Listed,
         Write, WriteReturn

\* A batch entry still to be written is an entry of the batch.
LEMMA ToWriteInBatch ==
  ASSUME TypeInv
  PROVE  /\ ToWrite \subseteq 1..Len(batch) /\ Len(batch) \in Nat /\ Len(pending) \in Nat
         /\ lastId \in Nat
         /\ \A j \in 1..Len(batch) : batch[j] \in Nat
         /\ \A p \in 1..Len(pending) : pending[p] \in Nat
<1>1. /\ batch \in Seq(Nat) /\ pending \in Seq(Nat) /\ lastId \in Nat /\ pos \in Nat \ {0}
  BY DEF TypeInv, TypeOK, BatchType, QueueType
<1>2. Len(batch) \in Nat /\ Len(pending) \in Nat
  BY <1>1, LenProperties
<1>3. ToWrite \subseteq 1..Len(batch)
  BY <1>1, <1>2, SMT DEF ToWrite
<1> QED BY <1>1, <1>2, <1>3, ElementOfSeq

\* Nothing is out of order in the queue, the batch and the files if none grows.
LEMMA QueueKept ==
  ASSUME QueueOrdered, UNCHANGED <<lastId, pending, batch>>, Filed' \subseteq Filed,
         ToWrite' \subseteq ToWrite
  PROVE  QueueOrdered'
BY DEF QueueOrdered

\* A Write gets a number above all others and goes to the end of the queue.
LEMMA QueueWrite ==
  ASSUME TypeInv, QueueOrdered, NEW w \in Writers, Write(w)
  PROVE  QueueOrdered'
<1>1. /\ lastId < MaxWrites /\ lastId' = lastId + 1 /\ pending' = Append(pending, lastId + 1)
      /\ UNCHANGED <<batch, segs, pc, pos>>
  BY DEF Write, batchVars, segVars, procVars
<1>2. Filed' = Filed /\ ToWrite' = ToWrite /\ MaxWrites \in Nat
  BY <1>1, WALConstants, SMT DEF Filed, ToWrite
<1>3. pending \in Seq(Nat) /\ lastId + 1 \in Nat
  BY SMT DEF TypeInv, TypeOK, QueueType
<1>4. /\ Len(pending') = Len(pending) + 1
      /\ \A p \in 1..Len(pending) : pending'[p] = pending[p]
      /\ pending'[Len(pending) + 1] = lastId + 1
  BY <1>1, <1>3, AppendProperties, SMT
<1>5. \A p \in 1..Len(pending') : p \in 1..Len(pending) \/ p = Len(pending) + 1
  BY <1>4, ToWriteInBatch, SMT
<1>6. \A p \in 1..Len(pending') : pending'[p] \in 1..lastId'
  BY <1>1, <1>4, <1>5, ToWriteInBatch, SMTT(15) DEF QueueOrdered
<1>7. \A p, q \in 1..Len(pending') : p < q => pending'[p] < pending'[q]
  <2> SUFFICES ASSUME NEW p \in 1..Len(pending'), NEW q \in 1..Len(pending'), p < q
               PROVE  pending'[p] < pending'[q]
    OBVIOUS
  <2>1. p \in 1..Len(pending) /\ (q \in 1..Len(pending) \/ q = Len(pending) + 1)
    BY <1>4, <1>5, ToWriteInBatch, SMT
  <2>2. pending[p] < lastId + 1
    BY <2>1, ToWriteInBatch, SMTT(15) DEF QueueOrdered
  <2> QED BY <1>4, <2>1, <2>2 DEF QueueOrdered
<1>8. \A id \in Filed, p \in 1..Len(pending') : id < pending'[p]
  BY <1>4, <1>5, ToWriteInBatch, SMTT(15) DEF QueueOrdered
<1>9. \A j \in ToWrite, p \in 1..Len(pending') : batch[j] < pending'[p]
  <2>1. \A j \in ToWrite : batch[j] \in 1..lastId
    BY ToWriteInBatch DEF QueueOrdered
  <2> QED BY <1>4, <1>5, <2>1, ToWriteInBatch, SMTT(15) DEF QueueOrdered
<1>10. lastId' <= MaxWrites
  BY <1>1, <1>2, ToWriteInBatch, SMT
<1>11. /\ \A id \in Filed : id \in 1..lastId'
       /\ \A j \in 1..Len(batch) : batch[j] \in 1..lastId'
  BY <1>1, ToWriteInBatch, SMTT(15) DEF QueueOrdered
<1> QED BY <1>1, <1>2, <1>6, <1>7, <1>8, <1>9, <1>10, <1>11 DEF QueueOrdered

\* The flusher moves the oldest entry of the queue to the end of the batch.
LEMMA QueueTake ==
  ASSUME TypeInv, QueueOrdered, Receive \/ Drain
  PROVE  QueueOrdered'
<1> DEFINE old == IF pc = "recv" THEN << >> ELSE batch
           head == Head(pending)
<1>1. /\ pending # << >> /\ pending' = Tail(pending) /\ batch' = Append(old, head)
      /\ pc' = "drain" /\ UNCHANGED <<lastId, segs>>
      /\ pc = "recv" \/ pc = "drain"
  <2>1. \A x : Append(<< >>, x) = <<x>>
    BY SMT
  <2>2. CASE Receive
    BY <2>1, <2>2 DEF Receive, segVars
  <2>3. CASE Drain
    BY <2>3 DEF Drain, segVars, procVars
  <2> QED BY <2>2, <2>3
<1>2. /\ Filed' = Filed /\ ToWrite' = 1..Len(batch') /\ ToWrite = 1..Len(old)
  BY <1>1, EmptySeq, SMTT(15) DEF Filed, ToWrite
<1>3. pending \in Seq(Nat) /\ old \in Seq(Nat) /\ lastId \in Nat /\ Filed \subseteq Nat
  BY FiledNat, SMT DEF TypeInv, TypeOK, QueueType, BatchType
<1>4. Len(pending) \in Nat \ {0} /\ head = pending[1] /\ head \in Nat
  BY <1>1, <1>3, HeadTailProperties, EmptySeq, LenProperties, SMT
<1>5. /\ Len(pending') = Len(pending) - 1
      /\ \A p \in 1..Len(pending') : pending'[p] = pending[p + 1]
  BY <1>1, <1>3, <1>4, HeadTailProperties
<1>6. \A p \in 1..Len(pending') : p + 1 \in 1..Len(pending) /\ 1 < p + 1
  BY <1>4, <1>5, SMT
<1>7. \A j \in 1..Len(old) : old[j] = batch[j] /\ j \in 1..Len(batch)
  BY EmptySeq, SMT
<1> HIDE DEF head, old
<1>8. /\ Len(batch') = Len(old) + 1 /\ Len(old) \in Nat
      /\ \A j \in 1..Len(old) : batch'[j] = old[j]
      /\ batch'[Len(old) + 1] = head
  BY <1>1, <1>3, <1>4, AppendProperties, LenProperties, SMTT(15)
<1>9. \A j \in 1..Len(batch') : (j \in 1..Len(old) /\ batch'[j] = batch[j])
                                   \/ (j = Len(old) + 1 /\ batch'[j] = pending[1])
  BY <1>4, <1>7, <1>8, SMT
<1>10. 1 \in 1..Len(pending)
  BY <1>4, SMT
<1>11. \A p \in 1..Len(pending') : pending'[p] \in 1..lastId'
  BY <1>1, <1>5, <1>6 DEF QueueOrdered
<1>12. \A p, q \in 1..Len(pending') : p < q => pending'[p] < pending'[q]
  <2> SUFFICES ASSUME NEW p \in 1..Len(pending'), NEW q \in 1..Len(pending'), p < q
               PROVE  pending'[p] < pending'[q]
    OBVIOUS
  <2>1. p + 1 < q + 1
    BY <1>4, <1>5, SMT
  <2> QED BY <1>5, <1>6, <2>1 DEF QueueOrdered
<1>13. \A id \in Filed, p \in 1..Len(pending') : id < pending'[p]
  BY <1>5, <1>6 DEF QueueOrdered
<1>14. \A j \in 1..Len(batch') : batch'[j] \in 1..lastId'
  BY <1>1, <1>7, <1>9, <1>10 DEF QueueOrdered
<1>15. \A j \in 1..Len(batch'), p \in 1..Len(pending') : batch'[j] < pending'[p]
  <2> SUFFICES ASSUME NEW j \in 1..Len(batch'), NEW p \in 1..Len(pending')
               PROVE  batch'[j] < pending[p + 1]
    BY <1>5
  <2>1. CASE j \in 1..Len(old) /\ batch'[j] = batch[j]
    BY <1>2, <1>6, <2>1 DEF QueueOrdered
  <2>2. CASE batch'[j] = pending[1]
    BY <1>6, <1>10, <2>2 DEF QueueOrdered
  <2> QED BY <1>9, <2>1, <2>2
<1>16. \A j, k \in 1..Len(batch') : j < k => batch'[j] < batch'[k]
  <2> SUFFICES ASSUME NEW j \in 1..Len(batch'), NEW k \in 1..Len(batch'), j < k
               PROVE  batch'[j] < batch'[k]
    OBVIOUS
  <2>1. j \in 1..Len(old) /\ batch'[j] = batch[j]
    BY <1>7, <1>8, SMT
  <2>2. CASE k \in 1..Len(old) /\ batch'[k] = batch[k]
    BY <1>2, <2>1, <2>2 DEF QueueOrdered
  <2>3. CASE batch'[k] = pending[1]
    BY <1>2, <1>10, <2>1, <2>3 DEF QueueOrdered
  <2> QED BY <1>9, <2>2, <2>3
<1>17. \A id \in Filed, j \in 1..Len(batch') : id < batch'[j]
  BY <1>2, <1>9, <1>10 DEF QueueOrdered
<1>18. lastId' <= MaxWrites /\ \A id \in Filed : id \in 1..lastId'
  BY <1>1 DEF QueueOrdered
<1> QED
  BY <1>2, <1>11, <1>12, <1>13, <1>14, <1>15, <1>16, <1>17, <1>18 DEF QueueOrdered

\* The next entry of the batch goes to the file; those behind it follow it.
LEMMA QueueEncode ==
  ASSUME TypeInv, QueueOrdered, Encode \/ EncodeFail,
         Filed' \subseteq Filed \cup {batch[pos]}
  PROVE  QueueOrdered'
<1>1. /\ pc = "encode" /\ UNCHANGED <<lastId, pending, batch>>
      /\ (pc' = "encode" /\ pos' = pos + 1) \/ pc' \in {"sync", "ack", "open"}
  BY DEF Encode, EncodeFail, SizeCheck, queueVars
<1>2. pos \in 1..Len(batch) /\ Len(batch) \in Nat
  BY <1>1, LenProperties DEF TypeInv, TypeOK, BatchType
<1>3. pos \in ToWrite /\ ToWrite' \subseteq ToWrite /\ \A j \in ToWrite' : pos < j
  BY <1>1, <1>2, SMT DEF ToWrite
<1>4. /\ \A id \in Filed' : id \in Filed \/ id = batch[pos]
      /\ batch[pos] \in 1..lastId
      /\ \A p \in 1..Len(pending) : batch[pos] < pending[p]
      /\ \A j \in ToWrite' : batch[pos] < batch[j]
  BY <1>2, <1>3 DEF QueueOrdered
<1>5. /\ \A id \in Filed' : id \in 1..lastId
      /\ \A id \in Filed', p \in 1..Len(pending) : id < pending[p]
      /\ \A id \in Filed', j \in ToWrite' : id < batch[j]
  BY <1>3, <1>4 DEF QueueOrdered
<1>6. /\ \A j \in ToWrite', p \in 1..Len(pending) : batch[j] < pending[p]
      /\ \A j, k \in ToWrite' : j < k => batch[j] < batch[k]
  BY <1>3 DEF QueueOrdered
<1> QED BY <1>1, <1>5, <1>6 DEF QueueOrdered

\* Entries leave the queue in the order of the Write calls and reach the files
\* in that order.
LEMMA QueueOrderedStep ==
  ASSUME TypeInv, ListInv, OrderInv, [Next]_vars
  PROVE  QueueOrdered'
<1>1. QueueOrdered /\ Filed' \subseteq Filed \cup (IF pc = "encode" THEN {batch[pos]} ELSE {})
  BY FilesOrderedStep DEF OrderInv
<1>2. ASSUME NEW w \in Writers, Write(w) PROVE QueueOrdered'
  BY <1>1, <1>2, QueueWrite
<1>3. CASE Receive \/ Drain
  BY <1>1, <1>3, QueueTake
<1>4. CASE Encode \/ EncodeFail
  BY <1>1, <1>4, QueueEncode DEF Encode, EncodeFail
<1>5. CASE Crash
  <2>1. batch' = << >> /\ pending' = << >> /\ lastId' = lastId /\ pc' = "new"
    BY <1>5 DEF Crash
  <2>2. ToWrite' = {} /\ Filed' \subseteq Filed
    BY <1>5, <2>1, FilesShrink DEF ToWrite, OrderInv
  <2> QED BY <1>1, <2>1, <2>2, EmptySeq, SMTT(15) DEF QueueOrdered
<1>6. CASE Ack
  <2>1. UNCHANGED <<lastId, pending>> /\ pc \notin {"drain", "encode"}
        /\ pc' \notin {"drain", "encode"} /\ (batch' = batch \/ batch' = << >>)
    BY <1>6 DEF Ack, queueVars
  <2>2. ToWrite' = {} /\ Filed' \subseteq Filed
    BY <1>1, <2>1 DEF ToWrite
  <2> QED BY <1>1, <2>1, <2>2, EmptySeq, SMTT(15) DEF QueueOrdered
<1>7. CASE \/ DrainDone \/ Sync \/ SyncFail \/ RotateOpen \/ RotateFail \/ ManifestStep
           \/ BootStep \/ (\E w \in Writers : WriteReturn(w)) \/ UNCHANGED vars
  <2>1. UNCHANGED <<lastId, pending, batch>>
    BY <1>7 DEF DrainDone, Sync, SyncFail, RotateOpen, RotateFail, ManifestStep,
                ManifestTruncate, ManifestReadFail, ManifestWrite, ManifestWriteFail, BootStep,
                NewWALReopen, NewWALCreate, Replay, ReplayFail, WriteReturn, vars,
                queueVars, batchVars
  <2>2. UNCHANGED segs \/ RotateOpen
    BY <1>7 DEF DrainDone, Sync, SyncFail, RotateOpen, RotateFail, ManifestStep,
                ManifestTruncate, ManifestReadFail, ManifestWrite, ManifestWriteFail, BootStep,
                NewWALReopen, NewWALCreate, Replay, ReplayFail, WriteReturn, vars, segVars
  <2>3. Filed' \subseteq Filed
    BY <2>2, FilesShrink DEF OrderInv
  <2>4. ToWrite' \subseteq ToWrite
    <3>1. CASE DrainDone
      BY <2>1, <3>1 DEF DrainDone, ToWrite
    <3>2. CASE (\E w \in Writers : WriteReturn(w)) \/ UNCHANGED vars
      BY <3>2 DEF WriteReturn, vars, procVars, batchVars, ToWrite
    <3>3. CASE \/ Sync \/ SyncFail \/ RotateOpen \/ RotateFail \/ ManifestStep \/ BootStep
      <4>1. pc' \notin {"drain", "encode"}
        BY <3>3 DEF Sync, SyncFail, SizeCheck, RotateOpen, RotateFail, Return, ManifestStep,
                    ManifestTruncate, ManifestReadFail, ManifestWrite, ManifestWriteFail,
                    BootStep, NewWALReopen, NewWALCreate, Replay, ReplayFail
      <4> QED BY <4>1 DEF ToWrite
    <3> QED BY <1>7, <3>1, <3>2, <3>3
  <2> QED BY <1>1, <2>1, <2>3, <2>4, QueueKept
<1> QED
  BY <1>2, <1>3, <1>4, <1>5, <1>6, <1>7 DEF Next, Server, FlushStep

\* Before the first start there is nothing to be out of order.
LEMMA OrderInvInit == Init => OrderInv
<1>1. Init => segs = << >> /\ DOMAIN << >> = {} /\ Listed = << >> /\ Filed = {}
  <2>1. Init => segs = << >> /\ Listed = << >>
    BY SMT DEF Init, Listed, NoManifest
  <2>2. DOMAIN << >> = {}
    BY SMT
  <2> QED BY <2>1, <2>2 DEF Filed
<1>2. Init => /\ phase = "down" /\ lastId = 0 /\ Len(batch) = 0 /\ Len(pending) = 0
              /\ ToWrite = {}
  BY EmptySeq DEF Init, ToWrite
<1>3. Init => FilesOrdered
  BY <1>1 DEF FilesOrdered
<1>4. Init => SegmentsOrdered
  BY <1>1, <1>2, EmptySeq, SMT DEF SegmentsOrdered
<1>5. Init => QueueOrdered
  BY <1>1, <1>2, WALConstants, SMT DEF QueueOrdered
<1> QED BY <1>3, <1>4, <1>5 DEF OrderInv

\* Every step keeps the order.
LEMMA OrderInvStep ==
  ASSUME ManifestSound, TypeInv, ListInv, OrderInv, [Next]_vars
  PROVE  OrderInv'
BY FilesOrderedStep, SegmentsOrderedStep, QueueOrderedStep DEF OrderInv

\* As long as the manifest can be read and written, replay runs through the
\* records in the order of their Write calls and through none twice, whatever
\* is cut short, fails or crashes, and for any number of batches and segments.
THEOREM ReplayOrdered ==
  ASSUME ManifestSound
  PROVE  Spec => []ReplayInOrder
<1>1. TypeInv /\ ListInv /\ OrderInv => ReplayInOrder
  <2> SUFFICES ASSUME TypeInv, ListInv, OrderInv,
                      NEW j \in 1..Len(manifest.segments), NEW k \in 1..Len(manifest.segments),
                      NEW m \in 1..Len(segs[manifest.segments[j]]),
                      NEW n \in 1..Len(segs[manifest.segments[k]]),
                      j < k \/ (j = k /\ m < n)
               PROVE  segs[manifest.segments[j]][m].id < segs[manifest.segments[k]][n].id
    BY DEF ReplayInOrder
  <2>1. pc # "writeManifest"
    BY EmptySeq, SMTT(15) DEF ListInv
  <2>2. Listed = manifest.segments
    BY <2>1 DEF Listed
  <2>3. manifest.segments[j] \in DOMAIN segs /\ manifest.segments[k] \in DOMAIN segs
    BY <2>2 DEF ListInv, Elems
  <2>4. j < k => manifest.segments[j] < manifest.segments[k]
    BY <2>2 DEF OrderInv, SegmentsOrdered
  <2> QED BY <2>3, <2>4 DEF OrderInv, FilesOrdered
<1>2. TypeInv /\ TypeInv' /\ ListInv /\ [Next]_vars => ListInv'
  BY ListInvStep
<1>3. TypeInv /\ ListInv /\ OrderInv /\ [Next]_vars => OrderInv'
  BY OrderInvStep
<1> QED BY <1>1, <1>2, <1>3, ListInvInit, OrderInvInit, TypeInvInit, TypeInvStep, PTL DEF Spec

-----------------------------------------------------------------------------
(***************************************************************************)
(* The promise of DurableLog.                                              *)
(***************************************************************************)

\* If no record is cut, the log is what the files hold.
LEMMA LogIsFiled ==
  ASSUME TypeInv, ListInv, MildInv
  PROVE  LogIds = Filed
<1>1. ASSUME NEW s \in DOMAIN segs
      PROVE  Records(segs[s]) = {segs[s][m].id : m \in 1..Len(segs[s])}
  <2>1. Len(segs[s]) \in Nat
    BY LenProperties DEF TypeInv, TypeOK, SegType
  <2>2. \A j \in 1..Len(segs[s]) : \A k \in 1..j : segs[s][k].cut = "whole"
    BY <2>1, SMT DEF MildInv, AllWhole
  <2> QED BY <2>2 DEF Records
<1>2. Elems(Listed) \subseteq DOMAIN segs
  BY DEF ListInv
<1>3. \A s \in DOMAIN segs : s \notin Elems(Listed) => segs[s] = << >>
  BY DEF ListInv, MildInv
<1>4. LogIds \subseteq Filed
  BY <1>1, <1>2, SMTT(15) DEF LogIds, Filed
<1>5. ASSUME NEW s \in DOMAIN segs, NEW m \in 1..Len(segs[s])
      PROVE  segs[s][m].id \in LogIds
  <2>1. s \in Elems(Listed)
    BY <1>3, <1>5, EmptySeq, SMT
  <2> QED BY <1>1, <2>1 DEF LogIds
<1> QED BY <1>4, <1>5, SMTT(15) DEF Filed

\* A record that was synced is in the files.
LEMMA OnDiskFiled ==
  ASSUME TypeInv, NEW id, OnDisk(id)
  PROVE  id \in Filed
<1>1. PICK s \in DOMAIN segs :
             \E i \in 1..synced[s] : i <= Len(segs[s]) /\ segs[s][i] = Whole(id)
  BY DEF OnDisk
<1>2. Len(segs[s]) \in Nat /\ synced[s] \in Nat
  BY LenProperties DEF TypeInv, TypeOK, SegType
<1>3. PICK i \in 1..Len(segs[s]) : segs[s][i] = Whole(id)
  BY <1>1, <1>2, SMT
<1> QED BY <1>3, SMTT(15) DEF Filed, Whole

\* Encode is the step that puts a record in the log, rotate none.
LEMMA FiledGrows ==
  ASSUME TypeInv
  PROVE  /\ RotateOpen => Filed \subseteq Filed'
         /\ Encode => Filed \cup {batch[pos]} \subseteq Filed'
<1>1. ASSUME RotateOpen, NEW s \in DOMAIN segs PROVE s \in DOMAIN segs' /\ segs'[s] = segs[s]
  BY <1>1 DEF RotateOpen
<1>2. RotateOpen => Filed \subseteq Filed'
  BY <1>1, SMT DEF Filed
<1>3. ASSUME Encode PROVE Filed \cup {batch[pos]} \subseteq Filed'
  <2>1. seq \in DOMAIN segs /\ segs[seq] \in Seq(Item) /\ Len(segs[seq]) \in Nat
    BY <1>3, LenProperties DEF Encode, TypeInv, TypeOK, FileType, SegType, Control
  <2>2. Whole(batch[pos]) \in Item /\ Whole(batch[pos]).id = batch[pos]
    BY <1>3, ElementOfSeq, ItemTypes DEF Encode, TypeInv, TypeOK, BatchType, Whole
  <2>3. /\ DOMAIN segs' = DOMAIN segs /\ segs'[seq] = Append(segs[seq], Whole(batch[pos]))
        /\ \A s \in DOMAIN segs : s # seq => segs'[s] = segs[s]
    BY <1>3, <2>1 DEF Encode
  <2>4. /\ Len(segs'[seq]) = Len(segs[seq]) + 1
        /\ \A i \in 1..Len(segs[seq]) : segs'[seq][i] = segs[seq][i]
        /\ segs'[seq][Len(segs[seq]) + 1] = Whole(batch[pos])
    BY <2>1, <2>2, <2>3, AppendProperties, SMTT(15)
  <2>5. \A s \in DOMAIN segs : \A i \in 1..Len(segs[s]) :
          i \in 1..Len(segs'[s]) /\ segs'[s][i] = segs[s][i]
    BY <2>1, <2>3, <2>4, SMTT(15)
  <2>6. Len(segs[seq]) + 1 \in 1..Len(segs'[seq])
    BY <2>1, <2>4, SMT
  <2>7. batch[pos] \in Filed'
    BY <2>1, <2>2, <2>3, <2>4, <2>6, SMTT(15) DEF Filed
  <2>8. Filed \subseteq Filed'
    BY <2>3, <2>5, SMT DEF Filed
  <2> QED BY <2>7, <2>8
<1> QED BY <1>2, <1>3

\* After a step too the log is what the files hold, and it holds everything
\* that was acknowledged.
LEMMA LogIsFiledNext ==
  (TypeInv /\ DurInv /\ ListInv /\ MildInv)' => (LogIds = Filed /\ acked \subseteq Filed)'
<1>1. TypeInv /\ DurInv /\ ListInv /\ MildInv => LogIds = Filed /\ acked \subseteq Filed
  BY LogIsFiled, OnDiskFiled DEF DurInv, AckedOnDisk
<1> QED BY <1>1, PTL

\* Every step of wal.go, seen from its callers, is a step of DurableLog or none:
\* Encode appends, the answer nil acknowledges, a crash forgets.
LEMMA PromiseStep ==
  ASSUME Mild, TypeInv, TypeInv', DurInv, DurInv', ListInv, ListInv', OrderInv,
         MildInv, MildInv', [Next]_vars
  PROVE  Promise!Next \/ UNCHANGED <<LogIds, acked>>
<1>1. LogIds = Filed /\ LogIds' = Filed'
  BY LogIsFiled, LogIsFiledNext
<1> USE DEF Promise!Next, Promise!Append, Promise!Acknowledge, Promise!Crash
<1>2. CASE Encode
  <2>1. pos \in ToWrite /\ pos \in 1..Len(batch)
    BY <1>2, LenProperties, SMTT(15) DEF Encode, ToWrite, TypeInv, TypeOK, BatchType
  <2>2. batch[pos] \in 1..MaxWrites /\ \A id \in Filed : id < batch[pos]
    BY <2>1, WALConstants, SMTT(15) DEF OrderInv, QueueOrdered, TypeInv, TypeOK, QueueType
  <2>3. Filed' = Filed \cup {batch[pos]}
    BY <1>2, FiledGrows, FilesOrderedStep DEF Encode
  <2>4. acked' = acked
    BY <1>2 DEF Encode, ackVars
  <2> QED BY <1>1, <2>2, <2>3, <2>4
<1>3. CASE Ack
  <2>1. Filed' = Filed
    BY <1>3, SMTT(15) DEF Ack, segVars, Filed
  <2>2. CASE err = "failed"
    BY <1>1, <1>3, <2>1, <2>2 DEF Ack
  <2>3. CASE err # "failed"
    <3>1. pos \in 1..Len(batch) /\ err = "nil" /\ phase = "run"
      BY <1>3, <2>3 DEF Ack, TypeInv, TypeOK, BatchType, Control
    <3>2. OnDisk(batch[pos])
      BY <1>3, <3>1 DEF Ack, DurInv, BatchOnDisk
    <3>3. batch[pos] \in Filed
      BY <3>2, OnDiskFiled
    <3>4. batch[pos] \in 1..MaxWrites
      BY <3>1, WALConstants, SMTT(15) DEF OrderInv, QueueOrdered, TypeInv, TypeOK, QueueType
    <3>5. acked' = acked \cup {batch[pos]}
      BY <1>3, <2>3 DEF Ack
    <3> QED BY <1>1, <2>1, <3>3, <3>4, <3>5
  <2> QED BY <2>2, <2>3
<1>4. CASE Crash
  <2>1. Filed' \subseteq Filed /\ acked' = acked
    BY <1>4, FilesShrink DEF OrderInv, Crash, ackVars
  <2>2. acked' \subseteq Filed'
    BY LogIsFiledNext
  <2> QED BY <1>1, <2>1, <2>2
<1>5. CASE RotateOpen
  <2>1. Filed' = Filed /\ acked' = acked
    BY <1>5, FiledGrows, FilesShrink DEF OrderInv, RotateOpen, ackVars
  <2> QED BY <1>1, <2>1
<1>6. CASE UNCHANGED <<segs, acked>>
  BY <1>1, <1>6, SMTT(15) DEF Filed
<1>7. EncodeFail => UNCHANGED segs
  BY DEF EncodeFail, Mild
<1> QED
  BY <1>2, <1>3, <1>4, <1>5, <1>6, <1>7
     DEF Next, Server, BootStep, FlushStep, ManifestStep, vars, segVars, ackVars, Write,
         WriteReturn, NewWALReopen, NewWALCreate, Replay, ReplayFail, RotateFail,
         ManifestTruncate, ManifestReadFail, ManifestWrite, ManifestWriteFail, Receive, Drain,
         DrainDone, EncodeFail, Sync, SyncFail

\* Group commit, rotation and recovery implement DurableLog for every number of
\* writers, queue capacity and segment size, as long as crashes, failed fsyncs
\* and failed opens are all that goes wrong.
THEOREM PromiseKept ==
  ASSUME Mild
  PROVE  Spec => DurableLogSpec
<1> DEFINE All == TypeInv /\ DurInv /\ ListInv /\ OrderInv /\ MildInv
<1>1. ManifestSound
  BY DEF Mild, ManifestSound
<1>2. Init => All
  BY TypeInvInit, DurInvInit, ListInvInit, OrderInvInit, MildInvInit
<1>3. All /\ [Next]_vars => All'
  BY <1>1, TypeInvStep, DurInvStep, ListInvStep, OrderInvStep, MildInvStep
<1>4. Init => Promise!Init
  <2>1. Init => LogIds = {} /\ acked = {}
    BY SMTT(15) DEF Init, LogIds, Listed, NoManifest, Elems
  <2> QED BY <2>1 DEF Promise!Init
<1>5. All /\ All' /\ [Next]_vars => Promise!Next \/ UNCHANGED <<LogIds, acked>>
  BY PromiseStep
<1> HIDE DEF All
<1> QED BY <1>2, <1>3, <1>4, <1>5, PTL DEF Spec, DurableLogSpec, Promise!Spec
=============================================================================
