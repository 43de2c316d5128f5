--------------------------- MODULE StoreOpsProofs ---------------------------
(***************************************************************************)
(* What the operations of core/store/store.go leave under a key, whatever  *)
(* the strings V and the elements E of collections are: a slot of the same *)
(* type in which no collection is empty.  The proofs about the components  *)
(* that work on slots rest on these lemmas.                                *)
(***************************************************************************)
EXTENDS StoreOps, ListRange, SequenceTheorems, FiniteSetTheorems, TLAPS

GoodSlot(e, V, E) == e \in Slot(V, E) /\ NonEmpty(e)

\* An empty slot has the type of a slot and holds no empty collection: what
\* NewStore, FlushAll, Del, Exists and the sweeper leave behind.
LEMMA EmptyGood == \A V, E : GoodSlot(EmptySlot, V, E)
BY StoreOpsConstants DEF GoodSlot, Slot, NonEmpty, EmptySlot

\* Set, Get's eviction, Del, Expire and Persist change the string and the
\* deadline of a slot, or all of it.
LEMMA StringOpsGood ==
  ASSUME NEW V, NEW E, NEW e, GoodSlot(e, V, E), NEW v \in V, NEW t \in Int
  PROVE  /\ GoodSlot(SetOp(e, v), V, E) /\ GoodSlot(GetEvict(e), V, E) /\ GoodSlot(DelOp(e), V, E)
         /\ GoodSlot(ExpireOp(e, t), V, E) /\ GoodSlot(PersistOp(e), V, E)
<1> e \in Slot(V, E) /\ NonEmpty(e) BY DEF GoodSlot
<1>1. GoodSlot(SetOp(e, v), V, E) /\ GoodSlot(GetEvict(e), V, E)
  BY Zenon DEF GoodSlot, Slot, NonEmpty, SetOp, GetEvict
<1>2. GoodSlot(DelOp(e), V, E)
  BY EmptyGood DEF GoodSlot, DelOp
<1>3. GoodSlot(ExpireOp(e, t), V, E) /\ GoodSlot(PersistOp(e), V, E)
  BY DEF GoodSlot, Slot, NonEmpty, ExpireOp, PersistOp
<1> QED BY <1>1, <1>2, <1>3

\* Wrap, the overflow of an int, always ends within its range.
LEMMA WrapRange == \A n \in Int : Wrap(n) \in -MaxInt - 1..MaxInt
BY StoreOpsConstants DEF Wrap

\* Incr and Decr leave a numeral in the string of a slot, or leave it alone.
LEMMA CountersGood ==
  ASSUME NEW V, NEW E, NEW e, GoodSlot(e, V, E), NEW d \in Int,
         \A v \in V : v.n \in Int, \A n \in -MaxInt - 1..MaxInt : Canonical(n) \in V
  PROVE  GoodSlot(AddOp(e, d), V, E)
<1> e \in Slot(V, E) /\ NonEmpty(e) BY DEF GoodSlot
<1> DEFINE v == IF e.str = Absent THEN Canonical(0) ELSE e.str
<1>1. v.n \in Int BY DEF Slot, Canonical
<1>2. Wrap(v.n + d) \in -MaxInt - 1..MaxInt BY <1>1, WrapRange
<1>3. Canonical(Wrap(v.n + d)) \in V BY <1>2
<1>4. AddOp(e, d) = IF v.form = "text" THEN e
                    ELSE [e EXCEPT !.str = Canonical(Wrap(v.n + d))]
  BY DEF AddOp
<1> HIDE DEF v
<1> QED BY <1>3, <1>4 DEF GoodSlot, Slot, NonEmpty

\* The same where every string that Atoi may meet is allowed.
LEMMA CountersGoodStrs ==
  ASSUME NEW E, NEW e, GoodSlot(e, Strs, E)
  PROVE  GoodSlot(IncrOp(e), Strs, E) /\ GoodSlot(DecrOp(e), Strs, E)
<1>1. /\ \A v \in Strs : v.n \in Int
      /\ \A n \in -MaxInt - 1..MaxInt : Canonical(n) \in Strs
  BY StoreOpsConstants DEF Strs, Canonical
<1>2. \A d \in Int : GoodSlot(AddOp(e, d), Strs, E) BY <1>1, CountersGood
<1> QED BY <1>2 DEF IncrOp, DecrOp

\* A push never leaves an empty list.
LEMMA ListsGood ==
  ASSUME NEW V, NEW E, NEW e, GoodSlot(e, V, E), NEW vs \in Seq(E), vs # << >>
  PROVE  GoodSlot(LPushOp(e, vs), V, E) /\ GoodSlot(RPushOp(e, vs), V, E)
<1> e \in Slot(V, E) /\ NonEmpty(e) BY DEF GoodSlot
<1>1. ListOf(e) \in Seq(E) BY DEF ListOf, Slot
<1>2. /\ vs \o ListOf(e) \in Seq(E) /\ vs \o ListOf(e) # << >>
      /\ ListOf(e) \o vs \in Seq(E) /\ ListOf(e) \o vs # << >>
  <2>1. Len(vs) # 0 BY EmptySeq
  <2> QED BY <1>1, <2>1, ConcatProperties, LenProperties
<1>3. GoodSlot(LPushOp(e, vs), V, E) /\ GoodSlot(RPushOp(e, vs), V, E)
  BY <1>2, Zenon DEF GoodSlot, Slot, NonEmpty, LPushOp, RPushOp
<1> QED BY <1>3

\* A pop that empties a list removes it.
LEMMA PopsGood ==
  ASSUME NEW V, NEW E, NEW e, GoodSlot(e, V, E)
  PROVE  GoodSlot(LPopOp(e), V, E) /\ GoodSlot(RPopOp(e), V, E)
<1> e \in Slot(V, E) /\ NonEmpty(e) BY DEF GoodSlot
<1>4. ASSUME NEW l \in Seq(E) PROVE GoodSlot(StoreList(e, l), V, E)
  BY <1>4, StoreOpsConstants DEF GoodSlot, Slot, NonEmpty, StoreList
<1>5. ASSUME ListOf(e) # << >>
      PROVE  /\ Tail(e.list) \in Seq(E)
             /\ SubSeq(e.list, 1, Len(e.list) - 1) \in Seq(E)
  <2>1. e.list \in Seq(E) /\ e.list # << >> BY <1>5 DEF ListOf, Slot
  <2>2. Len(e.list) \in Nat BY <2>1
  <2> QED BY <2>1, <2>2, HeadTailProperties, SubSeqProperties
<1>6. GoodSlot(LPopOp(e), V, E) /\ GoodSlot(RPopOp(e), V, E)
  BY <1>4, <1>5, Zenon DEF LPopOp, RPopOp, GoodSlot
<1> QED BY <1>6

\* Adding members never leaves an empty set; a removal that empties it
\* removes it.
LEMMA SetsGood ==
  ASSUME NEW V, NEW E, NEW e, GoodSlot(e, V, E), NEW ms \in SUBSET E, ms # {}
  PROVE  GoodSlot(SAddOp(e, ms), V, E) /\ GoodSlot(SRemOp(e, ms), V, E)
<1> e \in Slot(V, E) /\ NonEmpty(e) BY DEF GoodSlot
<1>1. SetOf(e) \subseteq E BY DEF SetOf, Slot
<1>2. GoodSlot(SAddOp(e, ms), V, E)
  BY <1>1 DEF GoodSlot, Slot, NonEmpty, SAddOp
<1>3. ASSUME NEW S \in SUBSET E PROVE GoodSlot(StoreSet(e, S), V, E)
  BY <1>3, StoreOpsConstants, Zenon DEF GoodSlot, Slot, NonEmpty, StoreSet
<1>4. e.set # Absent => e.set \in SUBSET E BY DEF Slot
<1>5. GoodSlot(SRemOp(e, ms), V, E) BY <1>3, <1>4 DEF SRemOp, GoodSlot
<1> QED BY <1>2, <1>5

\* SPop of the last member removes the set.
LEMMA SPopGood ==
  ASSUME NEW V, NEW E, NEW e, GoodSlot(e, V, E), NEW m \in SetOf(e)
  PROVE  GoodSlot(SPopOp(e, m), V, E)
BY StoreOpsConstants, Zenon DEF GoodSlot, Slot, NonEmpty, SetOf, SPopOp, StoreSet

\* A hash with a field may stand in a slot: what HSet, HMSet and HDel store.
LEMMA HashGood ==
  ASSUME NEW V, NEW E, NEW e, GoodSlot(e, V, E), NEW hs \in SUBSET E, hs # {}, NEW h \in [hs -> E]
  PROVE  GoodSlot([e EXCEPT !.hash = h], V, E)
<1>1. h \in Hashes(E) BY DEF Hashes
<1>2. DOMAIN h # {} OBVIOUS
<1> QED BY <1>1, <1>2 DEF GoodSlot, Slot, NonEmpty

\* Setting fields never leaves an empty hash.
LEMMA HashesGood ==
  ASSUME NEW V, NEW E, NEW e, GoodSlot(e, V, E), NEW fs \in SUBSET E, fs # {}, NEW fv \in [fs -> E]
  PROVE  GoodSlot(HMSetOp(e, fv), V, E)
<1> e \in Slot(V, E) /\ NonEmpty(e) BY DEF GoodSlot
<1>1. e.hash # Absent => \E gs \in SUBSET E : e.hash \in [gs -> E]
  BY DEF Slot, Hashes
<1>2. PICK gs \in SUBSET E : HashOf(e) \in [gs -> E]
  BY <1>1, Zenon DEF HashOf
<1>4. GoodSlot(HMSetOp(e, fv), V, E)
  <2> DEFINE h == [f \in DOMAIN HashOf(e) \cup DOMAIN fv |->
                     IF f \in DOMAIN fv THEN fv[f] ELSE HashOf(e)[f]]
  <2>1. h \in [gs \cup fs -> E] BY <1>2
  <2>2. HMSetOp(e, fv) = [e EXCEPT !.hash = h] BY DEF HMSetOp
  <2> HIDE DEF h
  <2> QED BY <2>1, <2>2, HashGood
<1> QED BY <1>4

\* HDel of the last field removes the hash.
LEMMA HDelGood ==
  ASSUME NEW V, NEW E, NEW e, GoodSlot(e, V, E), NEW fs
  PROVE  GoodSlot(HDelOp(e, fs), V, E)
<1> e \in Slot(V, E) /\ NonEmpty(e) BY DEF GoodSlot
<1>1. CASE e.hash = Absent BY <1>1 DEF HDelOp, GoodSlot
<1>2. CASE e.hash # Absent
  <2> DEFINE left == DOMAIN e.hash \ fs
             h == [f \in left |-> e.hash[f]]
  <2>1. PICK hs \in SUBSET E : e.hash \in [hs -> E]
    BY <1>2 DEF Slot, Hashes
  <2>2. left \in SUBSET E /\ h \in [left -> E] BY <2>1
  <2>3. HDelOp(e, fs) = [e EXCEPT !.hash = IF left = {} THEN Absent ELSE h]
    BY <1>2 DEF HDelOp
  <2> HIDE DEF left, h
  <2>4. CASE left = {} BY <2>3, <2>4 DEF GoodSlot, Slot, NonEmpty
  <2>5. CASE left # {} BY <2>2, <2>3, <2>5, HashGood
  <2> QED BY <2>4, <2>5
<1> QED BY <1>1, <1>2
-----------------------------------------------------------------------------
\* LRANGE answers with exactly the elements from start to stop, wherever these
\* lie, before, in or past the list, and never reads outside the list.
THEOREM LRangeExact ==
  ASSUME NEW S, NEW l \in Seq(S), NEW start \in Int, NEW stop \in Int
  PROVE  RangeOf(LRange(l, start, stop), l, start, stop)
<1> DEFINE n == Len(l)
           a == Start(n, start)
           b == Stop(n, stop)
           r == LRange(l, start, stop)
<1>1. n \in Nat /\ a \in Nat /\ b \in Int /\ b <= n - 1
  BY DEF FromEnd, Start, Stop
<1>2. CASE n = 0 \/ a > b
  <2>1. r = << >> /\ Len(r) = 0
    BY <1>2 DEF LRange
  <2>2. Between(l, start, stop) = 0..(0 + Len(r) - 1)
    BY <1>2, <2>1 DEF Between, FromEnd, Start, Stop
  <2> QED
    BY <1>1, <2>1, <2>2 DEF RangeOf
<1>3. CASE ~(n = 0 \/ a > b)
  <2>1. r = SubSeq(l, a + 1, b + 1)
    BY <1>3, Zenon DEF LRange
  <2>2. Between(l, start, stop) = a..b
    BY <1>1, <1>3 DEF Between, FromEnd, Start, Stop
  <2> HIDE DEF a, b, r
  <2>3. \A i \in (a + 1)..(b + 1) : l[i] \in S
    BY <1>1
  <2>4. /\ Len(r) = b - a + 1
        /\ \A i \in 1..((b + 1) - (a + 1) + 1) : r[i] = l[a + 1 + i - 1]
    BY <1>1, <1>3, <2>1, <2>3, SubSeqProperties, SMTT(15)
  <2>5. \A i \in 1..Len(r) : r[i] = l[a + i]
    BY <1>1, <2>4, SMTT(15)
  <2>6. a \in 0..n /\ a..b = a..(a + Len(r) - 1)
    BY <1>1, <1>3, <2>4
  <2> QED
    BY <2>2, <2>5, <2>6 DEF RangeOf, r
<1> QED
  BY <1>2, <1>3

\* LINDEX i answers what LRANGE i i does.
THEOREM LIndexAgrees ==
  ASSUME NEW S, NEW l \in Seq(S), NEW index \in Int
  PROVE  LIndex(l, index) = LRange(l, index, index)
<1> DEFINE i == FromEnd(Len(l), index)
<1>1. CASE Len(l) = 0 \/ i < 0 \/ i >= Len(l)
  BY <1>1 DEF LIndex, LRange, FromEnd, Start, Stop
<1>2. CASE ~(Len(l) = 0 \/ i < 0 \/ i >= Len(l))
  <2>1. i \in 0..(Len(l) - 1) /\ Start(Len(l), index) = i /\ Stop(Len(l), index) = i
    BY <1>2 DEF FromEnd, Start, Stop
  <2> HIDE DEF i
  <2>2. LRange(l, index, index) = SubSeq(l, i + 1, i + 1)
    BY <1>2, <2>1 DEF LRange
  <2>3. \A j \in (i + 1)..(i + 1) : l[j] \in S
    BY <2>1
  <2>4. /\ SubSeq(l, i + 1, i + 1) \in Seq(S)
        /\ Len(SubSeq(l, i + 1, i + 1)) = 1
        /\ SubSeq(l, i + 1, i + 1)[1] = l[i + 1]
    BY <2>1, <2>3, SubSeqProperties
  <2>5. <<l[i + 1]>> \in Seq(S) /\ Len(<<l[i + 1]>>) = 1 /\ <<l[i + 1]>>[1] = l[i + 1]
    BY <2>1
  <2>6. SubSeq(l, i + 1, i + 1) = <<l[i + 1]>>
    <3> DEFINE s == SubSeq(l, i + 1, i + 1)
               t == <<l[i + 1]>>
    <3>1. s \in Seq(S) /\ t \in Seq(S) /\ Len(s) = Len(t) /\ \A j \in 1..Len(s) : s[j] = t[j]
      BY <2>4, <2>5
    <3> HIDE DEF s, t
    <3>2. s = t
      BY <3>1, SeqEqual
    <3> QED
      BY <3>2 DEF s, t
  <2> QED
    BY <1>2, <2>2, <2>6, Zenon DEF LIndex, i
<1> QED
  BY <1>1, <1>2
=============================================================================
