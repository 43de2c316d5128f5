------------------------------ MODULE StoreOps ------------------------------
(***************************************************************************)
(* What each operation of core/store/store.go does to one key, between the *)
(* Lock and the Unlock of the key's shard.  A slot is everything the shard *)
(* holds under one key: its entries in the maps data, lists, sets, hashes  *)
(* and expires.  A key may have entries in several of them at once; no     *)
(* operation checks for that.                                              *)
(***************************************************************************)
EXTENDS Integers, Sequences

CONSTANTS
  Absent,    \* no entry in a map of values
  Never,     \* no entry in expires
  MaxInt     \* the largest int (2^63 - 1 in the code)

ASSUME StoreOpsConstants ==
  MaxInt \in Nat /\ Never \notin Int /\ Absent # << >> /\ Absent # {}

EmptySlot == [str |-> Absent, list |-> Absent, set |-> Absent, hash |-> Absent,
              exp |-> Never]

\* A string is a decimal numeral as strconv.Itoa writes it, another text that
\* strconv.Atoi reads as a number ("+1", "007"), or a text it rejects.
Canonical(n) == [form |-> "canonical", n |-> n]
Padded(n) == [form |-> "padded", n |-> n]
Text == [form |-> "text", n |-> 0]

\* hasStr || hasList || hasSet || hasHash
Present(e) ==
  e.str # Absent \/ e.list # Absent \/ e.set # Absent \/ e.hash # Absent

\* hasExp && time.Now().After(exp)
ExpiredAt(e, t) == e.exp # Never /\ t > e.exp

\* The key exists for a client: it has a value and its time has not come.
LiveAt(e, t) == Present(e) /\ ~ExpiredAt(e, t)

\* The two meanings of lazy expiry: Exists and the sweeper drop everything
\* under the key, Get only the string and the deadline.
Evict(e) == EmptySlot
GetEvict(e) == [e EXCEPT !.str = Absent, !.exp = Never]

SetOp(e, v) == [e EXCEPT !.str = v, !.exp = Never]

DelOp(e) == IF Present(e) THEN EmptySlot ELSE e

ExpireOp(e, t) == IF Present(e) THEN [e EXCEPT !.exp = t] ELSE e

PersistOp(e) == IF Present(e) THEN [e EXCEPT !.exp = Never] ELSE e

\* An int that leaves its range comes back at the other end.
Wrap(n) == IF n > MaxInt THEN -MaxInt - 1
           ELSE IF n < -MaxInt - 1 THEN MaxInt ELSE n

\* Incr and Decr count from 0 and refuse a text that is not a number.
AddOp(e, d) ==
  LET v == IF e.str = Absent THEN Canonical(0) ELSE e.str
  IN IF v.form = "text" THEN e ELSE [e EXCEPT !.str = Canonical(Wrap(v.n + d))]
IncrOp(e) == AddOp(e, 1)
DecrOp(e) == AddOp(e, -1)

-----------------------------------------------------------------------------
\* Lists.  A map entry that is missing reads as the empty list.
ListOf(e) == IF e.list = Absent THEN << >> ELSE e.list

\* An emptied list is deleted from the map; its deadline stays.
StoreList(e, l) == [e EXCEPT !.list = IF l = << >> THEN Absent ELSE l]

LPushOp(e, vs) == [e EXCEPT !.list = vs \o ListOf(e)]
RPushOp(e, vs) == [e EXCEPT !.list = ListOf(e) \o vs]
LPopOp(e) == IF ListOf(e) = << >> THEN e ELSE StoreList(e, Tail(e.list))
RPopOp(e) == IF ListOf(e) = << >> THEN e
             ELSE StoreList(e, SubSeq(e.list, 1, Len(e.list) - 1))

\* Sets.
SetOf(e) == IF e.set = Absent THEN {} ELSE e.set

StoreSet(e, S) == [e EXCEPT !.set = IF S = {} THEN Absent ELSE S]

SAddOp(e, ms) == [e EXCEPT !.set = SetOf(e) \cup ms]
SRemOp(e, ms) == IF e.set = Absent THEN e ELSE StoreSet(e, e.set \ ms)
\* SPop removes whichever member the map iteration yields first.
SPopOp(e, m) == StoreSet(e, e.set \ {m})

\* Hashes: functions from the fields that are set to their values.
HashOf(e) == IF e.hash = Absent THEN [f \in {} |-> Absent] ELSE e.hash

\* HSet sets one field, HMSet several under one lock.
HMSetOp(e, fv) ==
  LET h == HashOf(e)
  IN [e EXCEPT !.hash = [f \in DOMAIN h \cup DOMAIN fv |->
                           IF f \in DOMAIN fv THEN fv[f] ELSE h[f]]]
HSetOp(e, f, v) == HMSetOp(e, [g \in {f} |-> v])

\* Faulty variant: a hash without fields stays in the map.
HDelOpKeepsEmpty(e, fs) ==
  IF e.hash = Absent THEN e
  ELSE [e EXCEPT !.hash = [f \in DOMAIN e.hash \ fs |-> e.hash[f]]]

HDelOp(e, fs) ==
  IF e.hash = Absent THEN e
  ELSE LET left == DOMAIN e.hash \ fs
       IN [e EXCEPT !.hash = IF left = {} THEN Absent ELSE [f \in left |-> e.hash[f]]]
-----------------------------------------------------------------------------
Strs == [form : {"canonical", "padded", "text"}, n : Int]
Hashes(E) == UNION {[fs -> E] : fs \in SUBSET E}

\* The slots with strings of V and collections of the elements E.
Slot(V, E) ==
  [str : {Absent} \cup V, list : {Absent} \cup Seq(E), set : {Absent} \cup SUBSET E,
   hash : {Absent} \cup Hashes(E), exp : {Never} \cup Int]

\* A collection that is there has an element.
NonEmpty(e) ==
  /\ e.list # << >>
  /\ e.set # {}
  /\ e.hash # Absent => DOMAIN e.hash # {}
=============================================================================
