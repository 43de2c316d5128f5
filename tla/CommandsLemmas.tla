--------------------------- MODULE CommandsLemmas ---------------------------
(***************************************************************************)
(* What a command's arguments, calls and replies can be, for any keys,     *)
(* clients, commands and contents.                                         *)
(***************************************************************************)
EXTENDS Commands, StoreOpsProofs, WellFoundedInduction

\* The steps that name no prover are within reach of Zenon.
USE Zenon

\* A set of positions in an argument list has a first one.
LEMMA Least ==
  ASSUME NEW T \in SUBSET Nat, T # {}
  PROVE  \E m \in T : \A k \in T : m <= k
<1> DEFINE R == OpToRel(<, Nat)
<1>1. IsWellFoundedOn(R, Nat) BY NatLessThanWellFounded
<1>2. \A x, y \in Nat : x < y => <<x, y>> \in R BY DEF OpToRel
<1> HIDE DEF R
<1>3. PICK x \in T : \A y \in T : ~(<<y, x>> \in R) BY <1>1, WFMin
<1>4. ASSUME NEW y \in T PROVE x <= y
  <2>1. x \in Nat /\ y \in Nat /\ ~(y < x) BY <1>2, <1>3
  <2> QED BY <2>1, SMT
<1> QED BY <1>4

\* A set of positions in an argument list has a last one: of two pairs with the
\* same field, HSET and HMSET let the later one stand.
LEMMA Greatest ==
  ASSUME NEW n \in Nat, NEW T \in SUBSET (0..n), T # {}
  PROVE  \E m \in T : \A k \in T : k <= m
<1> DEFINE U == {u \in 0..n : n - u \in T}
<1>0. PICK t \in T : TRUE OBVIOUS
<1>1. t \in 0..n /\ n - (n - t) = t BY SMT
<1>2. U \in SUBSET Nat /\ n - t \in U BY <1>1, SMT
<1>3. PICK u \in U : \A k \in U : u <= k BY <1>2, Least
<1>4. n - u \in T /\ u \in 0..n BY <1>3
<1>5. ASSUME NEW k \in T PROVE k <= n - u
  <2>1. k \in 0..n /\ n - (n - k) = k BY SMT
  <2>2. n - k \in U BY <2>1, SMT
  <2> HIDE DEF U
  <2> QED BY <1>3, <1>4, <2>1, <2>2, SMT
<1> QED BY <1>4, <1>5
-----------------------------------------------------------------------------
Names == Singles \cup Composites

Req == [name : Names, args : Seq(Keys \cup Words)]

\* A request as Parse hands it to Handle.
LEMMA RequestKind ==
  ASSUME NEW r, Request(r)
  PROVE  /\ r \in Req /\ r.name \in Names
         /\ r.args \in Seq(Keys \cup Words) /\ Len(r.args) \in Nat
<1>1. r \in Req BY DEF Request, Req, Names
<1> QED BY <1>1, LenProperties DEF Req

\* The number of arguments that the handlers of Handle go on with.
LEMMA Arity ==
  ASSUME NEW r, Request(r), ~Rejected(r)
  PROVE  /\ r \in Req /\ Len(r.args) \in Nat \ {0}
         /\ r.name \in {"INCRBY", "DECRBY", "EXPIRE", "RENAME", "APPEND", "HGET", "SISMEMBER",
                        "HEXISTS", "LINDEX"} => Len(r.args) = 2
         /\ r.name \in {"SET", "LPUSH", "RPUSH", "SADD", "SREM", "HDEL", "HMGET"} =>
              Len(r.args) >= 2
         /\ r.name = "TYPE" => Len(r.args) = 1
         /\ r.name = "LRANGE" => Len(r.args) = 3
         /\ r.name = "MSET" => Len(r.args) >= 2 /\ Len(r.args) % 2 = 0
         /\ r.name \in {"HSET", "HMSET"} => Len(r.args) >= 3 /\ Len(r.args) % 2 = 1
<1>1. r \in Req BY RequestKind
<1>2. ArgsFit(r) BY DEF Rejected
<1>3. Len(r.args) \in Nat /\ r.name \in Names BY RequestKind
<1>4. r.name \in {"INCRBY", "DECRBY", "EXPIRE", "RENAME", "APPEND", "LINDEX",
                  "SISMEMBER", "HGET", "HEXISTS"} => Len(r.args) = 2
  BY <1>2 DEF ArgsFit
<1>5. r.name \in {"SET", "LPUSH", "RPUSH", "SADD", "SREM", "HDEL", "HMGET"} => Len(r.args) >= 2
  BY <1>2 DEF ArgsFit
<1>6. /\ r.name = "TYPE" => Len(r.args) = 1
      /\ r.name = "LRANGE" => Len(r.args) = 3
      /\ r.name = "MSET" => Len(r.args) >= 2
      /\ r.name \in {"HSET", "HMSET"} => Len(r.args) >= 3
  BY <1>2 DEF ArgsFit
<1>10. /\ r.name = "MSET" => Len(r.args) % 2 = 0
       /\ r.name \in {"HSET", "HMSET"} => Len(r.args) % 2 = 1
  BY <1>2 DEF ArgsFit
<1>7. r.name \in {"GET", "EXISTS", "INCR", "DECR", "TTL", "PERSIST", "TYPE", "STRLEN",
                  "LLEN", "SMEMBERS", "SCARD", "SPOP", "SRANDMEMBER", "HGETALL",
                  "HKEYS", "HVALS", "HLEN"} => Len(r.args) = 1
  BY <1>2 DEF ArgsFit
<1>8. r.name \in {"DEL", "MGET", "LPOP", "RPOP"} => Len(r.args) >= 1
  BY <1>2 DEF ArgsFit
<1>9. Len(r.args) # 0
  <2> SUFFICES ASSUME Len(r.args) = 0 PROVE FALSE OBVIOUS
  <2>1. r.name \notin Strings \cup Counts \cup Deadlines \cup {"STRLEN"}
    BY <1>4, <1>5, <1>7, SMT DEF Strings, Counts, Deadlines
  <2>2. r.name \notin Lists BY <1>4, <1>5, <1>6, <1>7, <1>8, SMT DEF Lists
  <2>3. r.name \notin Sets BY <1>4, <1>5, <1>7, SMT DEF Sets
  <2>4. r.name \notin Fields BY <1>4, <1>5, <1>6, <1>7, SMT DEF Fields
  <2>5. r.name \notin Composites BY <1>4, <1>6, <1>8, SMT DEF Composites
  <2> QED BY <1>3, <2>1, <2>2, <2>3, <2>4, <2>5 DEF Names, Singles
<1> QED BY <1>1, <1>3, <1>4, <1>5, <1>6, <1>9, <1>10

\* The keys of a command are keys, and its other arguments are not.
LEMMA Arguments ==
  ASSUME NEW r, Request(r), ~Rejected(r)
  PROVE  /\ KeysOf(r) \subseteq Keys /\ r.args[1] \in KeysOf(r)
         /\ KeyAt(r) \subseteq 1..Len(r.args)
         /\ \A i \in 1..Len(r.args) : i \notin KeyAt(r) => r.args[i] \in Words
<1>1. Len(r.args) \in Nat \ {0} BY Arity
<1>2. KeyAt(r) \subseteq 1..Len(r.args) /\ 1 \in KeyAt(r) BY <1>1, SMT DEF KeyAt
<1>3. \A i \in 1..Len(r.args) : r.args[i] \in IF i \in KeyAt(r) THEN Keys ELSE Words
  BY DEF Request
<1> QED BY <1>2, <1>3 DEF KeysOf

\* RENAME has two keys.
LEMMA RenameKeys ==
  ASSUME NEW r, Request(r), ~Rejected(r), r.name = "RENAME"
  PROVE  r.args[1] \in KeysOf(r) \cap Keys /\ r.args[2] \in KeysOf(r) \cap Keys
<1>1. KeysOf(r) \subseteq Keys BY Arguments
<1>2. Len(r.args) = 2 BY Arity
<1>3. KeyAt(r) = 1..2 BY <1>2 DEF KeyAt
<1> QED BY <1>1, <1>3, SMT DEF KeysOf
-----------------------------------------------------------------------------
Finite(e) == IsFiniteSet(SetOf(e)) /\ IsFiniteSet(DOMAIN HashOf(e))

\* What a key may hold, in the terms of the lemmas about slots.
LEMMA HeldDef == \A e : Held(e) <=> GoodSlot(e, Values, Words) /\ Finite(e)
BY DEF Held, GoodSlot, Finite

\* The texts that APPEND joins and those of clients are strings, and so are the
\* numerals that Incr and Decr write.
LEMMA StringKinds ==
  /\ Words \subseteq Values /\ EmptyText \in Values /\ Absent \notin Values
  /\ \A v \in Values : v.n \in Int /\ v.form \in {"canonical", "padded", "text"}
  /\ \A n \in -MaxInt - 1..MaxInt : Canonical(n) \in Values
<1>1. Words \subseteq Values /\ Absent \notin Values BY CommandsInputs DEF Values
<1>2. EmptyText \in Values BY SMT DEF EmptyText, Values
<1>3. \A v \in Values : v.n \in Int /\ v.form \in {"canonical", "padded", "text"}
  BY StoreOpsConstants, SMT DEF Values, Plain
<1>4. \A n \in -MaxInt - 1..MaxInt : Canonical(n) \in Values BY DEF Values, Plain, Canonical
<1> QED BY <1>1, <1>2, <1>3, <1>4

\* Joining two strings gives a string.
LEMMA JoinKind == \A s, u \in Values : Join(s, u) \in Values
<1> SUFFICES ASSUME NEW s \in Values, NEW u \in Values PROVE Join(s, u) \in Values
  OBVIOUS
<1>1. ASSUME NEW v \in Values PROVE Pieces(v) \in Seq(Plain)
  <2>1. CASE v \in Plain
    <3>1. "pieces" \notin DOMAIN v BY <2>1 DEF Plain
    <3>2. Pieces(v) = <<v>> BY <3>1 DEF Pieces
    <3> QED BY <2>1, <3>2, SMT
  <2>2. CASE v \in [form : {"text"}, n : {0}, pieces : Seq(Plain)]
    <3>1. "pieces" \in DOMAIN v /\ v.pieces \in Seq(Plain) BY <2>2
    <3> QED BY <3>1 DEF Pieces
  <2> QED BY <2>1, <2>2 DEF Values
<1>2. Pieces(s) \o Pieces(u) \in Seq(Plain) BY <1>1, ConcatProperties
<1> QED BY <1>2 DEF Join, Values

\* An empty slot is what the eviction of a key and its deletion leave.
LEMMA HeldEmpty == Held(EmptySlot)
<1>1. SetOf(EmptySlot) = {} /\ DOMAIN HashOf(EmptySlot) = {}
  BY DEF SetOf, HashOf, EmptySlot
<1>2. Finite(EmptySlot) BY <1>1, FS_EmptySet DEF Finite
<1> QED BY <1>2, EmptyGood, HeldDef

\* A slot whose set and hash stay is as finite as before.
LEMMA FiniteSame ==
  ASSUME NEW e, NEW f, Finite(e), f.set = e.set, f.hash = e.hash
  PROVE  Finite(f)
BY DEF Finite, SetOf, HashOf

\* Operations on the string and on the deadline.
LEMMA HeldString ==
  ASSUME NEW e, Held(e), NEW v \in Values, NEW t \in Int
  PROVE  /\ Held(SetOp(e, v)) /\ Held(GetEvict(e)) /\ Held(DelOp(e))
         /\ Held(ExpireOp(e, t)) /\ Held(PersistOp(e))
<1>1. GoodSlot(e, Values, Words) /\ Finite(e) BY HeldDef
<1>2. e \in Slot(Values, Words) BY <1>1 DEF GoodSlot
<1>3. Held(SetOp(e, v)) /\ Held(GetEvict(e))
  <2>1. Finite(SetOp(e, v)) BY <1>1, <1>2, FiniteSame DEF SetOp, Slot
  <2>2. Finite(GetEvict(e)) BY <1>1, <1>2, FiniteSame DEF GetEvict, Slot
  <2> QED BY <1>1, <2>1, <2>2, StringOpsGood, HeldDef
<1>4. Held(DelOp(e)) BY HeldEmpty DEF DelOp
<1>5. Held(ExpireOp(e, t)) /\ Held(PersistOp(e))
  <2>1. Finite(ExpireOp(e, t)) BY <1>1, <1>2, FiniteSame DEF ExpireOp, Slot
  <2>2. Finite(PersistOp(e)) BY <1>1, <1>2, FiniteSame DEF PersistOp, Slot
  <2> QED BY <1>1, <2>1, <2>2, StringOpsGood, HeldDef
<1> QED BY <1>3, <1>4, <1>5

\* Incr and Decr.
LEMMA HeldAdd ==
  ASSUME NEW e, Held(e), NEW d \in Int
  PROVE  Held(AddOp(e, d))
<1>1. GoodSlot(e, Values, Words) /\ Finite(e) BY HeldDef
<1>2. GoodSlot(AddOp(e, d), Values, Words) BY <1>1, StringKinds, CountersGood
<1>3. \/ AddOp(e, d) = e
      \/ \E s : AddOp(e, d) = [e EXCEPT !.str = s]
  BY DEF AddOp
<1>4. Finite(AddOp(e, d)) BY <1>1, <1>3, FiniteSame DEF GoodSlot, Slot
<1> QED BY <1>2, <1>4, HeldDef

\* Pushes and pops.
LEMMA HeldList ==
  ASSUME NEW e, Held(e)
  PROVE  /\ \A vs \in Seq(Words) : vs # << >> => Held(LPushOp(e, vs)) /\ Held(RPushOp(e, vs))
         /\ Held(LPopOp(e)) /\ Held(RPopOp(e))
<1>1. GoodSlot(e, Values, Words) /\ Finite(e) BY HeldDef
<1>2. ASSUME NEW l PROVE Finite([e EXCEPT !.list = l])
  BY <1>1, FiniteSame DEF GoodSlot, Slot
<1>3. ASSUME NEW vs \in Seq(Words), vs # << >> PROVE Held(LPushOp(e, vs)) /\ Held(RPushOp(e, vs))
  <2>1. GoodSlot(LPushOp(e, vs), Values, Words) /\ GoodSlot(RPushOp(e, vs), Values, Words)
    BY <1>1, <1>3, ListsGood
  <2>2. Finite(LPushOp(e, vs)) /\ Finite(RPushOp(e, vs)) BY <1>2 DEF LPushOp, RPushOp
  <2> QED BY <2>1, <2>2, HeldDef
<1>4. Held(LPopOp(e)) /\ Held(RPopOp(e))
  <2>1. GoodSlot(LPopOp(e), Values, Words) /\ GoodSlot(RPopOp(e), Values, Words)
    BY <1>1, PopsGood
  <2>2. Finite(LPopOp(e)) /\ Finite(RPopOp(e)) BY <1>1, <1>2 DEF LPopOp, RPopOp, StoreList
  <2> QED BY <2>1, <2>2, HeldDef
<1> QED BY <1>3, <1>4

\* Members added and removed.
LEMMA HeldSet ==
  ASSUME NEW e, Held(e)
  PROVE  /\ \A ms \in SUBSET Words : ms # {} /\ IsFiniteSet(ms) =>
               Held(SAddOp(e, ms)) /\ Held(SRemOp(e, ms))
         /\ \A m \in SetOf(e) : Held(SPopOp(e, m))
<1>1. GoodSlot(e, Values, Words) /\ Finite(e) BY HeldDef
<1>2. ASSUME NEW S, IsFiniteSet(S) PROVE Finite(StoreSet(e, S)) /\ Finite([e EXCEPT !.set = S])
  <2>1. e \in Slot(Values, Words) BY <1>1 DEF GoodSlot
  <2>2. ASSUME NEW T, T = S \/ T = Absent PROVE Finite([e EXCEPT !.set = T])
    <3> DEFINE f == [e EXCEPT !.set = T]
    <3>1. f.set = T /\ f.hash = e.hash BY <2>1 DEF Slot
    <3> HIDE DEF f
    <3>2. SetOf(f) = S \/ SetOf(f) = {} BY <2>2, <3>1 DEF SetOf
    <3>3. HashOf(f) = HashOf(e) BY <3>1 DEF HashOf
    <3>4. Finite(f) BY <1>1, <1>2, <3>2, <3>3, FS_EmptySet DEF Finite
    <3> QED BY <3>4 DEF f
  <2> QED BY <2>2 DEF StoreSet
<1>3. ASSUME NEW T \in SUBSET SetOf(e) PROVE IsFiniteSet(T)
  BY <1>1, FS_Subset DEF Finite
<1>4. ASSUME NEW ms \in SUBSET Words, ms # {}, IsFiniteSet(ms)
      PROVE  Held(SAddOp(e, ms)) /\ Held(SRemOp(e, ms))
  <2>1. GoodSlot(SAddOp(e, ms), Values, Words) /\ GoodSlot(SRemOp(e, ms), Values, Words)
    BY <1>1, <1>4, SetsGood
  <2>2. IsFiniteSet(SetOf(e) \cup ms) BY <1>1, <1>4, FS_Union DEF Finite
  <2>3. Finite(SAddOp(e, ms)) BY <1>2, <2>2 DEF SAddOp
  <2>4. e.set # Absent => IsFiniteSet(e.set \ ms) BY <1>3 DEF SetOf
  <2>5. Finite(SRemOp(e, ms)) BY <1>1, <1>2, <2>4 DEF SRemOp
  <2> QED BY <2>1, <2>3, <2>5, HeldDef
<1>5. ASSUME NEW m \in SetOf(e) PROVE Held(SPopOp(e, m))
  <2>1. GoodSlot(SPopOp(e, m), Values, Words) BY <1>1, SPopGood
  <2>2. IsFiniteSet(e.set \ {m}) BY <1>3 DEF SetOf
  <2> QED BY <1>2, <2>1, <2>2, HeldDef DEF SPopOp
<1> QED BY <1>4, <1>5

\* Fields set and removed.
LEMMA HeldHash ==
  ASSUME NEW e, Held(e)
  PROVE  /\ \A fs \in SUBSET Words : fs # {} /\ IsFiniteSet(fs) =>
               \A fv \in [fs -> Words] : Held(HMSetOp(e, fv))
         /\ \A fs : Held(HDelOp(e, fs))
<1>1. GoodSlot(e, Values, Words) /\ Finite(e) BY HeldDef
<1>2. e \in Slot(Values, Words) BY <1>1 DEF GoodSlot
<1>3. ASSUME NEW h, IsFiniteSet(DOMAIN h) \/ h = Absent PROVE Finite([e EXCEPT !.hash = h])
  <2> DEFINE f == [e EXCEPT !.hash = h]
  <2>1. f.set = e.set /\ f.hash = h BY <1>2 DEF Slot
  <2> HIDE DEF f
  <2>2. SetOf(f) = SetOf(e) BY <2>1 DEF SetOf
  <2>3. IsFiniteSet(DOMAIN HashOf(f))
    <3>1. CASE f.hash = Absent
      <4>1. DOMAIN HashOf(f) = {} BY <3>1 DEF HashOf
      <4> QED BY <4>1, FS_EmptySet
    <3>2. CASE f.hash # Absent BY <1>3, <2>1, <3>2 DEF HashOf
    <3> QED BY <3>1, <3>2
  <2>4. Finite(f) BY <1>1, <2>2, <2>3 DEF Finite
  <2> QED BY <2>4 DEF f
<1>4. ASSUME NEW fs \in SUBSET Words, fs # {}, IsFiniteSet(fs), NEW fv \in [fs -> Words]
      PROVE  Held(HMSetOp(e, fv))
  <2> DEFINE h == [f \in DOMAIN HashOf(e) \cup DOMAIN fv |->
                     IF f \in DOMAIN fv THEN fv[f] ELSE HashOf(e)[f]]
  <2>1. HMSetOp(e, fv) = [e EXCEPT !.hash = h] BY DEF HMSetOp
  <2>2. DOMAIN h = DOMAIN HashOf(e) \cup fs OBVIOUS
  <2>3. IsFiniteSet(DOMAIN HashOf(e) \cup fs) BY <1>1, <1>4, FS_Union DEF Finite
  <2> HIDE DEF h
  <2>4. Finite(HMSetOp(e, fv)) BY <1>3, <2>1, <2>2, <2>3
  <2>5. GoodSlot(HMSetOp(e, fv), Values, Words) BY <1>1, <1>4, HashesGood
  <2> QED BY <2>4, <2>5, HeldDef
<1>5. ASSUME NEW fs PROVE Held(HDelOp(e, fs))
  <2>1. GoodSlot(HDelOp(e, fs), Values, Words) BY <1>1, HDelGood
  <2>2. CASE e.hash = Absent BY <1>1, <2>1, <2>2, HeldDef DEF HDelOp
  <2>3. CASE e.hash # Absent
    <3> DEFINE left == DOMAIN e.hash \ fs
               h == IF left = {} THEN Absent ELSE [f \in left |-> e.hash[f]]
    <3>1. left \in SUBSET DOMAIN HashOf(e) BY <2>3 DEF HashOf
    <3>2. IsFiniteSet(left) BY <1>1, <3>1, FS_Subset DEF Finite
    <3>3. h = Absent \/ DOMAIN h = left OBVIOUS
    <3>4. HDelOp(e, fs) = [e EXCEPT !.hash = h] BY <2>3 DEF HDelOp
    <3> HIDE DEF h, left
    <3>5. Finite(HDelOp(e, fs)) BY <1>3, <3>2, <3>3, <3>4
    <3> QED BY <2>1, <3>5, HeldDef
  <2> QED BY <2>2, <2>3
<1> QED BY <1>4, <1>5
-----------------------------------------------------------------------------
\* An argument behind the first, where only the first is a key.
LEMMA WordAt ==
  ASSUME NEW r, Request(r), ~Rejected(r), r.name \notin {"DEL", "MGET", "RENAME", "MSET"},
         NEW i \in 2..Len(r.args)
  PROVE  r.args[i] \in Words /\ r.args[i] \in Values /\ r.args[i].n \in Int
<1>1. KeyAt(r) = {1} /\ i # 1 /\ i \in 1..Len(r.args) BY RequestKind, SMT DEF KeyAt
<1>2. r.args[i] \in Words BY <1>1, Arguments
<1> QED BY <1>2, StringKinds

\* The arguments behind the first, as a sequence and as a set.
LEMMA Behind ==
  ASSUME NEW r, Request(r), ~Rejected(r), r.name \notin {"DEL", "MGET", "RENAME", "MSET"},
         Len(r.args) >= 2
  PROVE  /\ Tail(r.args) \in Seq(Words) /\ Tail(r.args) # << >>
         /\ \A i \in 2..Len(r.args) : r.args[i] \in Words
         /\ {r.args[i] : i \in 2..Len(r.args)} \in SUBSET Words
         /\ {r.args[i] : i \in 2..Len(r.args)} # {}
         /\ IsFiniteSet({r.args[i] : i \in 2..Len(r.args)})
<1> DEFINE n == Len(r.args)
           S == {r.args[i] : i \in 2..n}
<1>1. r.args \in Seq(Keys \cup Words) /\ n \in Nat /\ n >= 2 BY RequestKind
<1>2. KeyAt(r) = {1} BY DEF KeyAt
<1>3. \A i \in 2..n : r.args[i] \in Words BY <1>1, <1>2, Arguments, SMT
<1>4. Tail(r.args) \in Seq(Words) /\ Tail(r.args) # << >>
  <2> DEFINE t == Tail(r.args)
  <2>1. r.args # << >> BY <1>1, SMT
  <2>2. t \in Seq(Keys \cup Words) /\ Len(t) = n - 1 /\ \A i \in 1..Len(t) : t[i] = r.args[i + 1]
    BY <1>1, <2>1, HeadTailProperties
  <2> HIDE DEF t
  <2>3. ASSUME NEW i \in 1..Len(t) PROVE t[i] \in Words
    <3>1. i + 1 \in 2..n BY <1>1, <2>2, SMT
    <3> QED BY <1>3, <2>2, <3>1
  <2>4. t = [i \in 1..Len(t) |-> t[i]] /\ Len(t) \in Nat BY <2>2, SMT
  <2>5. t \in [1..Len(t) -> Words] BY <2>3, <2>4
  <2>6. t \in Seq(Words) BY <2>4, <2>5, SMT
  <2>7. t # << >> BY <1>1, <2>2, SMT
  <2> QED BY <2>6, <2>7 DEF t
<1>5. S \in SUBSET Words /\ r.args[2] \in S BY <1>1, <1>3, SMT
<1>6. IsFiniteSet(S)
  <2> DEFINE f == [i \in 2..n |-> r.args[i]]
  <2>1. f \in Surjection(2..n, S) BY DEF Surjection
  <2>2. IsFiniteSet(2..n) BY <1>1, FS_Interval, SMT
  <2> HIDE DEF f, S
  <2> QED BY <2>1, <2>2, FS_Surjection
<1> QED BY <1>3, <1>4, <1>5, <1>6

\* Where the fields of HSET and HMSET and the keys of MSET are.
FieldAt(args, i) == {j \in i..Len(args) : (j - i) % 2 = 0}

LastOf(args, i, f, j) ==
  /\ j \in FieldAt(args, i) /\ args[j] = f
  /\ \A l \in FieldAt(args, i) : args[l] = f => l <= j

GivesLast(args, i) ==
  /\ DOMAIN Assigned(args, i) = {args[j] : j \in FieldAt(args, i)}
  /\ \A f \in DOMAIN Assigned(args, i) :
       \E j : LastOf(args, i, f, j) /\ Assigned(args, i)[f] = args[j + 1]

\* Every field that is named has a last value, and Assigned gives it that one.
LEMMA AssignedLast ==
  ASSUME NEW args, Len(args) \in Nat, NEW i \in Nat
  PROVE  GivesLast(args, i)
<1> DEFINE at == FieldAt(args, i)
           final(f) == CHOOSE j \in at : args[j] = f /\ \A l \in at : args[l] = f => l <= j
<1>1. Assigned(args, i) = [f \in {args[j] : j \in at} |-> args[final(f) + 1]]
  BY DEF Assigned, FieldAt
<1>2. ASSUME NEW f \in {args[j] : j \in at} PROVE LastOf(args, i, f, final(f))
  <2> DEFINE T == {j \in at : args[j] = f}
  <2>1. at \subseteq 0..Len(args) BY SMT DEF FieldAt
  <2>2. T \in SUBSET (0..Len(args)) /\ T # {} BY <1>2, <2>1
  <2>3. \E m \in T : \A k \in T : k <= m BY <2>2, Greatest
  <2>4. \E j \in at : args[j] = f /\ \A l \in at : args[l] = f => l <= j BY <2>3
  <2>5. final(f) \in at /\ args[final(f)] = f /\ \A l \in at : args[l] = f => l <= final(f)
    <3> HIDE DEF at
    <3> QED BY <2>4
  <2> QED BY <2>5 DEF LastOf
<1> HIDE DEF final
<1>3. DOMAIN Assigned(args, i) = {args[j] : j \in at} BY <1>1
<1>4. ASSUME NEW f \in DOMAIN Assigned(args, i)
      PROVE  \E j : LastOf(args, i, f, j) /\ Assigned(args, i)[f] = args[j + 1]
  <2>1. LastOf(args, i, f, final(f)) /\ Assigned(args, i)[f] = args[final(f) + 1]
    BY <1>1, <1>2, <1>3
  <2> QED BY <2>1
<1> QED BY <1>3, <1>4 DEF GivesLast

\* The fields that HSET and HMSET name, and the values they are given.
LEMMA AssignedKind ==
  ASSUME NEW r, Request(r), ~Rejected(r), r.name \in {"HSET", "HMSET"}
  PROVE  LET fv == Assigned(r.args, 2)
         IN /\ DOMAIN fv \in SUBSET Words /\ DOMAIN fv # {} /\ IsFiniteSet(DOMAIN fv)
            /\ fv \in [DOMAIN fv -> Words]
<1> DEFINE fv == Assigned(r.args, 2)
           n == Len(r.args)
           S == {r.args[i] : i \in 2..n}
<1>0. n \in Nat /\ n % 2 = 1 BY Arity
<1>1. n \in Nat /\ n >= 3 /\ 2 \in Nat BY Arity
<1>2. /\ DOMAIN fv = {r.args[j] : j \in FieldAt(r.args, 2)}
      /\ \A f \in DOMAIN fv :
           \E j : LastOf(r.args, 2, f, j) /\ fv[f] = r.args[j + 1]
  <2>1. GivesLast(r.args, 2) BY <1>1, AssignedLast
  <2> QED BY <2>1 DEF GivesLast
<1>3. FieldAt(r.args, 2) \subseteq 2..n /\ 2 \in FieldAt(r.args, 2)
  BY <1>1, SMT DEF FieldAt
<1>9. r.name \notin {"DEL", "MGET", "RENAME", "MSET"} /\ Len(r.args) >= 2 BY <1>1, SMT
<1>4. S \in SUBSET Words /\ IsFiniteSet(S) /\ \A i \in 2..n : r.args[i] \in Words
  BY <1>9, Behind
<1>5. DOMAIN fv \in SUBSET S /\ r.args[2] \in DOMAIN fv BY <1>2, <1>3
<1>6. IsFiniteSet(DOMAIN fv) BY <1>4, <1>5, FS_Subset
<1>7. ASSUME NEW f \in DOMAIN fv PROVE fv[f] \in Words
  <2>1. PICK j : LastOf(r.args, 2, f, j) /\ fv[f] = r.args[j + 1] BY <1>2
  <2>2. j \in 2..n /\ (j - 2) % 2 = 0 BY <2>1 DEF LastOf, FieldAt
  <2>3. j # n
    <3> SUFFICES ASSUME j = n PROVE FALSE OBVIOUS
    <3>1. (n - 2) % 2 = 0 BY <2>2
    <3> HIDE DEF n
    <3> QED BY <1>0, <3>1, SMT
  <2>4. j + 1 \in 2..n BY <1>1, <2>2, <2>3, SMT
  <2> QED BY <1>4, <2>1, <2>4
<1>8. fv = [f \in DOMAIN fv |-> fv[f]] BY SMTT(15) DEF Assigned
<1> HIDE DEF fv, S
<1> QED BY <1>4, <1>5, <1>6, <1>7, <1>8 DEF fv

\* Half of the number of the arguments that come in pairs.
LEMMA Halves == \A n \in Nat : /\ n \div 2 \in Nat
                               /\ n % 2 = 0 => 2 * (n \div 2) = n
                               /\ n % 2 = 1 => 1 + 2 * (n \div 2) = n
BY SMT

\* The number of calls of a command, and where its loop ends.
LEMMA CallsKind ==
  ASSUME NEW r, Request(r), ~Rejected(r)
  PROVE  /\ Calls(r) \in Nat \ {0}
         /\ r.name \in {"DEL", "MGET"} => Calls(r) = Len(r.args)
         /\ r.name = "MSET" => 2 * Calls(r) = Len(r.args)
         /\ r.name = "HSET" => 1 + 2 * Calls(r) = Len(r.args)
         /\ r.name \in {"INCRBY", "DECRBY"} => r.args[2].n \in Int
<1>1. Len(r.args) \in Nat \ {0} BY Arity
<1>2. CASE r.name \in {"DEL", "MGET"}
  <2>1. Calls(r) = Len(r.args) BY <1>2 DEF Calls
  <2> QED BY <1>1, <1>2, <2>1
<1>3. CASE r.name = "MSET"
  <2>1. Calls(r) = Len(r.args) \div 2 BY <1>3 DEF Calls
  <2>2. Len(r.args) >= 2 /\ Len(r.args) % 2 = 0 BY <1>3, Arity
  <2>3. Calls(r) \in Nat /\ 2 * Calls(r) = Len(r.args) BY <1>1, <2>1, <2>2, Halves
  <2>4. Calls(r) # 0 BY <1>1, <2>3, SMT
  <2> QED BY <1>3, <2>3, <2>4
<1>4. CASE r.name = "HSET"
  <2>1. Calls(r) = Len(r.args) \div 2 BY <1>4 DEF Calls
  <2>2. Len(r.args) >= 3 /\ Len(r.args) % 2 = 1 BY <1>4, Arity
  <2>3. Calls(r) \in Nat /\ 1 + 2 * Calls(r) = Len(r.args) BY <1>1, <2>1, <2>2, Halves
  <2>4. Len(r.args) >= 3 BY <2>2
  <2>5. Calls(r) # 0
    <3> SUFFICES ASSUME Calls(r) = 0 PROVE FALSE OBVIOUS
    <3>1. Len(r.args) = 1 BY <2>3, SMT
    <3> QED BY <1>1, <2>4, <3>1, SMT
  <2> QED BY <1>4, <2>3, <2>5
<1>5. CASE r.name \in {"INCRBY", "DECRBY"}
  <2>1. Calls(r) = IF r.args[2].n > 1 THEN r.args[2].n ELSE 1 BY <1>5 DEF Calls
  <2>2. Len(r.args) = 2 BY <1>5, Arity
  <2>3. r.args[2].n \in Int BY <1>5, <2>2, WordAt, SMT
  <2> QED BY <1>5, <2>1, <2>3, SMT
<1>6. CASE r.name \notin {"DEL", "MGET", "MSET", "HSET", "INCRBY", "DECRBY"}
  <2>1. Calls(r) \in {1, 2, 3, 7} BY <1>6 DEF Calls
  <2> QED BY <1>6, <2>1, SMT
<1> QED BY <1>2, <1>3, <1>4, <1>5, <1>6
-----------------------------------------------------------------------------
\* The kinds of replies differ.
LEMMA Replies ==
  /\ \A v : /\ Num(v) \notin {Err, Null} /\ Bulk(v) \notin {Err, Null}
            /\ Array(v) \notin {Err, Null} /\ [status |-> v] \notin {Err, Null}
            /\ Num(v).int = v /\ [status |-> v].status = v
  /\ \A v, w : Num(v) # [status |-> w] /\ Num(v) # Bulk(w) /\ Num(v) # Array(w)
  /\ OK \notin {Err, Null}
  /\ \A v : Num(v) # Null /\ Num(v) # Err
  /\ "int" \notin DOMAIN Err /\ \A v : "int" \notin DOMAIN [status |-> v]
BY DEF Num, Bulk, Array, Err, Null, OK

\* What a Get does to a slot and returns.
LEMMA GetFacts ==
  ASSUME NEW e, Held(e)
  PROVE  /\ Held(GetCall(e).slot) /\ GetCall(e).ret \in {"ok", "missing"}
         /\ GetCall(e).ret = "ok" =>
              /\ GetCall(e).slot = e /\ GetCall(e).val = e.str
              /\ e.str \in Values /\ ~ExpiredAt(e, now)
         /\ GetCall(e).ret = "missing" =>
              /\ GetCall(e).slot = e \/ ExpiredAt(e, now)
              /\ e.str = Absent \/ ExpiredAt(e, now)
<1>1. e.str \in {Absent} \cup Values BY DEF Held, Slot
<1>2. Held(GetEvict(e)) BY HeldString, StringKinds
<1> QED BY <1>1, <1>2 DEF GetCall, Outcome

\* What an Exists does to a slot and returns.
LEMMA ExistsFacts ==
  ASSUME NEW e, Held(e)
  PROVE  /\ Held(ExistsCall(e).slot) /\ ExistsCall(e).ret \in {"ok", "missing"}
         /\ ExistsCall(e).ret = "ok" => ExistsCall(e).slot = e /\ LiveAt(e, now)
         /\ ExistsCall(e).ret = "missing" =>
              /\ ExistsCall(e).slot = e \/ ExpiredAt(e, now)
              /\ ~Present(ExistsCall(e).slot)
<1>1. ~Present(EmptySlot) BY DEF Present, EmptySlot
<1> QED BY <1>1, HeldEmpty DEF ExistsCall, Outcome, Evict, LiveAt

\* A refused write leaves the slot.
LEMMA RefusalIs == \A e : \A o \in Refusal(e) : o.slot = e /\ o.ret = "refused"
BY SMT DEF Refusal, Outcome

\* What Set does to a slot, refused or not.
LEMMA SetFacts ==
  ASSUME NEW e, Held(e), NEW v \in Values, NEW o \in SetCall(e, v)
  PROVE  /\ Held(o.slot) /\ o.ret \in {"ok", "refused"}
         /\ o.ret = "ok" => o.slot = SetOp(e, v)
         /\ o.ret # "ok" => o.slot = e
<1>1. Held(SetOp(e, v)) BY HeldString, SMT
<1> QED BY <1>1, RefusalIs, SMT DEF SetCall, Outcome

\* What Del does to a slot.
LEMMA DelFacts ==
  ASSUME NEW e, Held(e), NEW o \in DelCall(e)
  PROVE  /\ Held(o.slot) /\ o.ret \in {"ok", "missing", "refused"}
         /\ o.ret = "ok" => Present(e) /\ o.slot = EmptySlot
         /\ o.ret # "ok" => o.slot = e
         /\ o.ret = "missing" => ~Present(e)
BY RefusalIs, HeldEmpty, SMT DEF DelCall, Outcome, DelOp

\* What Incr and Decr do to a slot.
LEMMA AddFacts ==
  ASSUME NEW e, Held(e), NEW d \in {1, -1}, NEW o \in AddCall(e, d)
  PROVE  /\ Held(o.slot) /\ o.ret \in {"ok", "notint", "refused"}
         /\ o.ret = "ok" => /\ ~(e.str # Absent /\ NotInt(e.str))
                            /\ o.slot = AddOp(e, d) /\ o.val = AddOp(e, d).str.n
         /\ o.ret = "notint" => e.str # Absent /\ NotInt(e.str)
         /\ o.ret # "ok" => o.slot = e
<1>1. Held(AddOp(e, d)) BY HeldAdd, SMT
<1> QED BY <1>1, RefusalIs, SMT DEF AddCall, Outcome

\* A reply that says that nothing was done.
Negative(r, reply) ==
  \/ reply \in {Err, Null}
  \/ /\ r.name \in {"DEL", "EXPIRE", "PERSIST", "SADD", "SREM", "HSET", "HDEL"}
     /\ reply = Num(0)

\* A call leaves a slot that may be held, and the same one if the reply is that
\* nothing was done, unless the key was past its deadline.
Fair(r, e, o) ==
  Held(o.slot) /\ (Negative(r, o.reply) => o.slot = e \/ ExpiredAt(e, now))

\* SET, GET, STRLEN, EXISTS, INCR and DECR.
LEMMA StringsFair ==
  ASSUME NEW r, Request(r), ~Rejected(r), NEW e, Held(e)
  PROVE  /\ r.name \in Strings => \A o \in StringCommand(r, e) : Fair(r, e, o)
         /\ r.name = "STRLEN" => \A o \in StrlenCommand(e) : Fair(r, e, o)
         /\ r.name \in Counts => \A o \in CountCommand(r, e) : Fair(r, e, o)
<1>1. ASSUME r.name = "SET", NEW o \in StringCommand(r, e) PROVE Fair(r, e, o)
  <2>1. Len(r.args) >= 2 BY <1>1, Arity
  <2>2. r.args[2] \in Values BY <1>1, <2>1, RequestKind, WordAt, SMT
  <2>3. PICK p \in SetCall(e, r.args[2]) : o = Says(p, OK) BY <1>1 DEF StringCommand
  <2>4. Held(p.slot) BY <2>2, <2>3, SetFacts
  <2> QED BY <1>1, <2>3, <2>4, Replies DEF Fair, Negative, Says
<1>2. ASSUME r.name = "GET", NEW o \in StringCommand(r, e) PROVE Fair(r, e, o)
  <2> DEFINE got == GetCall(e)
  <2>1. o = Says(got, IF got.ret = "ok" THEN Bulk(got.val) ELSE Null)
    BY <1>2 DEF StringCommand
  <2>2. /\ Held(got.slot) /\ got.ret \in {"ok", "missing"}
        /\ got.ret = "missing" => got.slot = e \/ ExpiredAt(e, now)
    BY GetFacts
  <2> HIDE DEF got
  <2> QED BY <1>2, <2>1, <2>2, Replies DEF Fair, Negative, Says
<1>3. ASSUME r.name = "STRLEN", NEW o \in StrlenCommand(e) PROVE Fair(r, e, o)
  <2> DEFINE got == GetCall(e)
  <2>1. o = Says(got, Num(IF got.ret = "ok" THEN Length(got.val) ELSE 0))
    BY <1>3 DEF StrlenCommand
  <2>2. Held(got.slot) BY GetFacts
  <2> HIDE DEF got
  <2> QED BY <1>3, <2>1, <2>2, Replies DEF Fair, Negative, Says
<1>4. ASSUME r.name = "EXISTS", NEW o \in CountCommand(r, e) PROVE Fair(r, e, o)
  <2> DEFINE got == ExistsCall(e)
  <2>1. o = Says(got, Num(IF got.ret = "ok" THEN 1 ELSE 0)) BY <1>4 DEF CountCommand
  <2>2. Held(got.slot) BY ExistsFacts
  <2> HIDE DEF got
  <2> QED BY <1>4, <2>1, <2>2, Replies DEF Fair, Negative, Says
<1>5. ASSUME r.name \in {"INCR", "DECR"}, NEW o \in CountCommand(r, e) PROVE Fair(r, e, o)
  <2>1. PICK d \in {1, -1} : \E p \in AddCall(e, d) :
          o = Says(p, IF p.ret = "ok" THEN Num(p.val) ELSE Err)
    BY <1>5 DEF CountCommand
  <2>2. PICK p \in AddCall(e, d) : o = Says(p, IF p.ret = "ok" THEN Num(p.val) ELSE Err)
    BY <2>1
  <2>3. Held(p.slot) /\ (p.ret # "ok" => p.slot = e) BY AddFacts, SMT
  <2> QED BY <1>5, <2>2, <2>3, Replies DEF Fair, Negative, Says
<1> QED BY <1>1, <1>2, <1>3, <1>4, <1>5 DEF Strings, Counts

\* EXPIRE, TTL and PERSIST.
LEMMA DeadlinesFair ==
  ASSUME NEW r, Request(r), ~Rejected(r), NEW e, Held(e), now \in Int
  PROVE  r.name \in Deadlines => \A o \in DeadlineCommand(r, e) : Fair(r, e, o)
<1>1. ASSUME r.name = "EXPIRE", NEW o \in DeadlineCommand(r, e) PROVE Fair(r, e, o)
  <2>1. Len(r.args) = 2 BY <1>1, Arity
  <2>2. r.args[2].n \in Int BY <1>1, <2>1, WordAt, SMT
  <2>3. now + r.args[2].n * Second \in Int BY <2>2, SMT DEF Second
  <2>4. o = Does(ExpireOp(e, now + r.args[2].n * Second), Num(IF Present(e) THEN 1 ELSE 0))
    BY <1>1 DEF DeadlineCommand
  <2>5. Held(ExpireOp(e, now + r.args[2].n * Second)) BY <2>3, HeldString, StringKinds
  <2>6. ~Present(e) => ExpireOp(e, now + r.args[2].n * Second) = e BY DEF ExpireOp
  <2>7. o.reply = Num(0) => ~Present(e) BY <2>4, Replies, SMTT(15) DEF Does
  <2> QED BY <2>4, <2>5, <2>6, <2>7, Replies DEF Fair, Negative, Does
<1>2. ASSUME r.name = "TTL", NEW o \in DeadlineCommand(r, e) PROVE Fair(r, e, o)
  BY <1>2, SMT DEF DeadlineCommand, Fair, Does
<1>3. ASSUME r.name = "PERSIST", NEW o \in DeadlineCommand(r, e) PROVE Fair(r, e, o)
  <2>1. o = Does(PersistOp(e), Num(IF Present(e) THEN 1 ELSE 0)) BY <1>3 DEF DeadlineCommand
  <2>2. Held(PersistOp(e)) BY HeldString, StringKinds
  <2>3. ~Present(e) => PersistOp(e) = e BY DEF PersistOp
  <2>4. o.reply = Num(0) => ~Present(e) BY <2>1, Replies, SMTT(15) DEF Does
  <2> QED BY <2>1, <2>2, <2>3, <2>4, Replies DEF Fair, Negative, Does
<1> QED BY <1>1, <1>2, <1>3 DEF Deadlines

\* The commands on lists.
LEMMA ListsFair ==
  ASSUME NEW r, Request(r), ~Rejected(r), NEW e, Held(e)
  PROVE  r.name \in Lists => \A o \in ListCommand(r, e) : Fair(r, e, o)
<1> DEFINE l == ListOf(e)
           vs == Tail(r.args)
<1>1. ASSUME r.name \in {"LPUSH", "RPUSH"}, NEW o \in ListCommand(r, e) PROVE Fair(r, e, o)
  <2>1. vs \in Seq(Words) /\ vs # << >> BY <1>1, Arity, Behind
  <2>2. Held(LPushOp(e, vs)) /\ Held(RPushOp(e, vs)) BY <2>1, HeldList
  <2>3. \/ o = Does(LPushOp(e, vs), Num(Len(l) + Len(vs)))
        \/ o = Does(RPushOp(e, vs), Num(Len(l) + Len(vs)))
    BY <1>1 DEF ListCommand
  <2> HIDE DEF l, vs
  <2> QED BY <1>1, <2>2, <2>3, Replies, SMTT(15) DEF Fair, Negative, Does
<1>2. ASSUME r.name = "LPOP", NEW o \in ListCommand(r, e) PROVE Fair(r, e, o)
  <2>1. o = Does(LPopOp(e), FirstOr(l, Null)) BY <1>2 DEF ListCommand
  <2>2. l # << >> => FirstOr(l, Null) = Bulk(l[1]) BY DEF FirstOr
  <2>3. l = << >> => LPopOp(e) = e BY DEF LPopOp
  <2>4. Held(LPopOp(e)) BY HeldList
  <2> HIDE DEF l
  <2> QED BY <1>2, <2>1, <2>2, <2>3, <2>4, Replies, SMT DEF Fair, Negative, Does
<1>3. ASSUME r.name = "RPOP", NEW o \in ListCommand(r, e) PROVE Fair(r, e, o)
  <2>1. o = Does(RPopOp(e), FirstOr(LIndex(l, -1), Null)) BY <1>3 DEF ListCommand
  <2>2. l # << >> => LIndex(l, -1) # << >>
    <3>1. l \in Seq(Words) BY SMT DEF Held, Slot, ListOf
    <3> HIDE DEF l
    <3>2. l # << >> => Len(l) \in Nat /\ Len(l) # 0 BY <3>1, EmptySeq
    <3> QED BY <3>2, SMT DEF LIndex, FromEnd
  <2>3. l # << >> => FirstOr(LIndex(l, -1), Null) = Bulk(LIndex(l, -1)[1])
    BY <2>2 DEF FirstOr
  <2>4. l = << >> => RPopOp(e) = e BY DEF RPopOp
  <2>5. Held(RPopOp(e)) BY HeldList
  <2> HIDE DEF l
  <2> QED BY <1>3, <2>1, <2>3, <2>4, <2>5, Replies, SMTT(15) DEF Fair, Negative, Does
<1>4. ASSUME r.name \in {"LLEN", "LRANGE", "LINDEX"}, NEW o \in ListCommand(r, e)
      PROVE  Fair(r, e, o)
  <2>1. o.slot = e BY <1>4, SMT DEF ListCommand, Does
  <2> QED BY <2>1 DEF Fair
<1> QED BY <1>1, <1>2, <1>3, <1>4 DEF Lists

\* The commands on sets.
LEMMA SetsFair ==
  ASSUME NEW r, Request(r), ~Rejected(r), NEW e, Held(e)
  PROVE  r.name \in Sets => \A o \in SetCommand(r, e) : Fair(r, e, o)
<1> DEFINE S == SetOf(e)
           ms == {r.args[i] : i \in 2..Len(r.args)}
<1>1. /\ IsFiniteSet(S) /\ (e.set # Absent => e.set = S /\ S # {})
      /\ e = [str |-> e.str, list |-> e.list, set |-> e.set, hash |-> e.hash, exp |-> e.exp]
  BY DEF Held, Slot, SetOf, NonEmpty
<1>2. r.name \in {"SADD", "SREM"} => ms \in SUBSET Words /\ ms # {} /\ IsFiniteSet(ms)
  BY Arity, Behind
<1>3. ASSUME r.name = "SADD", NEW o \in SetCommand(r, e) PROVE Fair(r, e, o)
  <2>1. o = Does(SAddOp(e, ms), Num(Cardinality(ms \ S))) BY <1>3 DEF SetCommand
  <2>2. ms \in SUBSET Words /\ ms # {} /\ IsFiniteSet(ms) BY <1>2, <1>3
  <2> HIDE DEF ms
  <2>3. Held(SAddOp(e, ms)) BY <2>2, HeldSet
  <2>4. IsFiniteSet(ms \ S) BY <2>2, FS_Subset
  <2>5. Cardinality(ms \ S) = 0 => ms \ S = {} BY <2>4, FS_EmptySet
  <2>6. ms \ S = {} => SAddOp(e, ms) = e
    <3> SUFFICES ASSUME ms \ S = {} PROVE SAddOp(e, ms) = e OBVIOUS
    <3>1. S \cup ms = S /\ S # {} BY <2>2
    <3>2. e.set = S BY <1>1, <3>1 DEF SetOf
    <3>3. SAddOp(e, ms) = [e EXCEPT !.set = S] BY <3>1 DEF SAddOp
    <3> HIDE DEF S
    <3> QED BY <1>1, <3>2, <3>3
  <2> HIDE DEF S
  <2>7. o.reply = Num(0) => o.slot = e BY <2>1, <2>5, <2>6, Replies, SMTT(15) DEF Does
  <2> QED BY <1>3, <2>1, <2>3, <2>7, Replies DEF Fair, Negative, Does
<1>4. ASSUME r.name = "SREM", NEW o \in SetCommand(r, e) PROVE Fair(r, e, o)
  <2>1. o = Does(SRemOp(e, ms), Num(Cardinality(ms \cap S))) BY <1>4 DEF SetCommand
  <2>2. ms \in SUBSET Words /\ ms # {} /\ IsFiniteSet(ms) BY <1>2, <1>4
  <2> HIDE DEF ms
  <2>3. Held(SRemOp(e, ms)) BY <2>2, HeldSet
  <2>4. IsFiniteSet(ms \cap S) BY <2>2, FS_Subset
  <2>5. Cardinality(ms \cap S) = 0 => ms \cap S = {} BY <2>4, FS_EmptySet
  <2>6. ms \cap S = {} => SRemOp(e, ms) = e
    <3> SUFFICES ASSUME ms \cap S = {}, e.set # Absent PROVE SRemOp(e, ms) = e
      BY DEF SRemOp
    <3>1. e.set = S /\ S # {} BY <1>1
    <3> HIDE DEF S
    <3>2. e.set \ ms = e.set BY <3>1
    <3>3. SRemOp(e, ms) = [e EXCEPT !.set = e.set] BY <3>1, <3>2 DEF SRemOp, StoreSet
    <3> QED BY <1>1, <3>3
  <2> HIDE DEF S
  <2>7. o.reply = Num(0) => o.slot = e BY <2>1, <2>5, <2>6, Replies, SMTT(15) DEF Does
  <2> QED BY <1>4, <2>1, <2>3, <2>7, Replies DEF Fair, Negative, Does
<1>5. ASSUME r.name = "SPOP", NEW o \in SetCommand(r, e) PROVE Fair(r, e, o)
  <2>1. CASE S = {}
    <3>1. o.slot = e BY <1>5, <2>1, SMT DEF SetCommand, Does
    <3> QED BY <3>1 DEF Fair
  <2>2. CASE S # {}
    <3>1. PICK m \in S : o = Does(SPopOp(e, m), Bulk(m)) BY <1>5, <2>2 DEF SetCommand
    <3>2. Held(SPopOp(e, m)) BY HeldSet
    <3> HIDE DEF S
    <3> QED BY <1>5, <3>1, <3>2, Replies DEF Fair, Negative, Does
  <2> QED BY <2>1, <2>2
<1>6. ASSUME r.name \in {"SMEMBERS", "SISMEMBER", "SCARD", "SRANDMEMBER"},
             NEW o \in SetCommand(r, e)
      PROVE  Fair(r, e, o)
  <2>1. o.slot = e BY <1>6, SMT DEF SetCommand, Does
  <2> QED BY <2>1 DEF Fair
<1> QED BY <1>3, <1>4, <1>5, <1>6 DEF Sets

\* The commands on hashes.
LEMMA FieldsFair ==
  ASSUME NEW r, Request(r), ~Rejected(r), NEW e, Held(e)
  PROVE  r.name \in Fields => \A o \in HashCommand(r, e) : Fair(r, e, o)
<1> DEFINE h == HashOf(e)
           fs == {r.args[i] : i \in 2..Len(r.args)}
<1>1. /\ IsFiniteSet(DOMAIN h) /\ (e.hash # Absent => e.hash = h /\ DOMAIN h # {})
      /\ e = [str |-> e.str, list |-> e.list, set |-> e.set, hash |-> e.hash, exp |-> e.exp]
  BY DEF Held, Slot, HashOf, NonEmpty
<1>2. ASSUME r.name = "HDEL", NEW o \in HashCommand(r, e) PROVE Fair(r, e, o)
  <2>1. o = Does(HDelOp(e, fs), Num(Cardinality(fs \cap DOMAIN h))) BY <1>2 DEF HashCommand
  <2> HIDE DEF fs
  <2>2. Held(HDelOp(e, fs)) BY HeldHash
  <2>3. IsFiniteSet(fs \cap DOMAIN h) BY <1>1, FS_Subset
  <2>4. Cardinality(fs \cap DOMAIN h) = 0 => fs \cap DOMAIN h = {} BY <2>3, FS_EmptySet
  <2>5. fs \cap DOMAIN h = {} => HDelOp(e, fs) = e
    <3> SUFFICES ASSUME fs \cap DOMAIN h = {}, e.hash # Absent PROVE HDelOp(e, fs) = e
      BY DEF HDelOp
    <3>1. e.hash = h /\ DOMAIN h # {} BY <1>1
    <3>2. e.hash = [f \in DOMAIN e.hash |-> e.hash[f]]
      <4>1. PICK gs \in SUBSET Words : e.hash \in [gs -> Words] BY DEF Held, Slot, Hashes
      <4> QED BY <4>1
    <3> HIDE DEF h
    <3>3. DOMAIN e.hash \ fs = DOMAIN e.hash BY <3>1
    <3>4. HDelOp(e, fs) = [e EXCEPT !.hash = e.hash] BY <3>1, <3>2, <3>3 DEF HDelOp
    <3> QED BY <1>1, <3>4
  <2> HIDE DEF h
  <2>6. o.reply = Num(0) => o.slot = e BY <2>1, <2>4, <2>5, Replies, SMTT(15) DEF Does
  <2> QED BY <1>2, <2>1, <2>2, <2>6, Replies DEF Fair, Negative, Does
<1>3. ASSUME r.name = "HMSET", NEW o \in HashCommand(r, e) PROVE Fair(r, e, o)
  <2> DEFINE fv == Assigned(r.args, 2)
  <2>1. o = Does(HMSetOp(e, fv), OK) BY <1>3 DEF HashCommand
  <2>2. Held(HMSetOp(e, fv)) BY <1>3, AssignedKind, HeldHash
  <2> HIDE DEF fv
  <2> QED BY <1>3, <2>1, <2>2, Replies DEF Fair, Negative, Does
<1>4. ASSUME r.name \in Fields \ {"HDEL", "HMSET"}, NEW o \in HashCommand(r, e)
      PROVE  Fair(r, e, o)
  <2>1. o.slot = e BY <1>4, SMT DEF HashCommand, Does, Fields
  <2> QED BY <2>1 DEF Fair
<1> QED BY <1>2, <1>3, <1>4 DEF Fields

\* Every command of one call leaves a slot that may be held and answers fairly.
LEMMA SingleFair ==
  ASSUME NEW r, Request(r), ~Rejected(r), NEW e, Held(e), r.name \in Singles, now \in Int,
         NEW o \in OneCall(r, e)
  PROVE  Fair(r, e, o)
<1>1. CASE r.name \in Strings
  <2>1. o \in StringCommand(r, e)
    BY <1>1 DEF OneCall, Strings, Counts, Deadlines, Lists, Sets, Fields
  <2> QED BY <1>1, <2>1, StringsFair
<1>2. CASE r.name \in Counts
  <2>1. o \in CountCommand(r, e)
    BY <1>2 DEF OneCall, Strings, Counts, Deadlines, Lists, Sets, Fields
  <2> QED BY <1>2, <2>1, StringsFair
<1>3. CASE r.name \in Deadlines
  <2>1. o \in DeadlineCommand(r, e)
    BY <1>3 DEF OneCall, Strings, Counts, Deadlines, Lists, Sets, Fields
  <2> QED BY <1>3, <2>1, DeadlinesFair
<1>4. CASE r.name = "STRLEN"
  <2>1. o \in StrlenCommand(e)
    BY <1>4 DEF OneCall, Strings, Counts, Deadlines, Lists, Sets, Fields
  <2> QED BY <1>4, <2>1, StringsFair
<1>5. CASE r.name \in Lists
  <2>1. o \in ListCommand(r, e)
    BY <1>5 DEF OneCall, Strings, Counts, Deadlines, Lists, Sets, Fields
  <2> QED BY <1>5, <2>1, ListsFair
<1>6. CASE r.name \in Sets
  <2>1. o \in SetCommand(r, e)
    BY <1>6 DEF OneCall, Strings, Counts, Deadlines, Lists, Sets, Fields
  <2> QED BY <1>6, <2>1, SetsFair
<1>7. CASE r.name \in Fields
  <2>1. o \in HashCommand(r, e)
    BY <1>7 DEF OneCall, Strings, Counts, Deadlines, Lists, Sets, Fields
  <2> QED BY <1>7, <2>1, FieldsFair
<1> QED BY <1>1, <1>2, <1>3, <1>4, <1>5, <1>6, <1>7 DEF Singles
-----------------------------------------------------------------------------
RunOK(cl) ==
  /\ cl \in [at : {"running"}, req : Req, i : Nat, count : Nat, got : Values,
             found : Seq(Values)]
  /\ Request(cl.req) /\ ~Rejected(cl.req)
  /\ cl.i \in 1..Calls(cl.req) /\ cl.count < cl.i

\* The command goes on with its next call.
LEMMA GoesOn ==
  ASSUME NEW cl, RunOK(cl), NEW x, NEW n \in Nat, n <= cl.i, NEW v \in Values,
         NEW f \in Seq(Values), cl.i + 1 <= Calls(cl.req),
         x = [at |-> "running", req |-> cl.req, i |-> cl.i + 1, count |-> n, got |-> v,
              found |-> f]
  PROVE  RunOK(x) /\ x.req = cl.req /\ x.i = cl.i + 1 /\ x.count = n /\ x.got = v /\ x.found = f
<1>1. /\ x.at = "running" /\ x.req = cl.req /\ x.i = cl.i + 1 /\ x.count = n /\ x.got = v
      /\ x.found = f
  OBVIOUS
<1>2. cl.i \in Nat /\ cl.req \in Req /\ Request(cl.req) /\ ~Rejected(cl.req) BY DEF RunOK
<1>3. x \in [at : {"running"}, req : Req, i : Nat, count : Nat, got : Values,
             found : Seq(Values)]
  BY <1>2, SMTT(15)
<1>4. x.i \in 1..Calls(x.req) /\ x.count < x.i
  <2>1. Calls(cl.req) \in Int BY <1>2, CallsKind, SMTT(15)
  <2> QED BY <1>1, <1>2, <2>1, SMT
<1> QED BY <1>1, <1>2, <1>3, <1>4 DEF RunOK

\* No command is of one call and of several.
LEMMA Apart == \A n \in Singles : n \notin Composites
<1> TAKE n \in Singles
<1>1. CASE n \in Strings \cup Counts \cup Deadlines \cup {"STRLEN"}
  BY <1>1 DEF Strings, Counts, Deadlines, Composites
<1>2. CASE n \in Lists BY <1>2 DEF Lists, Composites
<1>3. CASE n \in Sets BY <1>3 DEF Sets, Composites
<1>4. CASE n \in Fields BY <1>4 DEF Fields, Composites
<1> QED BY <1>1, <1>2, <1>3, <1>4 DEF Singles

\* The handler at its next call, with what its variables hold then.
NextCall(cl, n, v, f) ==
  [at |-> "running", req |-> cl.req, i |-> cl.i + 1, count |-> n, got |-> v, found |-> f]

\* GoOn changes the number of the call, and one of the handler's variables.
LEMMA GoOnIs ==
  ASSUME NEW cl, RunOK(cl)
  PROVE  /\ [cl EXCEPT !.i = @ + 1] = NextCall(cl, cl.count, cl.got, cl.found)
         /\ \A n : [[cl EXCEPT !.count = n] EXCEPT !.i = @ + 1] =
                     NextCall(cl, n, cl.got, cl.found)
         /\ \A v : [[cl EXCEPT !.got = v] EXCEPT !.i = @ + 1] =
                     NextCall(cl, cl.count, v, cl.found)
         /\ \A f : [[cl EXCEPT !.found = f] EXCEPT !.i = @ + 1] =
                     NextCall(cl, cl.count, cl.got, f)
<1>1. cl \in [at : {"running"}, req : {cl.req}, i : {cl.i}, count : {cl.count}, got : {cl.got},
              found : {cl.found}]
  BY DEF RunOK
<1>2. [cl EXCEPT !.i = @ + 1] = NextCall(cl, cl.count, cl.got, cl.found)
  <2> DEFINE x == [cl EXCEPT !.i = @ + 1]
  <2>1. x \in [at : {"running"}, req : {cl.req}, i : {cl.i + 1}, count : {cl.count},
               got : {cl.got}, found : {cl.found}]
    BY <1>1
  <2> HIDE DEF x
  <2>2. x = NextCall(cl, cl.count, cl.got, cl.found) BY <2>1 DEF NextCall
  <2> QED BY <2>2 DEF x
<1>3. ASSUME NEW n
      PROVE  [[cl EXCEPT !.count = n] EXCEPT !.i = @ + 1] = NextCall(cl, n, cl.got, cl.found)
  <2> DEFINE x == [[cl EXCEPT !.count = n] EXCEPT !.i = @ + 1]
  <2>1. x \in [at : {"running"}, req : {cl.req}, i : {cl.i + 1}, count : {n},
               got : {cl.got}, found : {cl.found}]
    BY <1>1
  <2> HIDE DEF x
  <2>2. x = NextCall(cl, n, cl.got, cl.found) BY <2>1 DEF NextCall
  <2> QED BY <2>2 DEF x
<1>4. ASSUME NEW v
      PROVE  [[cl EXCEPT !.got = v] EXCEPT !.i = @ + 1] = NextCall(cl, cl.count, v, cl.found)
  <2> DEFINE x == [[cl EXCEPT !.got = v] EXCEPT !.i = @ + 1]
  <2>1. x \in [at : {"running"}, req : {cl.req}, i : {cl.i + 1}, count : {cl.count},
               got : {v}, found : {cl.found}]
    BY <1>1
  <2> HIDE DEF x
  <2>2. x = NextCall(cl, cl.count, v, cl.found) BY <2>1 DEF NextCall
  <2> QED BY <2>2 DEF x
<1>5. ASSUME NEW f
      PROVE  [[cl EXCEPT !.found = f] EXCEPT !.i = @ + 1] = NextCall(cl, cl.count, cl.got, f)
  <2> DEFINE x == [[cl EXCEPT !.found = f] EXCEPT !.i = @ + 1]
  <2>1. x \in [at : {"running"}, req : {cl.req}, i : {cl.i + 1}, count : {cl.count},
               got : {cl.got}, found : {f}]
    BY <1>1
  <2> HIDE DEF x
  <2>2. x = NextCall(cl, cl.count, cl.got, f) BY <2>1 DEF NextCall
  <2> QED BY <2>2 DEF x
<1> QED BY <1>2, <1>3, <1>4, <1>5

\* The record of a command that goes on.
LEMMA NextIs ==
  ASSUME NEW cl, NEW n, NEW v, NEW f
  PROVE  LET x == NextCall(cl, n, v, f)
         IN x.req = cl.req /\ x.i = cl.i + 1 /\ x.count = n /\ x.got = v /\ x.found = f
BY DEF NextCall

\* Odd and even positions.
LEMMA Odds == \A i \in Nat : (2 * i) % 2 = 0 /\ (2 * i + 1) % 2 = 1 /\ (2 * i - 1) % 2 = 1
BY SMT

\* The pairs of MSET are keys and values, those of HSET fields and values.
LEMMA PairsAre ==
  ASSUME NEW p, RunOK(p)
  PROVE  /\ p.req.name = "MSET" =>
              /\ 2 * p.i - 1 \in KeyAt(p.req) /\ Pair(p, 0)[1] = p.req.args[2 * p.i - 1]
              /\ Pair(p, 0)[1] \in KeysOf(p.req) /\ Pair(p, 0)[1] \in Keys
              /\ 2 * p.i \in 1..Len(p.req.args) /\ Pair(p, 0)[2] = p.req.args[2 * p.i]
              /\ Pair(p, 0)[2] \in Words /\ (LastPair(p, 0) <=> p.i = Calls(p.req))
         /\ p.req.name = "HSET" =>
              /\ 2 * p.i \in 2..Len(p.req.args) /\ 2 * p.i + 1 \in 2..Len(p.req.args)
              /\ Pair(p, 1)[1] = p.req.args[2 * p.i] /\ Pair(p, 1)[2] = p.req.args[2 * p.i + 1]
              /\ Pair(p, 1)[1] \in Words
              /\ Pair(p, 1)[2] \in Words /\ (LastPair(p, 1) <=> p.i = Calls(p.req))
<1> DEFINE r == p.req
           i == p.i
           n == Len(r.args)
<1>1. Request(r) /\ ~Rejected(r) /\ i \in 1..Calls(r) /\ i \in Nat BY DEF RunOK
<1>2. Calls(r) \in Nat /\ n \in Nat BY <1>1, CallsKind, RequestKind
<1>3. ASSUME r.name = "MSET"
      PROVE  /\ 2 * i - 1 \in KeyAt(r) /\ Pair(p, 0)[1] = r.args[2 * i - 1]
             /\ Pair(p, 0)[1] \in KeysOf(r) /\ Pair(p, 0)[1] \in Keys
             /\ 2 * i \in 1..n /\ Pair(p, 0)[2] = r.args[2 * i]
             /\ Pair(p, 0)[2] \in Words /\ (LastPair(p, 0) <=> i = Calls(r))
  <2>1. 2 * Calls(r) = n BY <1>1, <1>3, CallsKind
  <2>2. 2 * i - 1 \in 1..n /\ 2 * i \in 1..n /\ (2 * i = n <=> i = Calls(r))
    BY <1>1, <1>2, <2>1, SMTT(15)
  <2>3. 0 + 2 * i - 1 = 2 * i - 1 /\ 0 + 2 * i = 2 * i BY <1>1, SMT
  <2>4. Pair(p, 0)[1] = r.args[2 * i - 1] /\ Pair(p, 0)[2] = r.args[2 * i]
    BY <2>3 DEF Pair
  <2>5. (2 * i) % 2 = 0 /\ (2 * i - 1) % 2 = 1 BY <1>1, Odds
  <2>6. KeyAt(r) = {j \in 1..n : j % 2 = 1} BY <1>3 DEF KeyAt
  <2> HIDE DEF r, i, n
  <2>7. 2 * i - 1 \in KeyAt(r) /\ 2 * i \notin KeyAt(r) BY <2>2, <2>5, <2>6, SMT
  <2>8. r.args[2 * i - 1] \in KeysOf(r) /\ KeysOf(r) \subseteq Keys
    BY <1>1, <2>7, Arguments DEF KeysOf
  <2>9. r.args[2 * i] \in Words BY <1>1, <2>2, <2>7, Arguments DEF n
  <2>10. LastPair(p, 0) <=> i = Calls(r) BY <2>2, <2>3 DEF LastPair, i, r, n
  <2> QED BY <2>2, <2>4, <2>7, <2>8, <2>9, <2>10
<1>4. ASSUME r.name = "HSET"
      PROVE  /\ 2 * i \in 2..n /\ 2 * i + 1 \in 2..n
             /\ Pair(p, 1)[1] = r.args[2 * i] /\ Pair(p, 1)[2] = r.args[2 * i + 1]
             /\ Pair(p, 1)[1] \in Words
             /\ Pair(p, 1)[2] \in Words /\ (LastPair(p, 1) <=> i = Calls(r))
  <2>1. 1 + 2 * Calls(r) = n BY <1>1, <1>4, CallsKind
  <2>2. 2 * i \in 2..n /\ 2 * i + 1 \in 2..n /\ (2 * i + 1 = n <=> i = Calls(r))
    BY <1>1, <1>2, <2>1, SMTT(15)
  <2>3. 1 + 2 * i - 1 = 2 * i /\ 1 + 2 * i = 2 * i + 1 BY <1>1, SMT
  <2>4. Pair(p, 1)[1] = r.args[2 * i] /\ Pair(p, 1)[2] = r.args[2 * i + 1] BY <2>3 DEF Pair
  <2>5. LastPair(p, 1) <=> i = Calls(r) BY <2>2, <2>3 DEF LastPair
  <2>6. r.args[2 * i] \in Words /\ r.args[2 * i + 1] \in Words
    <3>1. r.name \notin {"DEL", "MGET", "RENAME", "MSET"} BY <1>4
    <3> HIDE DEF r, i, n
    <3> QED BY <1>1, <2>2, <3>1, WordAt DEF n
  <2> QED BY <2>2, <2>4, <2>5, <2>6
<1> QED BY <1>3, <1>4

\* The hash of a key, which a missing one has too.
LEMMA HashKind ==
  ASSUME NEW e, Held(e)
  PROVE  HashOf(e) \in Hashes(Words)
<1>1. e.hash \in {Absent} \cup Hashes(Words) BY DEF Held, Slot
<1>2. [f \in {} |-> Absent] \in [{} -> Words] OBVIOUS
<1>3. [f \in {} |-> Absent] \in Hashes(Words) BY <1>2 DEF Hashes
<1> QED BY <1>1, <1>3 DEF HashOf

\* One field more, or the same fields.
LEMMA HSetGrows ==
  ASSUME NEW e, Held(e), NEW f \in Words, NEW v \in Words
  PROVE  /\ Held(HSetOp(e, f, v))
         /\ DOMAIN HashOf(HSetOp(e, f, v)) = DOMAIN HashOf(e) \cup {f}
         /\ Cardinality(DOMAIN HashOf(HSetOp(e, f, v))) - Cardinality(DOMAIN HashOf(e))
              = IF f \in DOMAIN HashOf(e) THEN 0 ELSE 1
<1> DEFINE fv == [g \in {f} |-> v]
           D == DOMAIN HashOf(e)
           h == [g \in D \cup DOMAIN fv |-> IF g \in DOMAIN fv THEN fv[g] ELSE HashOf(e)[g]]
<1>1. IsFiniteSet(D) /\ e \in Slot(Values, Words) /\ IsFiniteSet({f}) /\ HashOf(e) \in Hashes(Words)
  BY FS_Singleton, HashKind DEF Held
<1>2. fv \in [{f} -> Words] /\ {f} \in SUBSET Words /\ {f} # {} OBVIOUS
<1>3. HSetOp(e, f, v) = HMSetOp(e, fv) BY DEF HSetOp
<1>4. Held(HSetOp(e, f, v)) BY <1>1, <1>2, <1>3, HeldHash
<1>5. HSetOp(e, f, v) = [e EXCEPT !.hash = h] BY <1>3 DEF HMSetOp
<1>6. DOMAIN h = D \cup {f} OBVIOUS
<1> HIDE DEF h
<1>7. HSetOp(e, f, v).hash = h BY <1>1, <1>5 DEF Slot
<1>8. h # Absent
  <2>1. PICK gs \in SUBSET Words : HashOf(e) \in [gs -> Words] BY <1>1 DEF Hashes
  <2>2. D = gs /\ D \cup {f} \in SUBSET Words BY <2>1
  <2>3. h \in [D \cup {f} -> Words] BY <2>1, <2>2 DEF h
  <2>4. h \in Hashes(Words) BY <2>2, <2>3 DEF Hashes
  <2> QED BY <2>4, CommandsInputs
<1>9. DOMAIN HashOf(HSetOp(e, f, v)) = D \cup {f} BY <1>6, <1>7, <1>8 DEF HashOf
<1>10. Cardinality(D \cup {f}) = IF f \in D THEN Cardinality(D) ELSE Cardinality(D) + 1
  BY <1>1, FS_AddElement
<1>11. Cardinality(D) \in Nat BY <1>1, FS_CardinalityType
<1> HIDE DEF D
<1> QED BY <1>4, <1>9, <1>10, <1>11, SMT DEF D
-----------------------------------------------------------------------------
\* The call that set key or field f last, of those before call i.
LastCallOn(args, skip, i, f, j) ==
  /\ j \in 1..i - 1 /\ args[skip + 2 * j - 1] = f
  /\ \A l \in 1..i - 1 : args[skip + 2 * l - 1] = f => l <= j

Touched(args, skip, i) == {args[skip + 2 * j - 1] : j \in 1..i - 1}

\* With call i the name f joins the ones touched, and call i is the last on it.
Grown(args, skip, i, f) ==
  /\ Touched(args, skip, i + 1) = Touched(args, skip, i) \cup {f}
  /\ IsFiniteSet(Touched(args, skip, i))
  /\ \A j : LastCallOn(args, skip, i + 1, f, j) => j = i
  /\ \A g, j : g # f /\ LastCallOn(args, skip, i + 1, g, j) => LastCallOn(args, skip, i, g, j)

\* One pair more has been handled after a call.
LEMMA TouchedGrows ==
  ASSUME NEW args, NEW skip, NEW i \in Nat \ {0}, NEW f, f = args[skip + 2 * i - 1]
  PROVE  Grown(args, skip, i, f)
<1>1. 1..(i + 1) - 1 = (1..i - 1) \cup {i} /\ \A j \in 1..i - 1 : j <= i BY SMT
<1>2. Touched(args, skip, i + 1) = Touched(args, skip, i) \cup {f} BY <1>1 DEF Touched
<1>3. IsFiniteSet(Touched(args, skip, i))
  <2>1. IsFiniteSet(1..i - 1) BY FS_Interval, SMT
  <2> DEFINE g == [j \in 1..i - 1 |-> args[skip + 2 * j - 1]]
  <2>2. g \in Surjection(1..i - 1, Touched(args, skip, i)) BY DEF Surjection, Touched
  <2> HIDE DEF g
  <2> QED BY <2>1, <2>2, FS_Surjection
<1>4. ASSUME NEW j, LastCallOn(args, skip, i + 1, f, j) PROVE j = i
  <2>1. j \in (1..i - 1) \cup {i} /\ i <= j BY <1>1, <1>4 DEF LastCallOn
  <2> QED BY <2>1, SMT
<1>5. ASSUME NEW g, NEW j, g # f, LastCallOn(args, skip, i + 1, g, j)
      PROVE  LastCallOn(args, skip, i, g, j)
  <2>1. j # i BY <1>5 DEF LastCallOn
  <2> QED BY <1>1, <1>5, <2>1 DEF LastCallOn
<1> QED BY <1>2, <1>3, <1>4, <1>5 DEF Grown

\* Every key or field that m pairs name has the last value they give it.
Settled(args, skip, m) ==
  /\ DOMAIN Assigned(args, skip + 1) = Touched(args, skip, m + 1)
  /\ \A f \in Touched(args, skip, m + 1) :
       \E j \in 1..m : /\ LastCallOn(args, skip, m + 1, f, j)
                     /\ Assigned(args, skip + 1)[f] = args[skip + 2 * j]

\* After the last pair, every key or field has the last value it is given.
LEMMA Finals ==
  ASSUME NEW args, NEW skip \in {0, 1}, NEW m \in Nat, Len(args) = skip + 2 * m
  PROVE  Settled(args, skip, m)
<1> DEFINE at == FieldAt(args, skip + 1)
           P(j) == skip + 2 * j - 1
<1>1. ASSUME NEW j \in 1..m PROVE P(j) \in at
  <2>1. P(j) \in skip + 1..Len(args) BY SMT
  <2>2. P(j) - (skip + 1) = 2 * (j - 1) /\ j - 1 \in Nat BY SMTT(15)
  <2>3. (P(j) - (skip + 1)) % 2 = 0 BY <2>2, Odds
  <2> QED BY <2>1, <2>3 DEF FieldAt
<1>2. ASSUME NEW q \in at PROVE \E j \in 1..m : q = P(j)
  <2>1. q \in skip + 1..Len(args) /\ (q - (skip + 1)) % 2 = 0 BY DEF FieldAt
  <2> DEFINE h == (q - (skip + 1)) \div 2
  <2>2. q - (skip + 1) \in Nat BY <2>1, SMT
  <2>3. h \in Nat /\ 2 * h = q - (skip + 1) BY <2>1, <2>2, Halves
  <2> HIDE DEF h
  <2>4. h + 1 \in 1..m /\ q = P(h + 1) BY <2>1, <2>3, SMT
  <2> QED BY <2>4
<1>3. 1..(m + 1) - 1 = 1..m BY SMT
<1>4. {args[q] : q \in at} = Touched(args, skip, m + 1)
  <2>1. Touched(args, skip, m + 1) = {args[P(j)] : j \in 1..m} BY <1>3 DEF Touched
  <2> HIDE DEF at, P
  <2> QED BY <1>1, <1>2, <2>1
<1>5. GivesLast(args, skip + 1) BY AssignedLast, SMT
<1>6. DOMAIN Assigned(args, skip + 1) = Touched(args, skip, m + 1) BY <1>4, <1>5 DEF GivesLast
<1>7. ASSUME NEW f \in Touched(args, skip, m + 1)
      PROVE  \E j \in 1..m : /\ LastCallOn(args, skip, m + 1, f, j)
                            /\ Assigned(args, skip + 1)[f] = args[skip + 2 * j]
  <2>1. PICK q : LastOf(args, skip + 1, f, q) /\ Assigned(args, skip + 1)[f] = args[q + 1]
    BY <1>5, <1>6 DEF GivesLast
  <2>2. q \in at /\ args[q] = f /\ \A l \in at : args[l] = f => l <= q BY <2>1 DEF LastOf
  <2>3. PICK j \in 1..m : q = P(j) BY <1>2, <2>2
  <2>4. q + 1 = skip + 2 * j BY <2>3, SMT
  <2>5. ASSUME NEW l \in 1..m, args[P(l)] = f PROVE l <= j
    <3>1. P(l) <= P(j) BY <1>1, <2>2, <2>3, <2>5
    <3> QED BY <3>1, SMT
  <2>6. LastCallOn(args, skip, m + 1, f, j) BY <1>3, <2>2, <2>3, <2>5 DEF LastCallOn
  <2> QED BY <2>1, <2>4, <2>6
<1> QED BY <1>6, <1>7 DEF Settled

\* A Set makes the same of slots that differ in the string and the deadline.
LEMMA SetSame ==
  ASSUME NEW e \in Slot(Values, Words), NEW f \in Slot(Values, Words), NEW v,
         e.list = f.list, e.set = f.set, e.hash = f.hash
  PROVE  /\ SetOp(e, v) = SetOp(f, v)
         /\ SetOp(e, v).list = e.list /\ SetOp(e, v).set = e.set /\ SetOp(e, v).hash = e.hash
<1> DEFINE One == [str : {v}, list : {f.list}, set : {f.set}, hash : {f.hash}, exp : {Never}]
<1>1. SetOp(e, v) \in One BY DEF SetOp, Slot
<1>2. SetOp(f, v) \in One BY DEF SetOp, Slot
<1>3. \A x, y \in One : x = y BY SMT
<1> QED BY <1>1, <1>2, <1>3
=============================================================================
