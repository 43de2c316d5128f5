------------------------------- MODULE Store --------------------------------
(***************************************************************************)
(* core/store/store.go: a map from keys to slots, split into shards with a *)
(* lock each.  What runs between Lock and Unlock (or RLock and RUnlock) is *)
(* one step; operations that take several locks, or one lock twice, take   *)
(* several steps: Get and Exists on an expired key, Keys, Size and         *)
(* FlushAll over the shards, and the sweeper activeExpiry.                 *)
(***************************************************************************)
EXTENDS StoreOps, FiniteSets

CONSTANTS
  Keys,
  NumShards, ShardOf,     \* ShardOf is getShard's hash
  Clients,                \* callers inside an operation of several steps
  Ops, Passes,            \* the operations used on each key and on all keys
  Strings,                \* values for Set
  Elements,               \* list elements, set members, hash fields and values
  TTLs,                   \* arguments of Expire, zero and negative ones included
  MaxLen,                 \* bound: length of a list
  MaxTime                 \* bound: ticks of the clock

ASSUME StoreConstants ==
  /\ IsFiniteSet(Keys)
  /\ NumShards \in Nat \ {0} /\ ShardOf \in [Keys -> 1..NumShards]
  /\ Strings \subseteq Strs /\ TTLs \subseteq Int
  /\ MaxLen \in Nat /\ MaxTime \in Nat

VARIABLES
  db,       \* the slot of each key
  now,      \* time.Now()
  sweep,    \* the shard that activeExpiry locks next
  call,     \* what each caller has in hand between two locks
  last,     \* what the step showed, if it was a read's answer
  steady    \* the keys left alone since a caller's pass over the shards began

vars == <<db, now, sweep, call, last, steady>>

Idle == [op |-> "idle"]
InShard(s) == {k \in Keys : ShardOf[k] = s}

Expired(k) == ExpiredAt(db[k], now)
Live(k) == LiveAt(db[k], now)

Init ==
  /\ db = [k \in Keys |-> EmptySlot]
  /\ now = 0
  /\ sweep = 1
  /\ call = [c \in Clients |-> Idle]
  /\ last = [op |-> "none", shown |-> "missing"]
  /\ steady = [c \in Clients |-> {}]

\* A read answers with what it found: nothing, or a key that was live or
\* expired when it was looked up.
State(k) == IF Live(k) THEN "live" ELSE "expired"
Answer(op, shown) == last' = [op |-> op, shown |-> shown]
Silent == Answer("none", "missing")
-----------------------------------------------------------------------------
(***************************************************************************)
(* Operations under one lock.                                              *)
(***************************************************************************)
Update(k, slot) ==
  /\ db' = [db EXCEPT ![k] = slot]
  /\ UNCHANGED <<now, sweep, call>> /\ Silent

Set(k) == \E v \in Strings : Update(k, SetOp(db[k], v))
Del(k) == Update(k, DelOp(db[k]))
Expire(k) == \E ttl \in TTLs : Update(k, ExpireOp(db[k], now + ttl))
Persist(k) == Update(k, PersistOp(db[k]))
Incr(k) == Update(k, IncrOp(db[k]))
Decr(k) == Update(k, DecrOp(db[k]))

Pushed == UNION {[1..n -> Elements] : n \in 1..2}
LPush(k) == \E vs \in Pushed : /\ Len(ListOf(db[k])) + Len(vs) <= MaxLen
                               /\ Update(k, LPushOp(db[k], vs))
RPush(k) == \E vs \in Pushed : /\ Len(ListOf(db[k])) + Len(vs) <= MaxLen
                               /\ Update(k, RPushOp(db[k], vs))
LPop(k) == Update(k, LPopOp(db[k]))
RPop(k) == Update(k, RPopOp(db[k]))

Members == (SUBSET Elements) \ {{}}
SAdd(k) == \E ms \in Members : Update(k, SAddOp(db[k], ms))
SRem(k) == \E ms \in Members : Update(k, SRemOp(db[k], ms))
SPop(k) == \E m \in SetOf(db[k]) : Update(k, SPopOp(db[k], m))

HSet(k) == \E f, v \in Elements : Update(k, HSetOp(db[k], f, v))
HMSet(k) == \E fs \in Members : \E fv \in [fs -> Elements] : Update(k, HMSetOp(db[k], fv))
HDel(k) == \E fs \in Members : Update(k, HDelOp(db[k], fs))

\* TTL answers -2 (missing) for a key whose deadline has come.
TTL(k) ==
  /\ Answer("TTL", IF Present(db[k]) /\ (db[k].exp = Never \/ db[k].exp > now)
                   THEN State(k) ELSE "missing")
  /\ UNCHANGED <<db, now, sweep, call>>

\* The reads of lists, sets and hashes look only at their own map.
Show(op, k, contents) ==
  /\ \E x \in Elements : Answer(op, IF x \in contents THEN State(k) ELSE "missing")
  /\ UNCHANGED <<db, now, sweep, call>>

ListRead(k) == Show("ListRead", k, {ListOf(db[k])[i] : i \in DOMAIN ListOf(db[k])})
SetRead(k) == Show("SetRead", k, SetOf(db[k]))
SRandMember(k) == Show("SRandMember", k, SetOf(db[k]))
HGet(k) == Show("HGet", k, DOMAIN HashOf(db[k]))
HashRead(k) == Show("HashRead", k, DOMAIN HashOf(db[k]))
HMGet(k) == Show("HMGet", k, DOMAIN HashOf(db[k]))
-----------------------------------------------------------------------------
(***************************************************************************)
(* Get and Exists: a read lock to copy the value and the deadline, then,   *)
(* only if the deadline has passed, a write lock to delete.                *)
(***************************************************************************)
Begin(c, op, k) ==
  call' = [call EXCEPT ![c] = [op |-> op, key |-> k, exp |-> db[k].exp, state |-> State(k)]]

\* The deadline that the caller copied has passed.
CopyExpired(c) == call[c].exp # Never /\ now > call[c].exp

Get(c, k) ==
  /\ call[c].op = "idle"
  /\ IF db[k].str = Absent
     THEN Answer("Get", "missing") /\ UNCHANGED call
     ELSE Begin(c, "get", k) /\ Silent
  /\ UNCHANGED <<db, now, sweep>>

GetReturn(c) ==
  /\ call[c].op = "get" /\ ~CopyExpired(c)
  /\ Answer("Get", call[c].state)
  /\ call' = [call EXCEPT ![c] = Idle]
  /\ UNCHANGED <<db, now, sweep>>

\* Get deletes under the write lock without looking at the deadline again.
GetDelete(c) ==
  /\ call[c].op = "get" /\ CopyExpired(c)
  /\ db' = [db EXCEPT ![call[c].key] = GetEvict(@)]
  /\ Answer("Get", "missing")
  /\ call' = [call EXCEPT ![c] = Idle]
  /\ UNCHANGED <<now, sweep>>

Exists(c, k) ==
  /\ call[c].op = "idle"
  /\ IF ~Present(db[k])
     THEN Answer("Exists", "missing") /\ UNCHANGED call
     ELSE Begin(c, "exists", k) /\ Silent
  /\ UNCHANGED <<db, now, sweep>>

\* Faulty variant: the deadline that was copied is not compared with the clock.
ExistsReturnUnchecked(c) ==
  /\ call[c].op = "exists"
  /\ Answer("Exists", call[c].state)
  /\ call' = [call EXCEPT ![c] = Idle]
  /\ UNCHANGED <<db, now, sweep>>

ExistsReturn(c) ==
  /\ call[c].op = "exists" /\ ~CopyExpired(c)
  /\ Answer("Exists", call[c].state)
  /\ call' = [call EXCEPT ![c] = Idle]
  /\ UNCHANGED <<db, now, sweep>>

\* Faulty variant: no second look at the deadline under the write lock.
ExistsDeleteUnchecked(c) ==
  /\ call[c].op = "exists" /\ CopyExpired(c)
  /\ db' = [db EXCEPT ![call[c].key] = Evict(@)]
  /\ Answer("Exists", "missing")
  /\ call' = [call EXCEPT ![c] = Idle]
  /\ UNCHANGED <<now, sweep>>

\* Exists deletes only if the deadline that is there now has passed.
ExistsDelete(c) ==
  /\ call[c].op = "exists" /\ CopyExpired(c)
  /\ db' = [db EXCEPT ![call[c].key] = IF ExpiredAt(@, now) THEN Evict(@) ELSE @]
  /\ Answer("Exists", "missing")
  /\ call' = [call EXCEPT ![c] = Idle]
  /\ UNCHANGED <<now, sweep>>
-----------------------------------------------------------------------------
(***************************************************************************)
(* Operations that lock one shard after the other.                         *)
(***************************************************************************)
BeginPass(c, pass) ==
  /\ call[c].op = "idle"
  /\ call' = [call EXCEPT ![c] = pass]
  /\ UNCHANGED <<db, now, sweep>> /\ Silent

AtShard(c, op) == call[c].op = op /\ call[c].shard <= NumShards

\* The loop over the shards is over: Keys, Size and FlushAll return.
PassReturn(c) ==
  /\ call[c].op \in {"keys", "size", "flush"} /\ call[c].shard > NumShards
  /\ call' = [call EXCEPT ![c] = Idle]
  /\ UNCHANGED <<db, now, sweep>> /\ Silent

\* Faulty variant: every key with a deadline is taken for an expired one.
KeyHitsNoDeadline(e, t) ==
  IF e.exp # Never THEN 0
  ELSE IF e.str # Absent THEN 1
  ELSE Cardinality({m \in {"list", "set", "hash"} : e[m] # Absent})

\* How often Keys lists a key: once if it is a string, else once for every
\* other map that holds it; not at all if it expired before Keys began.
KeyHits(e, t) ==
  IF ExpiredAt(e, t) THEN 0
  ELSE IF e.str # Absent THEN 1
  ELSE Cardinality({m \in {"list", "set", "hash"} : e[m] # Absent})

KeysBegin(c) ==
  BeginPass(c, [op |-> "keys", shard |-> 1, start |-> now, hits |-> [k \in Keys |-> 0]])

KeysShard(c) ==
  /\ AtShard(c, "keys")
  /\ call' = [call EXCEPT
       ![c].hits = [k \in Keys |-> IF ShardOf[k] = call[c].shard
                                   THEN KeyHits(db[k], call[c].start) ELSE @[k]],
       ![c].shard = @ + 1]
  /\ UNCHANGED <<db, now, sweep>> /\ Silent

\* What Size adds up for one shard: the lengths of its four maps.
Entries(s, map) == {k \in InShard(s) : db[k][map] # Absent}
\* Faulty variant: the map of hashes is forgotten.
ShardSizeNoHashes(s) ==
  Cardinality(Entries(s, "str")) + Cardinality(Entries(s, "list"))
    + Cardinality(Entries(s, "set"))
ShardSize(s) ==
  Cardinality(Entries(s, "str")) + Cardinality(Entries(s, "list"))
    + Cardinality(Entries(s, "set")) + Cardinality(Entries(s, "hash"))

SizeBegin(c) == BeginPass(c, [op |-> "size", shard |-> 1, total |-> 0])

SizeShard(c) ==
  /\ AtShard(c, "size")
  /\ call' = [call EXCEPT ![c].total = @ + ShardSize(call[c].shard), ![c].shard = @ + 1]
  /\ UNCHANGED <<db, now, sweep>> /\ Silent

FlushBegin(c) == BeginPass(c, [op |-> "flush", shard |-> 1])

\* Faulty variant: the deadlines of the shard are kept.
FlushShardKeepsDeadlines(c) ==
  /\ AtShard(c, "flush")
  /\ db' = [k \in Keys |-> IF ShardOf[k] = call[c].shard
                           THEN [EmptySlot EXCEPT !.exp = db[k].exp] ELSE db[k]]
  /\ call' = [call EXCEPT ![c].shard = @ + 1]
  /\ UNCHANGED <<now, sweep>> /\ Silent

FlushShard(c) ==
  /\ AtShard(c, "flush")
  /\ db' = [k \in Keys |-> IF ShardOf[k] = call[c].shard THEN EmptySlot ELSE db[k]]
  /\ call' = [call EXCEPT ![c].shard = @ + 1]
  /\ UNCHANGED <<now, sweep>> /\ Silent
-----------------------------------------------------------------------------
\* Faulty variant: the sweeper never leaves the shard it began with.
SweepStuck ==
  /\ db' = [k \in Keys |->
              IF ShardOf[k] = sweep /\ Expired(k) THEN Evict(db[k]) ELSE db[k]]
  /\ UNCHANGED <<now, sweep, call>> /\ Silent

\* Faulty variant: the loop runs to one shard too many.
SweepPastEnd ==
  /\ db' = [k \in Keys |->
              IF ShardOf[k] = sweep /\ Expired(k) THEN Evict(db[k]) ELSE db[k]]
  /\ sweep' = IF sweep > NumShards THEN 1 ELSE sweep + 1
  /\ UNCHANGED <<now, call>> /\ Silent

\* Faulty variant: the lists of expired keys are left where they are.
SweepKeepsLists ==
  /\ db' = [k \in Keys |->
              IF ShardOf[k] = sweep /\ Expired(k)
              THEN [EmptySlot EXCEPT !.list = db[k].list] ELSE db[k]]
  /\ sweep' = IF sweep = NumShards THEN 1 ELSE sweep + 1
  /\ UNCHANGED <<now, call>> /\ Silent

\* activeExpiry locks one shard after the other, round and round.
Sweep ==
  /\ db' = [k \in Keys |->
              IF ShardOf[k] = sweep /\ Expired(k) THEN Evict(db[k]) ELSE db[k]]
  /\ sweep' = IF sweep = NumShards THEN 1 ELSE sweep + 1
  /\ UNCHANGED <<now, call>> /\ Silent

Tick ==
  /\ now < MaxTime
  /\ now' = now + 1
  /\ UNCHANGED <<db, sweep, call>> /\ Silent

\* Bookkeeping for the properties of a pass: during Keys and Size a key is
\* steady as long as it is live after every step, during FlushAll as long as
\* no step writes it.
Watched(c) == IF call[c].op = "idle" THEN Keys ELSE steady[c]
Watch ==
  steady' = [c \in Clients |->
    CASE call'[c].op \in {"keys", "size"} -> {k \in Watched(c) : LiveAt(db'[k], now')}
      [] call'[c].op = "flush" -> {k \in Watched(c) : db'[k] \in {db[k], EmptySlot}}
      [] OTHER -> {}]

Write(k) ==
  \/ "Set" \in Ops[k] /\ Set(k)
  \/ "Del" \in Ops[k] /\ Del(k)
  \/ "Expire" \in Ops[k] /\ (Expire(k) \/ Persist(k))
  \/ "Incr" \in Ops[k] /\ (Incr(k) \/ Decr(k))
  \/ "List" \in Ops[k] /\ (LPush(k) \/ RPush(k) \/ LPop(k) \/ RPop(k))
  \/ "Sets" \in Ops[k] /\ (SAdd(k) \/ SRem(k) \/ SPop(k))
  \/ "Hash" \in Ops[k] /\ (HSet(k) \/ HMSet(k) \/ HDel(k))

Read(k) ==
  /\ "Reads" \in Ops[k]
  /\ \/ TTL(k) \/ ListRead(k) \/ SetRead(k) \/ SRandMember(k)
     \/ HGet(k) \/ HashRead(k) \/ HMGet(k)

CallStep(c) ==
  \/ \E k \in Keys : "Get" \in Ops[k] /\ Get(c, k)
  \/ \E k \in Keys : "Exists" \in Ops[k] /\ Exists(c, k)
  \/ GetReturn(c) \/ GetDelete(c) \/ ExistsReturn(c) \/ ExistsDelete(c)
  \/ "Keys" \in Passes /\ KeysBegin(c)
  \/ "Size" \in Passes /\ SizeBegin(c)
  \/ "FlushAll" \in Passes /\ FlushBegin(c)
  \/ KeysShard(c) \/ SizeShard(c) \/ FlushShard(c) \/ PassReturn(c)

Next ==
  /\ \/ \E k \in Keys : Write(k) \/ Read(k)
     \/ \E c \in Clients : CallStep(c)
     \/ Sweep
     \/ Tick
  /\ Watch

Spec == Init /\ [][Next]_vars

\* The sweeper's ticker never stops.
FairSpec == Spec /\ WF_vars(Sweep /\ Watch)
-----------------------------------------------------------------------------
\* The maps lists, sets and hashes hold no empty value: whoever takes the last
\* element of a key away (LPop, RPop, SRem, SPop, HDel) also removes the key,
\* and no operation creates an empty one.  Exists, Type and Size rely on it.
NoEmptyCollections == \A k \in Keys : NonEmpty(db[k])

At == 1..(NumShards + 1)
LookupType == [op : {"get", "exists"}, key : Keys, exp : {Never} \cup Int,
               state : {"live", "expired"}]
KeysType == [op : {"keys"}, shard : At, start : Nat, hits : [Keys -> Nat]]
SizeType == [op : {"size"}, shard : At, total : Nat]
FlushType == [op : {"flush"}, shard : At]
LastType == [op : {"none", "Get", "Exists", "TTL", "ListRead", "SetRead", "SRandMember",
                   "HGet", "HashRead", "HMGet"},
             shown : {"missing", "live", "expired"}]
CallType == {Idle} \cup LookupType \cup KeysType \cup SizeType \cup FlushType

\* The store's maps hold values of their types, the sweeper is at a shard, and
\* an operation in progress at one of the shards or past the last.
TypeOK ==
  /\ db \in [Keys -> Slot(Strs, Elements)]
  /\ now \in Nat
  /\ sweep \in 1..NumShards
  /\ call \in [Clients -> CallType]
  /\ last \in LastType
  /\ steady \in [Clients -> SUBSET Keys]

\* Get, Exists and TTL never show a key whose deadline had passed when they
\* looked it up, whatever was written between their two locks.  (The reads of
\* lists, sets and hashes do.)
ExpiredInvisible ==
  last.op \in {"Get", "Exists", "TTL"} => last.shown # "expired"

\* Exists and the sweeper remove only keys whose deadline has passed at the
\* moment of removal, also if the key was set anew after Exists read it.
OnlyExpiredEvicted ==
  [][(\E k \in Keys : db'[k] # db[k] /\ ~Expired(k)) =>
       ~(Sweep \/ \E c \in Clients : ExistsDelete(c))]_vars

\* The same of Get, which is said to "re-check under the write lock to prevent
\* a race where another goroutine re-set the key between phases".
GetEvictsOnlyExpired ==
  [][(\E c \in Clients : GetDelete(c)) =>
       \A k \in Keys : db'[k] # db[k] => Expired(k)]_vars

\* Keys lists, and Size counts, every key that was live from the beginning of
\* the pass to its end, although writers and the sweeper work on shards
\* before and behind the pass.
Passed(c) == {k \in steady[c] : ShardOf[k] < call[c].shard}
KeysComplete ==
  \A c \in Clients : call[c].op = "keys" => \A k \in Passed(c) : call[c].hits[k] > 0
SizeComplete ==
  \A c \in Clients : call[c].op = "size" => call[c].total >= Cardinality(Passed(c))

\* FlushAll leaves nothing, and no deadline, of a key that nobody else writes
\* while the pass is under way.
FlushComplete ==
  \A c \in Clients : call[c].op = "flush" => \A k \in Passed(c) : db[k] = EmptySlot

\* An expired key that has not been swept comes back to life only if it is
\* Set, given another deadline by Expire or Persist, or if a Get of its string
\* also drops the deadline of the list, set or hash under the same key.  The
\* sweeper, Exists, FlushAll and the writes of collections never revive it.
RevivedOnlyBy ==
  [][\A k \in Keys :
       Present(db[k]) /\ Expired(k) /\ LiveAt(db'[k], now') =>
         \/ Set(k) \/ Expire(k) \/ Persist(k)
         \/ \E c \in Clients : GetDelete(c) /\ call[c].key = k]_vars

\* A key whose deadline has passed is eventually swept (or given a new
\* deadline or value), "even if nobody reads" it.
ExpiredSwept == \A k \in Keys : Expired(k) ~> ~Expired(k)
=============================================================================
