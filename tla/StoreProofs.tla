---------------------------- MODULE StoreProofs -----------------------------
(***************************************************************************)
(* Theorems about Store, for any keys, shards, callers and operations.     *)
(***************************************************************************)
EXTENDS Store, StoreOpsProofs

\* The steps that name no prover are within reach of Zenon.
USE Zenon

DbInv == db \in [Keys -> Slot(Strs, Elements)] /\ NoEmptyCollections

\* An operation under one lock that leaves a good slot keeps the store good.
LEMMA UpdateGood ==
  ASSUME DbInv, NEW k \in Keys, NEW slot, GoodSlot(slot, Strs, Elements), Update(k, slot)
  PROVE  DbInv'
BY DEF DbInv, NoEmptyCollections, GoodSlot, Update

\* The sequences that the pushes take are not empty.
LEMMA PushedType == \A vs \in Pushed : vs \in Seq(Elements) /\ vs # << >>
<1> SUFFICES ASSUME NEW n \in 1..2, NEW vs \in [1..n -> Elements]
             PROVE  vs \in Seq(Elements) /\ vs # << >>
  BY DEF Pushed
<1>1. vs \in Seq(Elements) BY SMT
<1>2. DOMAIN vs = 1..n /\ 1 \in 1..n BY SMT
<1> QED BY <1>1, <1>2, SMT

\* The writes under one lock keep every slot well typed and free of empty
\* collections.
LEMMA WriteGood ==
  ASSUME DbInv, now \in Nat, NEW k \in Keys, Write(k)
  PROVE  DbInv'
<1>1. GoodSlot(db[k], Strs, Elements) BY DEF DbInv, NoEmptyCollections, GoodSlot
<1>2. CASE Set(k)
  BY <1>1, <1>2, StoreConstants, StringOpsGood, UpdateGood, SMT DEF Set
<1>3. CASE Del(k)
  <2>1. GoodSlot(DelOp(db[k]), Strs, Elements) BY <1>1, EmptyGood DEF DelOp
  <2> QED BY <1>3, <2>1, UpdateGood DEF Del
<1>4. CASE Expire(k)
  <2>1. PICK ttl \in TTLs : Update(k, ExpireOp(db[k], now + ttl)) BY <1>4 DEF Expire
  <2>2. now + ttl \in Int BY StoreConstants, SMT
  <2>3. GoodSlot(ExpireOp(db[k], now + ttl), Strs, Elements)
    BY <1>1, <2>2 DEF ExpireOp, GoodSlot, Slot, NonEmpty
  <2> QED BY <2>1, <2>3, UpdateGood
<1>5. CASE Persist(k)
  <2>1. GoodSlot(PersistOp(db[k]), Strs, Elements) BY <1>1 DEF PersistOp, GoodSlot, Slot, NonEmpty
  <2> QED BY <1>5, <2>1, UpdateGood DEF Persist
<1>6. CASE Incr(k) \/ Decr(k)
  BY <1>1, <1>6, CountersGoodStrs, UpdateGood DEF Incr, Decr
<1>7. CASE LPush(k) \/ RPush(k)
  BY <1>1, <1>7, ListsGood, PushedType, UpdateGood DEF LPush, RPush
<1>8. CASE LPop(k) \/ RPop(k)
  <2>1. GoodSlot(LPopOp(db[k]), Strs, Elements) /\ GoodSlot(RPopOp(db[k]), Strs, Elements) BY <1>1, PopsGood
  <2> QED BY <1>8, <2>1, UpdateGood DEF LPop, RPop
<1>9. CASE SAdd(k) \/ SRem(k)
  <2>1. PICK ms \in Members : Update(k, SAddOp(db[k], ms)) \/ Update(k, SRemOp(db[k], ms))
    BY <1>9 DEF SAdd, SRem
  <2>2. ms \in SUBSET Elements /\ ms # {} BY DEF Members
  <2>3. GoodSlot(SAddOp(db[k], ms), Strs, Elements) /\ GoodSlot(SRemOp(db[k], ms), Strs, Elements) BY <1>1, <2>2, SetsGood
  <2> QED BY <2>1, <2>3, UpdateGood
<1>10. CASE SPop(k)
  BY <1>1, <1>10, SPopGood, UpdateGood DEF SPop
<1>11. CASE HSet(k)
  <2>1. PICK f, v \in Elements : Update(k, HSetOp(db[k], f, v)) BY <1>11 DEF HSet
  <2>2. {f} \in SUBSET Elements /\ {f} # {} /\ [g \in {f} |-> v] \in [{f} -> Elements]
    OBVIOUS
  <2> QED BY <1>1, <2>1, <2>2, HashesGood, UpdateGood DEF HSetOp
<1>12. CASE HMSet(k)
  <2>1. PICK fs \in Members : \E fv \in [fs -> Elements] : Update(k, HMSetOp(db[k], fv))
    BY <1>12 DEF HMSet
  <2>2. PICK fv \in [fs -> Elements] : Update(k, HMSetOp(db[k], fv)) BY <2>1
  <2>3. fs \in SUBSET Elements /\ fs # {} BY DEF Members
  <2>4. GoodSlot(HMSetOp(db[k], fv), Strs, Elements) BY <1>1, <2>3, HashesGood
  <2> QED BY <2>2, <2>4, UpdateGood
<1>13. CASE HDel(k)
  <2>1. PICK fs \in Members : Update(k, HDelOp(db[k], fs)) BY <1>13 DEF HDel
  <2> QED BY <1>1, <2>1, HDelGood, UpdateGood DEF Members
<1> QED
  BY <1>2, <1>3, <1>4, <1>5, <1>6, <1>7, <1>8, <1>9, <1>10, <1>11, <1>12, <1>13 DEF Write

CallInv == call \in [Clients -> CallType]
RestInv == now \in Nat /\ sweep \in 1..NumShards /\ last \in LastType
StateInv == DbInv /\ CallInv /\ RestInv

\* What a caller has in hand is told by the operation it is in.
LEMMA CallKinds ==
  ASSUME CallInv, NEW c \in Clients
  PROVE  /\ call[c].op \in {"get", "exists"} => call[c] \in LookupType
         /\ call[c].op = "keys" => call[c] \in KeysType
         /\ call[c].op = "size" => call[c] \in SizeType
         /\ call[c].op = "flush" => call[c] \in FlushType
<1>1. call[c] \in CallType BY DEF CallInv
<1> QED BY <1>1, SMT DEF CallType, Idle, LookupType, KeysType, SizeType, FlushType

\* The counts that Keys and Size take of a shard are natural numbers.
LEMMA CountsNat ==
  /\ \A e, t : KeyHits(e, t) \in Nat
  /\ \A s : ShardSize(s) \in Nat
<1>1. ASSUME NEW e PROVE Cardinality({m \in {"list", "set", "hash"} : e[m] # Absent}) \in Nat
  <2>1. IsFiniteSet({"hash"}) BY FS_Singleton
  <2>2. IsFiniteSet({"hash"} \cup {"set"}) BY <2>1, FS_AddElement
  <2>3. IsFiniteSet(({"hash"} \cup {"set"}) \cup {"list"}) BY <2>2, FS_AddElement
  <2>4. {m \in {"list", "set", "hash"} : e[m] # Absent}
          \subseteq ({"hash"} \cup {"set"}) \cup {"list"}
    OBVIOUS
  <2> QED BY <2>3, <2>4, FS_Subset, FS_CardinalityType
<1>2. ASSUME NEW s, NEW m PROVE Cardinality(Entries(s, m)) \in Nat
  <2>1. Entries(s, m) \subseteq Keys BY DEF Entries, InShard
  <2> QED BY <2>1, StoreConstants, FS_Subset, FS_CardinalityType
<1>3. ASSUME NEW e, NEW t PROVE KeyHits(e, t) \in Nat
  BY <1>1 DEF KeyHits
<1>4. ASSUME NEW s PROVE ShardSize(s) \in Nat
  BY <1>2, SMT DEF ShardSize
<1> QED BY <1>3, <1>4

\* A step that answers nothing leaves an answer of the right type.
LEMMA SilentTyped == Silent => last' \in LastType
BY SMT DEF Silent, Answer, LastType

\* The steps of Get and Exists.
LEMMA LookupTyped ==
  ASSUME StateInv, NEW c \in Clients, NEW k \in Keys,
         Get(c, k) \/ GetReturn(c) \/ GetDelete(c)
           \/ Exists(c, k) \/ ExistsReturn(c) \/ ExistsDelete(c)
  PROVE  StateInv'
<1> USE DEF StateInv
<1> DEFINE fresh(op) == [op |-> op, key |-> k, exp |-> db[k].exp, state |-> State(k)]
<1>1. db[k].exp \in {Never} \cup Int BY DEF DbInv, Slot
<1>2. State(k) \in {"live", "expired"} BY DEF State
<1>3. fresh("get") \in CallType /\ fresh("exists") \in CallType
  BY <1>1, <1>2 DEF CallType, LookupType
<1>4. Idle \in CallType BY DEF CallType
<1>5. CallInv'
  BY <1>3, <1>4 DEF CallInv, Get, GetReturn, GetDelete, Exists, ExistsReturn, ExistsDelete, Begin
<1>6. call[c].op \in {"get", "exists"} =>
        call[c].key \in Keys /\ call[c].state \in {"live", "expired"}
  BY CallKinds DEF LookupType
<1>7. RestInv'
  <2>1. UNCHANGED <<now, sweep>>
    BY DEF Get, GetReturn, GetDelete, Exists, ExistsReturn, ExistsDelete
  <2>2. \/ Silent
        \/ Answer("Get", "missing") \/ Answer("Exists", "missing")
        \/ call[c].op \in {"get", "exists"}
             /\ (Answer("Get", call[c].state) \/ Answer("Exists", call[c].state))
    BY DEF Get, GetReturn, GetDelete, Exists, ExistsReturn, ExistsDelete
  <2>3. last' \in LastType BY <1>6, <2>2, SMT DEF Silent, Answer, LastType
  <2> QED BY <2>1, <2>3 DEF RestInv
<1>8. DbInv'
  <2>1. CASE UNCHANGED db BY <2>1 DEF DbInv, NoEmptyCollections
  <2>2. CASE GetDelete(c)
    <3>1. call[c].key \in Keys BY <1>6, <2>2 DEF GetDelete
    <3>2. GoodSlot(db[call[c].key], Strs, Elements) BY <3>1 DEF DbInv, NoEmptyCollections, GoodSlot
    <3>3. GoodSlot(GetEvict(db[call[c].key]), Strs, Elements)
      BY <3>2 DEF GoodSlot, GetEvict, Slot, NonEmpty
    <3> QED BY <2>2, <3>1, <3>3 DEF GetDelete, DbInv, NoEmptyCollections, GoodSlot
  <2>3. CASE ExistsDelete(c)
    <3>1. call[c].key \in Keys BY <1>6, <2>3 DEF ExistsDelete
    <3> QED BY <2>3, <3>1, EmptyGood
            DEF ExistsDelete, Evict, DbInv, NoEmptyCollections, GoodSlot
  <2> QED BY <2>1, <2>2, <2>3 DEF Get, GetReturn, Exists, ExistsReturn
<1> QED BY <1>5, <1>7, <1>8

\* The steps of Keys, Size and FlushAll.
LEMMA PassTyped ==
  ASSUME StateInv, NEW c \in Clients,
         \/ KeysBegin(c) \/ SizeBegin(c) \/ FlushBegin(c)
         \/ KeysShard(c) \/ SizeShard(c) \/ FlushShard(c) \/ PassReturn(c)
  PROVE  StateInv'
<1> USE DEF StateInv
<1>1. RestInv'
  <2>1. UNCHANGED <<now, sweep>> /\ Silent
    BY DEF KeysBegin, SizeBegin, FlushBegin, BeginPass, KeysShard, SizeShard, FlushShard,
           PassReturn
  <2> QED BY <2>1, SilentTyped DEF RestInv
<1>2. DbInv'
  <2>1. CASE UNCHANGED db BY <2>1 DEF DbInv, NoEmptyCollections
  <2>2. CASE FlushShard(c)
    BY <2>2, EmptyGood DEF FlushShard, DbInv, NoEmptyCollections, GoodSlot
  <2> QED
    BY <2>1, <2>2 DEF KeysBegin, SizeBegin, FlushBegin, BeginPass, KeysShard, SizeShard,
                      PassReturn
<1>3. CallInv'
  <2>0. 1 \in At BY StoreConstants, SMT DEF At
  <2>1. CASE KeysBegin(c)
    <3>1. [op |-> "keys", shard |-> 1, start |-> now, hits |-> [k \in Keys |-> 0]] \in KeysType
      BY <2>0 DEF KeysType, RestInv
    <3> QED BY <2>1, <3>1 DEF KeysBegin, BeginPass, CallInv, CallType
  <2>2. CASE SizeBegin(c)
    BY <2>0, <2>2 DEF SizeBegin, BeginPass, CallInv, CallType, SizeType
  <2>3. CASE FlushBegin(c)
    BY <2>0, <2>3 DEF FlushBegin, BeginPass, CallInv, CallType, FlushType
  <2>4. CASE KeysShard(c)
    <3> DEFINE hits == [k \in Keys |-> IF ShardOf[k] = call[c].shard
                                      THEN KeyHits(db[k], call[c].start)
                                      ELSE call[c].hits[k]]
    <3>1. call[c] \in KeysType /\ call[c].shard <= NumShards
      BY <2>4, CallKinds DEF KeysShard, AtShard
    <3>2. hits \in [Keys -> Nat] BY <3>1, CountsNat DEF KeysType
    <3>3. call' = [call EXCEPT ![c] = [call[c] EXCEPT !.hits = hits, !.shard = call[c].shard + 1]]
      BY <2>4, <3>1 DEF KeysShard, KeysType, CallInv
    <3> HIDE DEF hits
    <3>4. call[c].shard + 1 \in At BY <3>1, StoreConstants, SMT DEF KeysType, At
    <3>5. [call[c] EXCEPT !.hits = hits, !.shard = call[c].shard + 1] \in KeysType
      BY <3>1, <3>2, <3>4 DEF KeysType
    <3> QED BY <3>3, <3>5 DEF CallInv, CallType
  <2>5. CASE SizeShard(c)
    <3>1. call[c] \in SizeType /\ call[c].shard <= NumShards
      BY <2>5, CallKinds DEF SizeShard, AtShard
    <3>2. call[c].total + ShardSize(call[c].shard) \in Nat
      BY <3>1, CountsNat, SMT DEF SizeType
    <3>3. call[c].shard + 1 \in At BY <3>1, StoreConstants, SMT DEF SizeType, At
    <3>4. call' = [call EXCEPT ![c] = [call[c] EXCEPT
                     !.total = call[c].total + ShardSize(call[c].shard),
                     !.shard = call[c].shard + 1]]
      BY <2>5, <3>1 DEF SizeShard, SizeType, CallInv
    <3>5. [call[c] EXCEPT !.total = call[c].total + ShardSize(call[c].shard),
                          !.shard = call[c].shard + 1] \in SizeType
      BY <3>1, <3>2, <3>3 DEF SizeType
    <3> QED BY <3>4, <3>5 DEF CallInv, CallType
  <2>6. CASE FlushShard(c)
    <3>1. call[c] \in FlushType /\ call[c].shard <= NumShards
      BY <2>6, CallKinds DEF FlushShard, AtShard
    <3>2. call[c].shard + 1 \in At BY <3>1, StoreConstants, SMT DEF FlushType, At
    <3>3. [call[c] EXCEPT !.shard = call[c].shard + 1] \in FlushType
      BY <3>1, <3>2 DEF FlushType
    <3> QED BY <2>6, <3>3 DEF FlushShard, CallInv, CallType
  <2>7. CASE PassReturn(c)
    BY <2>7 DEF PassReturn, CallInv, CallType
  <2> QED BY <2>1, <2>2, <2>3, <2>4, <2>5, <2>6, <2>7
<1> QED BY <1>1, <1>2, <1>3

\* Every step keeps the store, the callers' state and the answers typed, and
\* the store free of empty collections.
LEMMA StateStep == ASSUME StateInv, Next PROVE StateInv'
<1>1. ASSUME NEW k \in Keys, Write(k) PROVE StateInv'
  <2>1. DbInv' BY <1>1, WriteGood DEF StateInv, RestInv
  <2>2. UNCHANGED <<now, sweep, call>> /\ Silent
    BY <1>1 DEF Write, Set, Del, Expire, Persist, Incr, Decr, LPush, RPush, LPop, RPop,
                SAdd, SRem, SPop, HSet, HMSet, HDel, Update
  <2> QED BY <2>1, <2>2, SilentTyped DEF StateInv, CallInv, RestInv
<1>2. ASSUME NEW k \in Keys, Read(k) PROVE StateInv'
  <2>1. UNCHANGED <<db, now, sweep, call>>
    BY <1>2 DEF Read, TTL, ListRead, SetRead, SRandMember, HGet, HashRead, HMGet, Show
  <2>2. State(k) \in {"live", "expired"} BY DEF State
  <2>3. last' \in LastType
    BY <1>2, <2>2, SMT DEF Read, TTL, ListRead, SetRead, SRandMember, HGet, HashRead, HMGet, Show,
                      Answer, LastType
  <2> QED BY <2>1, <2>3 DEF StateInv, DbInv, NoEmptyCollections, CallInv, RestInv
<1>3. ASSUME NEW c \in Clients, CallStep(c) PROVE StateInv'
  <2>1. CASE \E k \in Keys : Get(c, k) \/ Exists(c, k) BY <2>1, LookupTyped DEF StateInv
  <2>2. CASE GetReturn(c) \/ GetDelete(c) \/ ExistsReturn(c) \/ ExistsDelete(c)
    <3>1. call[c].key \in Keys
      BY <2>2, CallKinds
         DEF GetReturn, GetDelete, ExistsReturn, ExistsDelete, StateInv, LookupType
    <3> QED BY <2>2, <3>1, LookupTyped
  <2>3. CASE \/ KeysBegin(c) \/ SizeBegin(c) \/ FlushBegin(c)
             \/ KeysShard(c) \/ SizeShard(c) \/ FlushShard(c) \/ PassReturn(c)
    BY <2>3, PassTyped
  <2> QED BY <1>3, <2>1, <2>2, <2>3 DEF CallStep
<1>4. CASE Sweep
  <2>1. DbInv' BY <1>4, EmptyGood DEF StateInv, Sweep, Evict, DbInv, NoEmptyCollections, GoodSlot
  <2> QED BY <1>4, <2>1, SilentTyped, StoreConstants, SMT DEF StateInv, Sweep, CallInv, RestInv
<1>5. CASE Tick
  BY <1>5, SilentTyped, SMT DEF StateInv, Tick, DbInv, NoEmptyCollections, CallInv, RestInv
<1> QED BY <1>1, <1>2, <1>3, <1>4, <1>5 DEF Next

\* The bookkeeping of steady keys stays typed.
LEMMA WatchTyped == ASSUME steady \in [Clients -> SUBSET Keys], Watch
                    PROVE  steady' \in [Clients -> SUBSET Keys]
BY DEF Watch, Watched

\* NewStore's empty maps satisfy the invariant.
LEMMA TypeInit == Init => StateInv /\ steady \in [Clients -> SUBSET Keys]
<1> SUFFICES ASSUME Init PROVE StateInv /\ steady \in [Clients -> SUBSET Keys]
  OBVIOUS
<1>1. DbInv BY EmptyGood DEF Init, DbInv, NoEmptyCollections, GoodSlot
<1>2. CallInv BY DEF Init, CallInv, CallType
<1>3. RestInv BY StoreConstants, SMT DEF Init, RestInv, LastType
<1> QED BY <1>1, <1>2, <1>3 DEF Init, StateInv

\* The inductive invariant behind the types and NoEmptyCollections.
Typed == StateInv /\ steady \in [Clients -> SUBSET Keys]

\* Every behaviour keeps the inductive invariant: slots of the right type
\* without empty collections, callers inside an operation at a shard of it.
LEMMA TypedAlways == Spec => []Typed
<1>1. Init => Typed BY TypeInit DEF Typed
<1>2. ASSUME Typed, [Next]_vars PROVE Typed'
  <2>1. CASE Next BY <2>1, <1>2, StateStep, WatchTyped DEF Typed, Next
  <2>2. CASE UNCHANGED vars
    BY <1>2, <2>2 DEF Typed, StateInv, DbInv, NoEmptyCollections, CallInv, RestInv, vars
  <2> QED BY <1>2, <2>1, <2>2
<1> QED BY <1>1, <1>2, PTL DEF Spec

\* Whatever the callers of the store do, its maps hold values of their types
\* and the sweeper and every pass are at a shard.
THEOREM StoreTypeCorrect == Spec => []TypeOK
<1>1. Typed => TypeOK
  BY DEF Typed, StateInv, DbInv, CallInv, RestInv, LastType, TypeOK
<1> QED BY <1>1, TypedAlways, PTL

\* No operation, and no interleaving of them, leaves an empty list, set or
\* hash in the store: whoever takes the last element removes the key.
THEOREM NeverEmpty == Spec => []NoEmptyCollections
<1>1. Typed => NoEmptyCollections BY DEF Typed, StateInv, DbInv
<1> QED BY <1>1, TypedAlways, PTL
-----------------------------------------------------------------------------
(***************************************************************************)
(* Get, Exists and TTL.                                                    *)
(***************************************************************************)
\* A caller that looked up an expired key finds the copied deadline passed
\* for good.
LookupInv ==
  \A c \in Clients :
    call[c].op \in {"get", "exists"} /\ call[c].state = "expired" => CopyExpired(c)

\* No operation sets time.Now() back.
LEMMA NowGrows == ASSUME Typed, Next PROVE now' \in Nat /\ now <= now'
<1>1. now \in Nat BY DEF Typed, StateInv, RestInv
<1>2. now' = now \/ now' = now + 1
  BY DEF Next, Write, Set, Del, Expire, Persist, Incr, Decr, LPush, RPush, LPop, RPop,
         SAdd, SRem, SPop, HSet, HMSet, HDel, Update,
         Read, TTL, ListRead, SetRead, SRandMember, HGet, HashRead, HMGet, Show,
         CallStep, Get, GetReturn, GetDelete, Exists, ExistsReturn, ExistsDelete,
         KeysBegin, SizeBegin, FlushBegin, BeginPass, KeysShard, SizeShard, FlushShard,
         PassReturn, Sweep, Tick
<1> QED BY <1>1, <1>2, SMT

\* A present key that is not live is expired.
LEMMA NotLive == ASSUME NEW k, Present(db[k]), State(k) = "expired" PROVE Expired(k)
BY DEF State, Live, LiveAt, Expired

\* How a step changes what a caller in Get or Exists has in hand.
LEMMA LookupChange ==
  ASSUME Typed, Next, NEW c \in Clients, call'[c].op \in {"get", "exists"}
  PROVE  \/ call'[c] = call[c]
         \/ \E k \in Keys : /\ Present(db[k]) /\ now' = now
                            /\ call'[c].exp = db[k].exp /\ call'[c].state = State(k)
<1> call \in [Clients -> CallType] BY DEF Typed, StateInv, CallInv
<1>1. CASE UNCHANGED call BY <1>1
<1>2. ASSUME NEW d \in Clients, CallStep(d) PROVE
         \/ call'[c] = call[c]
         \/ \E k \in Keys : /\ Present(db[k]) /\ now' = now
                            /\ call'[c].exp = db[k].exp /\ call'[c].state = State(k)
  <2>1. CASE d # c
    BY <1>2, <2>1 DEF CallStep, Get, GetReturn, GetDelete, Exists, ExistsReturn, ExistsDelete,
         Begin, KeysBegin, SizeBegin, FlushBegin, BeginPass, KeysShard, SizeShard, FlushShard,
         PassReturn
  <2>2. ASSUME NEW k \in Keys, Get(c, k) \/ Exists(c, k)
        PROVE  \/ call'[c] = call[c]
               \/ /\ Present(db[k]) /\ now' = now
                  /\ call'[c].exp = db[k].exp /\ call'[c].state = State(k)
    BY <2>2, SMTT(15) DEF Get, Exists, Begin, Present
  <2>3. CASE \/ GetReturn(c) \/ GetDelete(c) \/ ExistsReturn(c) \/ ExistsDelete(c)
             \/ PassReturn(c)
    BY <2>3, SMTT(15) DEF GetReturn, GetDelete, ExistsReturn, ExistsDelete, PassReturn, Idle
  <2>4. CASE KeysShard(c) \/ SizeShard(c) \/ FlushShard(c)
    <3>1. call'[c].op = call[c].op
      BY <2>4, CallKinds, SMTT(15) DEF Typed, StateInv, KeysShard, SizeShard, FlushShard, AtShard,
                             KeysType, SizeType, FlushType
    <3> QED BY <2>4, <3>1 DEF KeysShard, SizeShard, FlushShard, AtShard
  <2>5. CASE KeysBegin(c) \/ SizeBegin(c) \/ FlushBegin(c)
    BY <2>5, SMTT(15) DEF KeysBegin, SizeBegin, FlushBegin, BeginPass
  <2> QED BY <1>2, <2>1, <2>2, <2>3, <2>4, <2>5 DEF CallStep
<1>3. UNCHANGED call \/ \E d \in Clients : CallStep(d)
  BY DEF Next, Write, Set, Del, Expire, Persist, Incr, Decr, LPush, RPush, LPop, RPop,
         SAdd, SRem, SPop, HSet, HMSet, HDel, Update,
         Read, TTL, ListRead, SetRead, SRandMember, HGet, HashRead, HMGet, Show, Sweep, Tick
<1> QED BY <1>1, <1>2, <1>3

\* Begin copies a deadline that has passed exactly when the key is expired, and
\* the clock never takes that back.
LEMMA LookupStep == ASSUME Typed, LookupInv, Next PROVE LookupInv'
<1> SUFFICES ASSUME NEW c \in Clients, call'[c].op \in {"get", "exists"},
                    call'[c].state = "expired"
             PROVE  CopyExpired(c)'
  BY DEF LookupInv
<1>1. now \in Nat /\ now' \in Nat /\ now <= now' BY NowGrows DEF Typed, StateInv, RestInv
<1>2. CASE call'[c] = call[c]
  <2>1. call[c].exp # Never /\ now > call[c].exp BY <1>2 DEF LookupInv, CopyExpired
  <2>2. call[c].exp \in {Never} \cup Int
    BY <1>2, CallKinds DEF Typed, StateInv, LookupType
  <2> QED BY <1>1, <1>2, <2>1, <2>2, SMT DEF CopyExpired
<1>3. ASSUME NEW k \in Keys, Present(db[k]), now' = now,
             call'[c].exp = db[k].exp, call'[c].state = State(k)
      PROVE  CopyExpired(c)'
  BY <1>3, NotLive DEF CopyExpired, Expired, ExpiredAt
<1> QED BY <1>2, <1>3, LookupChange

\* Get and Exists answer only for a copied deadline that has not passed, TTL only
\* for a key whose deadline is ahead.
LEMMA InvisibleStep ==
  ASSUME Typed, LookupInv, ExpiredInvisible, Next
  PROVE  ExpiredInvisible'
<1>1. CASE Silent BY <1>1 DEF Silent, Answer, ExpiredInvisible
<1>2. ASSUME NEW c \in Clients, CallStep(c), ~Silent PROVE ExpiredInvisible'
  <2>1. \/ Answer("Get", "missing") \/ Answer("Exists", "missing")
        \/ GetReturn(c) \/ ExistsReturn(c)
    BY <1>2 DEF CallStep, Get, GetDelete, Exists, ExistsDelete, KeysBegin, SizeBegin,
                FlushBegin, BeginPass, KeysShard, SizeShard, FlushShard, PassReturn
  <2>2. CASE GetReturn(c) \/ ExistsReturn(c)
    <3>1. call[c].state # "expired" BY <2>2 DEF GetReturn, ExistsReturn, LookupInv
    <3> QED BY <2>2, <3>1, SMT DEF GetReturn, ExistsReturn, Answer, ExpiredInvisible
  <2> QED BY <2>1, <2>2, SMT DEF Answer, ExpiredInvisible
<1>3. ASSUME NEW k \in Keys, Read(k) PROVE ExpiredInvisible'
  <2>1. CASE TTL(k)
    <3>1. db[k].exp \in {Never} \cup Int /\ now \in Nat
      BY DEF Typed, StateInv, DbInv, RestInv, Slot
    <3>2. Present(db[k]) /\ (db[k].exp = Never \/ db[k].exp > now) => State(k) = "live"
      BY <3>1, SMT DEF State, Live, LiveAt, ExpiredAt
    <3> QED BY <2>1, <3>2 DEF TTL, Answer, ExpiredInvisible
  <2>2. CASE \/ ListRead(k) \/ SetRead(k) \/ SRandMember(k)
             \/ HGet(k) \/ HashRead(k) \/ HMGet(k)
    BY <2>2, SMTT(15) DEF ListRead, SetRead, SRandMember, HGet, HashRead, HMGet, Show, Answer,
                ExpiredInvisible
  <2> QED BY <1>3, <2>1, <2>2 DEF Read
<1>4. Silent \/ (\E c \in Clients : CallStep(c)) \/ (\E k \in Keys : Read(k))
  BY DEF Next, Write, Set, Del, Expire, Persist, Incr, Decr, LPush, RPush, LPop, RPop,
         SAdd, SRem, SPop, HSet, HMSet, HDel, Update, Sweep, Tick
<1> QED BY <1>1, <1>2, <1>3, <1>4

\* Get, Exists and TTL never show a key that was expired when they looked it
\* up, however many writers, callers and sweeps run between their two locks.
THEOREM ExpiredNeverShown == Spec => []ExpiredInvisible
<1>1. Init => LookupInv /\ ExpiredInvisible BY SMT DEF Init, LookupInv, ExpiredInvisible, Idle
<1>2. ASSUME Typed, LookupInv, ExpiredInvisible, [Next]_vars
      PROVE  LookupInv' /\ ExpiredInvisible'
  <2>1. CASE Next BY <1>2, <2>1, LookupStep, InvisibleStep
  <2>2. CASE UNCHANGED vars
    BY <1>2, <2>2 DEF vars, LookupInv, CopyExpired, ExpiredInvisible
  <2> QED BY <1>2, <2>1, <2>2
<1> QED BY <1>1, <1>2, TypedAlways, PTL DEF Spec
-----------------------------------------------------------------------------
(***************************************************************************)
(* Keys, Size and FlushAll.                                                *)
(***************************************************************************)
\* How a step changes what a caller in a pass has in hand.
LEMMA PassChange ==
  ASSUME Typed, Next, NEW c \in Clients, call'[c].op \in {"keys", "size", "flush"}
  PROVE  \/ call'[c] = call[c]
         \/ /\ call[c].op = "idle" /\ call'[c].shard = 1
            /\ call'[c].op = "keys" => call'[c].start = now
            /\ call'[c].op = "size" => call'[c].total = 0
         \/ KeysShard(c) \/ SizeShard(c) \/ FlushShard(c)
<1> DEFINE Goal ==
         \/ call'[c] = call[c]
         \/ /\ call[c].op = "idle" /\ call'[c].shard = 1
            /\ call'[c].op = "keys" => call'[c].start = now
            /\ call'[c].op = "size" => call'[c].total = 0
         \/ KeysShard(c) \/ SizeShard(c) \/ FlushShard(c)
<1> call \in [Clients -> CallType] BY DEF Typed, StateInv, CallInv
<1>1. CASE UNCHANGED call BY <1>1
<1>2. ASSUME NEW d \in Clients, CallStep(d) PROVE Goal
  <2>1. CASE d # c
    BY <1>2, <2>1 DEF CallStep, Get, GetReturn, GetDelete, Exists, ExistsReturn, ExistsDelete,
         Begin, KeysBegin, SizeBegin, FlushBegin, BeginPass, KeysShard, SizeShard, FlushShard,
         PassReturn
  <2>2. ASSUME NEW k \in Keys, Get(c, k) \/ Exists(c, k) PROVE call'[c] = call[c]
    BY <2>2, SMT DEF Get, Exists, Begin
  <2>3. CASE \/ GetReturn(c) \/ GetDelete(c) \/ ExistsReturn(c) \/ ExistsDelete(c)
             \/ PassReturn(c)
    BY <2>3, SMTT(15) DEF GetReturn, GetDelete, ExistsReturn, ExistsDelete, PassReturn, Idle
  <2>4. CASE KeysBegin(c) \/ SizeBegin(c) \/ FlushBegin(c)
    BY <2>4, SMTT(15) DEF KeysBegin, SizeBegin, FlushBegin, BeginPass
  <2> QED BY <1>2, <2>1, <2>2, <2>3, <2>4 DEF CallStep
<1>3. UNCHANGED call \/ \E d \in Clients : CallStep(d)
  BY DEF Next, Write, Set, Del, Expire, Persist, Incr, Decr, LPush, RPush, LPop, RPop,
         SAdd, SRem, SPop, HSet, HMSet, HDel, Update,
         Read, TTL, ListRead, SetRead, SRandMember, HGet, HashRead, HMGet, Show, Sweep, Tick
<1> QED BY <1>1, <1>2, <1>3

\* During Keys and Size the steady keys are live.
SteadyLive ==
  \A c \in Clients : call[c].op \in {"keys", "size"} => \A k \in steady[c] : Live(k)

\* The bookkeeping of Keys and Size drops a key the moment it is not live.
LEMMA SteadyLiveStep == ASSUME Watch PROVE SteadyLive'
BY DEF Watch, SteadyLive, Live

\* A steady key has been steady since the pass began.
LEMMA SteadyShrinks ==
  ASSUME Watch, NEW c \in Clients, call[c].op # "idle" PROVE steady'[c] \subseteq steady[c]
BY DEF Watch, Watched

\* Keys lists every key that was live when Keys began and is live now.
LEMMA LiveHit ==
  ASSUME NEW e \in Slot(Strs, Elements), NEW s \in Nat, NEW t \in Nat, s <= t, LiveAt(e, t)
  PROVE  KeyHits(e, s) > 0
<1>1. ~ExpiredAt(e, s) BY SMT DEF LiveAt, ExpiredAt, Slot
<1>2. CASE e.str # Absent BY <1>1, <1>2, SMT DEF KeyHits
<1>3. CASE e.str = Absent
  <2> DEFINE M == {m \in {"list", "set", "hash"} : e[m] # Absent}
  <2>1. M # {} BY <1>3 DEF LiveAt, Present
  <2>2. IsFiniteSet({"hash"}) BY FS_Singleton
  <2>3. IsFiniteSet({"hash"} \cup {"set"}) BY <2>2, FS_AddElement
  <2>4. IsFiniteSet(({"hash"} \cup {"set"}) \cup {"list"}) BY <2>3, FS_AddElement
  <2>5. M \subseteq ({"hash"} \cup {"set"}) \cup {"list"} OBVIOUS
  <2>6. IsFiniteSet(M) BY <2>4, <2>5, FS_Subset
  <2>7. KeyHits(e, s) = Cardinality(M) BY <1>1, <1>3 DEF KeyHits
  <2> HIDE DEF M
  <2>8. Cardinality(M) \in Nat /\ Cardinality(M) # 0
    BY <2>1, <2>6, FS_EmptySet, FS_CardinalityType
  <2> QED BY <2>7, <2>8, SMT
<1> QED BY <1>2, <1>3

KeysStarted == \A c \in Clients : call[c].op = "keys" => call[c].start <= now

\* Keys takes its time once, before the first shard; the clock only moves on.
LEMMA KeysStartedStep == ASSUME Typed, KeysStarted, Next PROVE KeysStarted'
<1> SUFFICES ASSUME NEW c \in Clients, call'[c].op = "keys" PROVE call'[c].start <= now'
  BY DEF KeysStarted
<1>1. now \in Nat /\ now' \in Nat /\ now <= now' BY NowGrows DEF Typed, StateInv, RestInv
<1>2. CASE call'[c] = call[c]
  <2>1. call[c].start \in Nat BY <1>2, CallKinds DEF Typed, StateInv, KeysType
  <2> QED BY <1>1, <1>2, <2>1, SMT DEF KeysStarted
<1>3. CASE call'[c].start = now BY <1>1, <1>3
<1>4. CASE KeysShard(c) \/ SizeShard(c) \/ FlushShard(c)
  <2>1. KeysShard(c)
    BY <1>4, CallKinds, SMT DEF Typed, StateInv, CallInv, SizeShard, FlushShard, AtShard, SizeType,
                           FlushType
  <2>2. call[c] \in KeysType BY <2>1, CallKinds DEF Typed, StateInv, KeysShard, AtShard
  <2>3. call'[c].start = call[c].start /\ call[c].op = "keys"
    BY <2>1, <2>2 DEF KeysShard, AtShard, KeysType, Typed, StateInv, CallInv
  <2> QED BY <1>1, <2>2, <2>3, SMT DEF KeysStarted, KeysType
<1> QED BY <1>2, <1>3, <1>4, PassChange

\* A pass step is one of the caller's own operation.
LEMMA OwnShard ==
  ASSUME Typed, Next, NEW c \in Clients, call'[c].op \in {"keys", "size", "flush"},
         KeysShard(c) \/ SizeShard(c) \/ FlushShard(c)
  PROVE  /\ call'[c].op = call[c].op
         /\ call[c].shard \in At /\ call'[c].shard = call[c].shard + 1
<1> USE CallKinds DEF Typed, StateInv, CallInv, AtShard
<1>1. CASE KeysShard(c) BY <1>1 DEF KeysShard, KeysType
<1>2. CASE SizeShard(c) BY <1>2 DEF SizeShard, SizeType
<1>3. CASE FlushShard(c) BY <1>3 DEF FlushShard, FlushType
<1> QED BY <1>1, <1>2, <1>3

\* A step of Keys lists the steady keys of its shard, every other step leaves
\* the list alone.
LEMMA KeysStep ==
  ASSUME Typed, Typed', SteadyLive, KeysStarted, KeysComplete, Next
  PROVE  KeysComplete'
<1> SUFFICES ASSUME NEW c \in Clients, call'[c].op = "keys",
                    NEW k \in steady'[c], ShardOf[k] < call'[c].shard
             PROVE  call'[c].hits[k] > 0
  BY DEF KeysComplete, Passed
<1>1. k \in Keys /\ ShardOf[k] \in 1..NumShards BY StoreConstants DEF Typed
<1>2. CASE call'[c] = call[c]
  <2>1. k \in Passed(c) BY <1>2, SteadyShrinks DEF Next, Passed
  <2> QED BY <1>2, <2>1 DEF KeysComplete
<1>3. CASE call[c].op = "idle" /\ call'[c].shard = 1 BY <1>1, <1>3, SMT
<1>4. CASE KeysShard(c) \/ SizeShard(c) \/ FlushShard(c)
  <2>1. /\ call[c].op = "keys" /\ call[c].shard \in At
        /\ call'[c].shard = call[c].shard + 1
    BY <1>4, OwnShard
  <2>2. call[c] \in KeysType BY <2>1, CallKinds DEF Typed, StateInv
  <2>3. KeysShard(c) BY <1>4, <2>1 DEF SizeShard, FlushShard, AtShard
  <2>4. call'[c].hits[k] = IF ShardOf[k] = call[c].shard
                           THEN KeyHits(db[k], call[c].start) ELSE call[c].hits[k]
    BY <1>1, <2>2, <2>3 DEF KeysShard, KeysType, Typed, StateInv, CallInv
  <2>5. k \in steady[c] BY <2>1, SteadyShrinks DEF Next
  <2>6. CASE ShardOf[k] = call[c].shard
    <3>1. LiveAt(db[k], now) BY <2>1, <2>5 DEF SteadyLive, Live
    <3>2. call[c].start \in Nat /\ call[c].start <= now
      BY <2>1, <2>2 DEF KeysStarted, KeysType
    <3>3. db[k] \in Slot(Strs, Elements) /\ now \in Nat
      BY <1>1 DEF Typed, StateInv, DbInv, RestInv
    <3> QED BY <2>4, <2>6, <3>1, <3>2, <3>3, LiveHit
  <2>7. CASE ShardOf[k] # call[c].shard
    <3>1. ShardOf[k] < call[c].shard BY <1>1, <2>1, <2>7, SMT DEF At
    <3> QED BY <2>1, <2>4, <2>5, <2>7, <3>1 DEF KeysComplete, Passed
  <2> QED BY <2>6, <2>7
<1> QED BY <1>2, <1>3, <1>4, PassChange

\* A step of FlushAll empties its shard, and nobody else fills a steady key.
LEMMA FlushStep ==
  ASSUME Typed, Typed', FlushComplete, Next
  PROVE  FlushComplete'
<1> SUFFICES ASSUME NEW c \in Clients, call'[c].op = "flush",
                    NEW k \in steady'[c], ShardOf[k] < call'[c].shard
             PROVE  db'[k] = EmptySlot
  BY DEF FlushComplete, Passed
<1>1. k \in Keys /\ ShardOf[k] \in 1..NumShards BY StoreConstants DEF Typed
<1>2. db'[k] \in {db[k], EmptySlot} BY DEF Next, Watch
<1>3. CASE call'[c] = call[c]
  <2>1. k \in Passed(c) BY <1>3, SteadyShrinks DEF Next, Passed
  <2> QED BY <1>2, <1>3, <2>1 DEF FlushComplete
<1>4. CASE call[c].op = "idle" /\ call'[c].shard = 1 BY <1>1, <1>4, SMTT(15)
<1>5. CASE KeysShard(c) \/ SizeShard(c) \/ FlushShard(c)
  <2>1. /\ call[c].op = "flush" /\ call[c].shard \in At
        /\ call'[c].shard = call[c].shard + 1
    BY <1>5, OwnShard
  <2>2. FlushShard(c) BY <1>5, <2>1 DEF KeysShard, SizeShard, AtShard
  <2>3. k \in steady[c] BY <2>1, SteadyShrinks DEF Next
  <2>4. CASE ShardOf[k] = call[c].shard BY <1>1, <2>2, <2>4 DEF FlushShard
  <2>5. CASE ShardOf[k] # call[c].shard
    <3>1. ShardOf[k] < call[c].shard BY <1>1, <2>1, <2>5, SMT DEF At
    <3> QED BY <1>2, <2>1, <2>3, <3>1 DEF FlushComplete, Passed
  <2> QED BY <2>4, <2>5
<1> QED BY <1>3, <1>4, <1>5, PassChange

\* Of two sets, the union has at most as many elements as they have together.
LEMMA UnionSize ==
  ASSUME NEW A, NEW B, IsFiniteSet(A), IsFiniteSet(B)
  PROVE  IsFiniteSet(A \cup B) /\ Cardinality(A \cup B) <= Cardinality(A) + Cardinality(B)
<1>1. IsFiniteSet(A \cap B) BY FS_Intersection
<1>2. /\ Cardinality(A) \in Nat /\ Cardinality(B) \in Nat /\ Cardinality(A \cap B) \in Nat
  BY <1>1, FS_CardinalityType
<1>3. /\ IsFiniteSet(A \cup B)
      /\ Cardinality(A \cup B) = Cardinality(A) + Cardinality(B) - Cardinality(A \cap B)
  BY FS_Union
<1> QED BY <1>2, <1>3, SMT

\* Size counts the live keys of a shard at least once each.
LEMMA LiveCounted ==
  ASSUME NEW s
  PROVE  Cardinality({k \in InShard(s) : Live(k)}) <= ShardSize(s)
<1> DEFINE L == {k \in InShard(s) : Live(k)}
           A == Entries(s, "str")
           B == Entries(s, "list")
           C == Entries(s, "set")
           D == Entries(s, "hash")
<1>1. L \subseteq ((A \cup B) \cup C) \cup D
  BY DEF Live, LiveAt, Present, Entries
<1>2. ShardSize(s) = Cardinality(A) + Cardinality(B) + Cardinality(C) + Cardinality(D)
  BY DEF ShardSize
<1>3. IsFiniteSet(A) /\ IsFiniteSet(B) /\ IsFiniteSet(C) /\ IsFiniteSet(D)
  <2>1. A \subseteq Keys /\ B \subseteq Keys /\ C \subseteq Keys /\ D \subseteq Keys
    BY DEF Entries, InShard
  <2> QED BY <2>1, StoreConstants, FS_Subset
<1> HIDE DEF L, A, B, C, D
<1>4. /\ IsFiniteSet(A \cup B)
      /\ Cardinality(A \cup B) <= Cardinality(A) + Cardinality(B)
  BY <1>3, UnionSize
<1>5. /\ IsFiniteSet((A \cup B) \cup C)
      /\ Cardinality((A \cup B) \cup C) <= Cardinality(A \cup B) + Cardinality(C)
  BY <1>3, <1>4, UnionSize
<1>6. /\ IsFiniteSet(((A \cup B) \cup C) \cup D)
      /\ Cardinality(((A \cup B) \cup C) \cup D)
           <= Cardinality((A \cup B) \cup C) + Cardinality(D)
  BY <1>3, <1>5, UnionSize
<1>7. IsFiniteSet(L) /\ Cardinality(L) <= Cardinality(((A \cup B) \cup C) \cup D)
  BY <1>1, <1>6, FS_Subset
<1>8. /\ Cardinality(A) \in Nat /\ Cardinality(B) \in Nat /\ Cardinality(C) \in Nat
      /\ Cardinality(D) \in Nat /\ Cardinality(A \cup B) \in Nat
      /\ Cardinality((A \cup B) \cup C) \in Nat
      /\ Cardinality(((A \cup B) \cup C) \cup D) \in Nat /\ Cardinality(L) \in Nat
  BY <1>3, <1>4, <1>5, <1>6, <1>7, FS_CardinalityType
<1>9. Cardinality(L) <= ShardSize(s) BY <1>2, <1>4, <1>5, <1>6, <1>7, <1>8, SMTT(15)
<1> QED BY <1>9 DEF L

\* A step of Size adds at least the number of steady keys of its shard.
LEMMA SizeStep ==
  ASSUME Typed, Typed', SteadyLive, SizeComplete, Next
  PROVE  SizeComplete'
<1> SUFFICES ASSUME NEW c \in Clients, call'[c].op = "size"
             PROVE  call'[c].total >= Cardinality(Passed(c)')
  BY DEF SizeComplete
<1>1. steady[c] \subseteq Keys /\ steady'[c] \subseteq Keys BY DEF Typed
<1>2. \A k \in Keys : ShardOf[k] \in 1..NumShards BY StoreConstants
<1>3. Passed(c)' = {k \in steady'[c] : ShardOf[k] < call'[c].shard} BY DEF Passed
<1>4. IsFiniteSet(Passed(c)) BY <1>1, StoreConstants, FS_Subset DEF Passed
<1>5. Cardinality(Passed(c)) \in Nat BY <1>4, FS_CardinalityType
<1>6. CASE call'[c] = call[c]
  <2>1. Passed(c)' \subseteq Passed(c) BY <1>3, <1>6, SteadyShrinks DEF Next, Passed
  <2>2. IsFiniteSet(Passed(c)') /\ Cardinality(Passed(c)') <= Cardinality(Passed(c))
    BY <1>4, <2>1, FS_Subset
  <2>3. Cardinality(Passed(c)') \in Nat BY <2>2, FS_CardinalityType
  <2>4. call[c].total \in Nat /\ call[c].total >= Cardinality(Passed(c))
    BY <1>6, CallKinds DEF Typed, StateInv, SizeType, SizeComplete
  <2> QED BY <1>5, <1>6, <2>2, <2>3, <2>4, SMT
<1>7. CASE call[c].op = "idle" /\ call'[c].shard = 1 /\ call'[c].total = 0
  <2>1. Passed(c)' = {} BY <1>1, <1>2, <1>3, <1>7, SMT
  <2> QED BY <1>7, <2>1, FS_EmptySet, SMT
<1>8. CASE KeysShard(c) \/ SizeShard(c) \/ FlushShard(c)
  <2> DEFINE s == call[c].shard
             L == {k \in InShard(s) : Live(k)}
  <2>1. call[c].op = "size" /\ s \in At /\ call'[c].shard = s + 1
    BY <1>8, OwnShard
  <2>2. call[c] \in SizeType BY <2>1, CallKinds DEF Typed, StateInv
  <2>3. SizeShard(c) BY <1>8, <2>1 DEF KeysShard, FlushShard, AtShard
  <2>4. call'[c].total = call[c].total + ShardSize(s)
    BY <2>2, <2>3 DEF SizeShard, SizeType, Typed, StateInv, CallInv
  <2>5. Passed(c)' \subseteq Passed(c) \cup L
    <3> SUFFICES ASSUME NEW k \in steady'[c], ShardOf[k] < s + 1, ShardOf[k] # s
                 PROVE  k \in steady[c] /\ ShardOf[k] < s
      BY <1>1, <1>3, <2>1, SteadyShrinks DEF Next, Passed, SteadyLive, InShard
    <3> QED BY <1>1, <1>2, <2>1, SteadyShrinks, SMTT(15) DEF Next, At
  <2>6. IsFiniteSet(L) BY StoreConstants, FS_Subset DEF InShard
  <2>7. Cardinality(L) <= ShardSize(s) BY LiveCounted
  <2>8. ShardSize(s) \in Nat BY CountsNat
  <2>9. call[c].total \in Nat /\ call[c].total >= Cardinality(Passed(c))
    BY <2>1, <2>2 DEF SizeType, SizeComplete
  <2> HIDE DEF L, s
  <2>10. /\ IsFiniteSet(Passed(c) \cup L)
         /\ Cardinality(Passed(c) \cup L) <= Cardinality(Passed(c)) + Cardinality(L)
    BY <1>4, <2>6, UnionSize
  <2>11. /\ IsFiniteSet(Passed(c)')
         /\ Cardinality(Passed(c)') <= Cardinality(Passed(c) \cup L)
    BY <2>5, <2>10, FS_Subset
  <2>12. /\ Cardinality(Passed(c)') \in Nat /\ Cardinality(L) \in Nat
         /\ Cardinality(Passed(c) \cup L) \in Nat
    BY <2>6, <2>10, <2>11, FS_CardinalityType
  <2> QED BY <1>5, <2>4, <2>7, <2>8, <2>9, <2>10, <2>11, <2>12, SMTT(15)
<1> QED BY <1>6, <1>7, <1>8, PassChange

\* The passes have what they need in every state: steady keys are live during
\* Keys and Size, Keys compares deadlines with a time that is not in the
\* future, and what lies behind a pass has been listed, counted or cleared.
PassInv == SteadyLive /\ KeysStarted /\ KeysComplete /\ SizeComplete /\ FlushComplete

\* Every behaviour keeps the invariant of Keys, Size and FlushAll.
LEMMA PassAlways == Spec => []PassInv
<1>1. Init => PassInv
  BY SMTT(15) DEF Init, Idle, PassInv, SteadyLive, KeysStarted, KeysComplete, SizeComplete, FlushComplete
<1>2. ASSUME Typed, Typed', PassInv, [Next]_vars PROVE PassInv'
  <2>1. CASE Next
    BY <1>2, <2>1, SteadyLiveStep, KeysStartedStep, KeysStep, SizeStep, FlushStep
       DEF PassInv, Next
  <2>2. CASE UNCHANGED vars
    BY <1>2, <2>2 DEF vars, PassInv, SteadyLive, Live, KeysStarted, KeysComplete, SizeComplete,
                      FlushComplete, Passed
  <2> QED BY <1>2, <2>1, <2>2
<1> QED BY <1>1, <1>2, TypedAlways, PTL DEF Spec

\* Keys misses no key that is live from its beginning to its end, whatever
\* the number of shards, callers and writers that work on the shards before and behind the pass.
THEOREM KeysMissNothing == Spec => []KeysComplete
BY PassAlways, PTL DEF PassInv

\* Size counts every key that is live from its beginning to its end.
THEOREM SizeMissesNothing == Spec => []SizeComplete
BY PassAlways, PTL DEF PassInv

\* FlushAll leaves nothing, and no deadline, of a key that nobody else writes
\* while it goes through the shards.
THEOREM FlushLeavesNothing == Spec => []FlushComplete
BY PassAlways, PTL DEF PassInv
-----------------------------------------------------------------------------
(***************************************************************************)
(* What a step may do to an expired key.                                   *)
(***************************************************************************)
\* The writes of collections and counters leave the deadline as it is.
LEMMA DeadlineKept ==
  ASSUME NEW e \in Slot(Strs, Elements)
  PROVE  /\ IncrOp(e).exp = e.exp /\ DecrOp(e).exp = e.exp
         /\ LPopOp(e).exp = e.exp /\ RPopOp(e).exp = e.exp
         /\ \A x : /\ LPushOp(e, x).exp = e.exp /\ RPushOp(e, x).exp = e.exp
                  /\ SAddOp(e, x).exp = e.exp /\ SRemOp(e, x).exp = e.exp
                  /\ SPopOp(e, x).exp = e.exp
                  /\ HMSetOp(e, x).exp = e.exp /\ HDelOp(e, x).exp = e.exp
<1> USE DEF Slot
<1>1. \A d : AddOp(e, d).exp = e.exp BY DEF AddOp
<1>2. LPopOp(e).exp = e.exp /\ RPopOp(e).exp = e.exp BY DEF LPopOp, RPopOp, StoreList
<1>3. \A x : LPushOp(e, x).exp = e.exp /\ RPushOp(e, x).exp = e.exp BY DEF LPushOp, RPushOp
<1>4. \A x : SAddOp(e, x).exp = e.exp /\ SRemOp(e, x).exp = e.exp /\ SPopOp(e, x).exp = e.exp
  BY DEF SAddOp, SRemOp, SPopOp, StoreSet
<1>5. \A x : HMSetOp(e, x).exp = e.exp /\ HDelOp(e, x).exp = e.exp BY DEF HMSetOp, HDelOp
<1> QED BY <1>1, <1>2, <1>3, <1>4, <1>5 DEF IncrOp, DecrOp

\* Of all writes under one lock, only Set, Expire and Persist can end a
\* deadline and leave a value.
LEMMA WriteRevives ==
  ASSUME Typed, NEW k \in Keys, NEW j \in Keys, Write(j), Expired(k), LiveAt(db'[k], now')
  PROVE  Set(k) \/ Expire(k) \/ Persist(k)
<1> USE DEF Update
<1>1. db \in [Keys -> Slot(Strs, Elements)] BY DEF Typed, StateInv, DbInv
<1>2. now' = now
  BY DEF Write, Set, Del, Expire, Persist, Incr, Decr, LPush, RPush, LPop, RPop,
         SAdd, SRem, SPop, HSet, HMSet, HDel
<1>3. ASSUME NEW slot, Update(j, slot), slot.exp = db[j].exp PROVE FALSE
  BY <1>1, <1>2, <1>3 DEF Expired, LiveAt, ExpiredAt
<1>4. CASE Del(j)
  <2>1. db'[k] = db[k] \/ db'[k] = EmptySlot BY <1>1, <1>4 DEF Del, DelOp
  <2> QED BY <1>2, <2>1, SMTT(15) DEF Expired, LiveAt, ExpiredAt, Present, EmptySlot
<1>5. CASE Set(j) \/ Expire(j) \/ Persist(j)
  <2>1. CASE j = k BY <1>5, <2>1
  <2>2. CASE j # k
    <3>1. db'[k] = db[k] BY <1>1, <1>5, <2>2 DEF Set, Expire, Persist
    <3> QED BY <1>2, <3>1 DEF Expired, LiveAt
  <2> QED BY <2>1, <2>2
<1> HIDE DEF Update
<1>6. db[j] \in Slot(Strs, Elements) BY <1>1
<1>7. CASE Incr(j) \/ Decr(j) \/ LPop(j) \/ RPop(j)
  BY <1>3, <1>6, <1>7, DeadlineKept DEF Incr, Decr, LPop, RPop
<1>8. CASE LPush(j) \/ RPush(j)
  BY <1>3, <1>6, <1>8, DeadlineKept DEF LPush, RPush
<1>9. CASE SAdd(j) \/ SRem(j) \/ SPop(j)
  BY <1>3, <1>6, <1>9, DeadlineKept DEF SAdd, SRem, SPop
<1>10. CASE HSet(j) \/ HMSet(j) \/ HDel(j)
  BY <1>3, <1>6, <1>10, DeadlineKept DEF HSet, HSetOp, HMSet, HDel
<1> QED BY <1>4, <1>5, <1>7, <1>8, <1>9, <1>10 DEF Write

\* An expired key comes back to life only by Set, Expire, Persist, or a Get
\* that drops the deadline shared with a collection under the same key.
THEOREM RevivedOnlyByThese == Spec => RevivedOnlyBy
<1> DEFINE P(k) == Present(db[k]) /\ Expired(k) /\ LiveAt(db'[k], now') =>
                     \/ Set(k) \/ Expire(k) \/ Persist(k)
                     \/ \E c \in Clients : GetDelete(c) /\ call[c].key = k
<1>1. ASSUME Typed, [Next]_vars, NEW k \in Keys, Expired(k), LiveAt(db'[k], now')
      PROVE  \/ Set(k) \/ Expire(k) \/ Persist(k)
             \/ \E c \in Clients : GetDelete(c) /\ call[c].key = k
  <2>1. db \in [Keys -> Slot(Strs, Elements)] /\ now \in Nat
    BY <1>1 DEF Typed, StateInv, DbInv, RestInv
  <2>2. db[k].exp \in {Never} \cup Int BY <2>1 DEF Slot
  <2>3. now' \in Nat /\ now <= now' BY <1>1, <2>1, NowGrows, SMT DEF vars
  <2>4. ASSUME db'[k] = db[k] \/ db'[k] = EmptySlot PROVE FALSE
    <3>1. ExpiredAt(db[k], now') BY <1>1, <2>1, <2>2, <2>3, SMT DEF Expired, ExpiredAt
    <3>2. ~Present(EmptySlot) BY DEF Present, EmptySlot
    <3> QED BY <1>1, <2>4, <3>1, <3>2 DEF LiveAt
  <2>5. CASE \E j \in Keys : Write(j) BY <1>1, <2>5, WriteRevives
  <2>6. ASSUME NEW c \in Clients, CallStep(c)
        PROVE  \E d \in Clients : GetDelete(d) /\ call[d].key = k
    <3>1. CASE GetDelete(c)
      <4>1. call[c].key # k => db'[k] = db[k] BY <2>1, <3>1 DEF GetDelete
      <4> QED BY <2>4, <3>1, <4>1
    <3>2. CASE ExistsDelete(c) \/ FlushShard(c)
      BY <2>1, <2>4, <3>2 DEF ExistsDelete, Evict, FlushShard
    <3>3. CASE UNCHANGED db BY <2>4, <3>3
    <3> QED
      BY <2>6, <3>1, <3>2, <3>3
         DEF CallStep, Get, GetReturn, Exists, ExistsReturn, KeysBegin, SizeBegin, FlushBegin,
             BeginPass, KeysShard, SizeShard, PassReturn
  <2>7. CASE Sweep BY <2>4, <2>7 DEF Sweep, Evict
  <2>8. CASE UNCHANGED db BY <2>4, <2>8
  <2> QED
    BY <1>1, <2>5, <2>6, <2>7, <2>8
       DEF Next, vars, Tick, Read, TTL, ListRead, SetRead, SRandMember, HGet, HashRead, HMGet, Show
<1>2. Typed /\ [Next]_vars => \A k \in Keys : P(k) BY <1>1
<1> QED BY <1>2, TypedAlways, PTL DEF Spec, RevivedOnlyBy

\* The sweeper, and an Exists that saw an expired key, never remove a key that
\* has been written or given a new deadline in the meantime.
THEOREM EvictedWhenExpired == Spec => OnlyExpiredEvicted
<1>1. ASSUME Typed, Sweep \/ (\E c \in Clients : ExistsDelete(c)),
             NEW k \in Keys, db'[k] # db[k]
      PROVE  Expired(k)
  <2>1. db \in [Keys -> Slot(Strs, Elements)] BY <1>1 DEF Typed, StateInv, DbInv
  <2>2. CASE Sweep BY <1>1, <2>1, <2>2 DEF Sweep
  <2>3. CASE \E c \in Clients : ExistsDelete(c)
    BY <1>1, <2>1, <2>3 DEF ExistsDelete, Expired
  <2> QED BY <1>1, <2>2, <2>3
<1>2. Typed => ((\E k \in Keys : db'[k] # db[k] /\ ~Expired(k)) =>
                  ~(Sweep \/ \E c \in Clients : ExistsDelete(c)))
  BY <1>1
<1> QED BY <1>2, TypedAlways, PTL DEF Spec, OnlyExpiredEvicted
=============================================================================
