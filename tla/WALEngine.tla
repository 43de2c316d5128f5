----------------------------- MODULE WALEngine ------------------------------
(***************************************************************************)
(* engine/wal_engine.go: every write is one or more records for the log    *)
(* and one change of the memory store, in an order that depends on the     *)
(* operation.  The log is taken at its promise (DurableLog): records enter *)
(* it one after the other and stay.  What counts of it is what a restart   *)
(* would rebuild, so the variable rebuilt holds the contents of memory     *)
(* that a replay of the log could end with, several because replaying an   *)
(* SPOP removes an arbitrary member.                                       *)
(***************************************************************************)
EXTENDS StoreOps, FiniteSets

CONSTANTS
  Keys, Clients,
  Loads,      \* mixes of operations that clients use, on each key
  Strings,    \* values for Set
  Elements,   \* list elements, set members, hash fields and values
  MaxLen,     \* bound: length of a list
  Faults      \* "logErr": an append may fail; "crash": the process may die

ASSUME WALEngineConstants ==
  /\ \A load \in Loads : DOMAIN load = Keys
  /\ MaxLen \in Nat
  /\ Faults \subseteq {"logErr", "crash"}

VARIABLES
  load,      \* the mix in use
  db,        \* the memory store, MemoryEngine
  rebuilt,   \* the stores that replaying the log could give
  call,      \* the operation each client is in
  spoiled    \* keys that something happened to which the log does not cover

vars == <<load, db, rebuilt, call, spoiled>>

Idle == [op |-> "idle"]

\* A record of the log, and what is left to do of an operation: the records
\* still to be written and whether memory has been changed.
Rec(op, k, args) == [op |-> op, key |-> k, args |-> args]

On(cl, k) == cl.op # "idle" /\ cl.key \in {k, "every key"}
Busy(k) == \E c \in Clients : On(call[c], k)

Elems(s) == {s[i] : i \in DOMAIN s}

\* What an operation may make of a slot, in memory and in a replay.
Effect(op, e, args) ==
  CASE op = "Set" -> {SetOp(e, args[1])}
    [] op = "Del" -> {DelOp(e)}
    [] op = "Incr" -> {IncrOp(e)}
    [] op = "Decr" -> {DecrOp(e)}
    [] op = "LPush" -> {LPushOp(e, args)}
    [] op = "RPush" -> {RPushOp(e, args)}
    [] op = "LPop" -> {LPopOp(e)}
    [] op = "RPop" -> {RPopOp(e)}
    [] op = "SAdd" -> {SAddOp(e, Elems(args))}
    [] op = "SRem" -> {SRemOp(e, Elems(args))}
    [] op = "SPop" -> IF e.set = Absent THEN {e} ELSE {SPopOp(e, m) : m \in e.set}
    [] op = "HSet" -> {HSetOp(e, args[1], args[2])}
    [] op = "HDel" -> {HDelOp(e, Elems(args))}
    [] op = "HMSet" -> {HMSetOp(e, [f \in {p[1] : p \in Elems(args)} |->
                                      (CHOOSE p \in Elems(args) : p[1] = f)[2]])}

\* replaySegment's switch: the stores that a record makes of a store.
ReplayRecord(d, r) ==
  IF r.op = "FlushAll" THEN {[k \in Keys |-> EmptySlot]}
  ELSE {[d EXCEPT ![r.key] = e] : e \in Effect(r.op, d[r.key], r.args)}

Appended(r) == UNION {ReplayRecord(d, r) : d \in rebuilt}
-----------------------------------------------------------------------------
Init ==
  /\ load \in Loads
  /\ db = [k \in Keys |-> EmptySlot]
  /\ rebuilt = {db}
  /\ call = [c \in Clients |-> Idle]
  /\ spoiled = {}

May(c, op, k) == call[c].op = "idle" /\ op \in load[k]

\* An operation that logs first: its records, then its change of memory.
LogFirst(c, op, k, args, records) ==
  /\ May(c, op, k)
  /\ call' = [call EXCEPT ![c] =
       [op |-> op, key |-> k, args |-> args, todo |-> records, mem |-> "pending"]]
  /\ UNCHANGED <<db, rebuilt>>

Single(c, op, k, args) == LogFirst(c, op, k, args, <<Rec(op, k, args)>>)

\* One record for each of several values.
Each(c, op, k, vs) ==
  LogFirst(c, op, k, vs, [i \in DOMAIN vs |-> Rec(op, k, <<vs[i]>>)])

Several == UNION {[1..n -> Elements] : n \in 1..2}
Fits(k, vs) == \A d \in rebuilt \cup {db} : Len(ListOf(d[k])) + Len(vs) <= MaxLen

Set(c, k) == \E v \in Strings : Single(c, "Set", k, <<v>>)
Del(c, k) == Single(c, "Del", k, << >>)
Incr(c, k) == Single(c, "Incr", k, << >>)
Decr(c, k) == Single(c, "Decr", k, << >>)
LPush(c, k) == \E vs \in Several : Fits(k, vs) /\ Each(c, "LPush", k, vs)
RPush(c, k) == \E vs \in Several : Fits(k, vs) /\ Each(c, "RPush", k, vs)
SAdd(c, k) == \E ms \in Several : Each(c, "SAdd", k, ms)
SRem(c, k) == \E ms \in Several : Each(c, "SRem", k, ms)
HSet(c, k) == \E f, v \in Elements : Single(c, "HSet", k, <<f, v>>)
HDel(c, k) == \E fs \in Several : Each(c, "HDel", k, fs)

\* HMSet logs an HSET for every field, in the order of a map iteration.
FieldValues == [1..1 -> Elements \X Elements]
  \cup {s \in [1..2 -> Elements \X Elements] : s[1][1] # s[2][1]}
HMSet(c, k) ==
  \E fv \in FieldValues :
    LogFirst(c, "HMSet", k, fv, [i \in DOMAIN fv |-> Rec("HSet", k, fv[i])])

FlushAll(c) ==
  /\ \E k \in Keys : May(c, "FlushAll", k)
  /\ call' = [call EXCEPT ![c] =
       [op |-> "FlushAll", key |-> "every key", args |-> Keys,
        todo |-> <<Rec("FlushAll", "every key", << >>)>>, mem |-> "pending"]]
  /\ UNCHANGED <<db, rebuilt>>

\* The pops change memory first and log what they did.
MemoryFirst(c, op, k) ==
  /\ May(c, op, k)
  /\ \E e \in Effect(op, db[k], << >>) : e # db[k] /\ db' = [db EXCEPT ![k] = e]
  /\ call' = [call EXCEPT ![c] =
       [op |-> op, key |-> k, args |-> << >>, todo |-> <<Rec(op, k, << >>)>>,
        mem |-> "done"]]
  /\ UNCHANGED rebuilt

LPop(c, k) == MemoryFirst(c, "LPop", k)
RPop(c, k) == MemoryFirst(c, "RPop", k)
SPop(c, k) == MemoryFirst(c, "SPop", k)

\* Expire, Persist and the sweeper change memory and log nothing.  A deadline
\* is 0 here, and may pass at any time.
Expire(c, k) ==
  /\ May(c, "Expire", k)
  /\ db' = [db EXCEPT ![k] = ExpireOp(@, 0)]
  /\ UNCHANGED <<rebuilt, call>>
Persist(c, k) ==
  /\ May(c, "Expire", k)
  /\ db' = [db EXCEPT ![k] = PersistOp(@)]
  /\ UNCHANGED <<rebuilt, call>>
Sweep(k) ==
  /\ db[k].exp # Never
  /\ db' = [db EXCEPT ![k] = Evict(@)]
  /\ UNCHANGED <<rebuilt, call>>
-----------------------------------------------------------------------------
\* Faulty variant: a pop goes on to change memory after logging, like a push.
WrittenNotDone(c) == call' = [call EXCEPT ![c].todo = Tail(@)]

\* The record is out of the way; a pop has nothing more to do.
Written(c) ==
  call' = [call EXCEPT ![c] =
    IF Len(@.todo) = 1 /\ @.mem = "done" THEN Idle ELSE [@ EXCEPT !.todo = Tail(@)]]

\* wal.Write returns nil.
Log(c) ==
  /\ call[c].op # "idle" /\ call[c].todo # << >>
  /\ rebuilt' = Appended(Head(call[c].todo))
  /\ Written(c)
  /\ UNCHANGED db

\* wal.Write returns an error; the record may be in the log all the same.
\* Set, Del, Incr and Decr give up, the others print the error and go on.
LogFail(c) ==
  /\ "logErr" \in Faults
  /\ call[c].op # "idle" /\ call[c].todo # << >>
  /\ rebuilt' \in {rebuilt, Appended(Head(call[c].todo))}
  /\ IF call[c].op \in {"Set", "Del", "Incr", "Decr"}
     THEN call' = [call EXCEPT ![c] = Idle]
     ELSE Written(c)
  /\ UNCHANGED db

\* Faulty variant: memory is changed as soon as the first record is logged.
ApplyEarly(c) ==
  /\ call[c].op \notin {"idle", "FlushAll"} /\ call[c].mem = "pending"
  /\ Len(call[c].todo) < Len(call[c].args)
  /\ \E e \in Effect(call[c].op, db[call[c].key], call[c].args) :
       db' = [db EXCEPT ![call[c].key] = e]
  /\ call' = [call EXCEPT ![c] = Idle]
  /\ UNCHANGED rebuilt

\* All records are written: the operation changes memory and returns.
Apply(c) ==
  /\ call[c].op \notin {"idle", "FlushAll"} /\ call[c].todo = << >>
  /\ \E e \in Effect(call[c].op, db[call[c].key], call[c].args) :
       db' = [db EXCEPT ![call[c].key] = e]
  /\ call' = [call EXCEPT ![c] = Idle]
  /\ UNCHANGED rebuilt

\* FlushAll empties one shard after the other; the keys may be in any.
ApplyFlush(c) ==
  /\ call[c].op = "FlushAll" /\ call[c].todo = << >>
  /\ \E k \in call[c].args :
       /\ db' = [db EXCEPT ![k] = EmptySlot]
       /\ call' = [call EXCEPT ![c] = IF @.args = {k} THEN Idle
                                      ELSE [@ EXCEPT !.args = @ \ {k}]]
  /\ UNCHANGED rebuilt

\* The process dies and NewWALEngine replays the log into an empty store.
Restart ==
  /\ "crash" \in Faults
  /\ db' \in rebuilt
  /\ call' = [c \in Clients |-> Idle]
  /\ UNCHANGED rebuilt

KeyOp(c, k) ==
  \/ Set(c, k) \/ Del(c, k) \/ Incr(c, k) \/ Decr(c, k)
  \/ LPush(c, k) \/ RPush(c, k) \/ LPop(c, k) \/ RPop(c, k)
  \/ SAdd(c, k) \/ SRem(c, k) \/ SPop(c, k)
  \/ HSet(c, k) \/ HMSet(c, k) \/ HDel(c, k)
  \/ Expire(c, k) \/ Persist(c, k)

\* Bookkeeping for UnspoiledRestored: a step spoils a key if two operations
\* that do not commute are now at work on it, if a record of it failed and is
\* missing from the log or its change from memory, or if replay cannot repeat
\* the step: a deadline, an SPop that had a choice, an LPush of several values.
Commute == {{"Incr"}, {"Decr"}, {"Incr", "Decr"}, {"SAdd"}}
Overlap(k) ==
  \E c, d \in Clients : /\ c # d /\ On(call'[c], k) /\ On(call'[d], k)
                        /\ {call'[c].op, call'[d].op} \notin Commute
Unrepeatable(k) ==
  \/ db'[k].exp # Never
  \/ \E c \in Clients :
       /\ On(call'[c], k)
       /\ \/ call'[c].op = "SPop" /\ db'[k].set # Absent
          \/ call'[c].op = "LPush" /\ Len(call'[c].args) > 1
Watch ==
  spoiled' = spoiled \cup
    {k \in Keys : Overlap(k) \/ Unrepeatable(k)
                    \/ \E c \in Clients : LogFail(c) /\ ~Log(c) /\ On(call[c], k)}

Step ==
  \/ \E c \in Clients : \/ \E k \in Keys : KeyOp(c, k)
                        \/ FlushAll(c) \/ Log(c) \/ LogFail(c)
                        \/ Apply(c) \/ ApplyFlush(c)
  \/ \E k \in Keys : Sweep(k)
  \/ Restart

Next == Step /\ Watch /\ UNCHANGED load

Spec == Init /\ [][Next]_vars
-----------------------------------------------------------------------------
\* An operation in progress has records of its own key to write or memory to
\* change, never neither: a pop's record is outstanding until it returns.
CallType(cl) ==
  \/ cl = Idle
  \/ /\ cl.key \in Keys \cup {"every key"}
     /\ \A i \in 1..Len(cl.todo) : cl.todo[i].key = cl.key
     /\ cl.mem = "pending" \/ (cl.mem = "done" /\ Len(cl.todo) = 1)

TypeOK ==
  /\ \A c \in Clients : CallType(call[c])
  /\ \A d \in rebuilt \cup {db} : d \in [Keys -> Slot(Strs, Elements)]
  /\ spoiled \subseteq Keys

\* "On restart the WAL is replayed to rebuild state": a restart gives every key
\* that no operation is at work on the value it had in memory.
RestartRestores ==
  [][Restart => \A k \in Keys : Busy(k) \/ db'[k] = db[k]]_vars

\* The same for the keys to which none of the things listed at Watch ever
\* happened, whatever happens to other keys: crashes and failed appends in the
\* middle of other operations, and operations that log after or not at all.
UnspoiledRestored ==
  [][Restart => \A k \in Keys \ spoiled : Busy(k) \/ db'[k] = db[k]]_vars
=============================================================================
