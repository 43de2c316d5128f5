------------------------------ MODULE Commands ------------------------------
(***************************************************************************)
(* core/commands/commands.go: what Handle does with a command on keys.  A  *)
(* command is a sequence of calls of the storage engine, each a step here  *)
(* (WALEngine and Store look inside), and nothing holds a lock from one    *)
(* call to the next, so the commands of other clients come in between.     *)
(* The engine refuses Set, Del, Incr or Decr when their record cannot be   *)
(* logged; some commands look at that error and some do not.               *)
(*                                                                         *)
(* Commands on the whole database (KEYS, RANDOMKEY, DBSIZE, FLUSHALL) are  *)
(* one call each, which Store models; PING, INFO and CONFIG are in Server. *)
(***************************************************************************)
EXTENDS StoreOps, ListRange, FiniteSets

CONSTANTS
  Keys, Clients,
  Words,        \* what a command's other arguments may be
  Requests,     \* the commands that each client may send
  Contents,     \* databases to begin with
  Faults,       \* "refuse": a record may fail to be logged
  MaxTime       \* bound: ticks of the clock

ASSUME CommandsConstants ==
  /\ MaxTime \in Nat
  /\ Faults \subseteq {"refuse"}

VARIABLES
  db, now,      \* the engine's keys and the clock
  call,         \* each client's command: how far it is, or its answer
  watch         \* for each command: the database when it began, whether it was
                \* left alone, its effects, and the keys that existed all along

vars == <<db, now, call, watch>>

\* Replies.
OK == [status |-> "OK"]
Err == [error |-> "ERR"]
Null == [null |-> "nil"]
Num(n) == [int |-> n]
Bulk(v) == [bulk |-> v]
Array(vs) == [array |-> vs]

\* Strings are those of StoreOps, one character each but for a sign, and what
\* APPEND joins from them; it is given texts here, so the result is a text.
Pieces(s) == IF "pieces" \in DOMAIN s THEN s.pieces ELSE <<s>>
Join(s, t) == [form |-> "text", n |-> 0, pieces |-> Pieces(s) \o Pieces(t)]
EmptyText == [form |-> "text", n |-> 0, pieces |-> << >>]
Length(s) ==
  LET ps == Pieces(s)
  IN Len(ps) + Cardinality({i \in DOMAIN ps : ps[i].n < 0})
NotInt(s) == s.form = "text"

\* The strings: those that Atoi reads fit an int, the others are texts.
Plain == [form : {"canonical", "padded", "text"}, n : -MaxInt - 1..MaxInt]
Values == Plain \cup [form : {"text"}, n : {0}, pieces : Seq(Plain)]
-----------------------------------------------------------------------------
(***************************************************************************)
(* Calls of the engine: what becomes of the slot, and what is returned.    *)
(***************************************************************************)
Outcome(slot, ret, val) == [slot |-> slot, ret |-> ret, val |-> val]
Refusal(e) == IF "refuse" \in Faults THEN {Outcome(e, "refused", 0)} ELSE {}

SetCall(e, v) == {Outcome(SetOp(e, v), "ok", 0)} \cup Refusal(e)
\* Faulty variant: only a string counts as deleted.
DelCallStrings(e) ==
  {Outcome(DelOp(e), IF e.str # Absent THEN "ok" ELSE "missing", 0)} \cup Refusal(e)
DelCall(e) ==
  {Outcome(DelOp(e), IF Present(e) THEN "ok" ELSE "missing", 0)} \cup Refusal(e)
AddCall(e, d) ==
  LET f == AddOp(e, d)
  IN {IF e.str # Absent /\ NotInt(e.str)
      THEN Outcome(e, "notint", 0) ELSE Outcome(f, "ok", f.str.n)} \cup Refusal(e)

GetCall(e) ==
  IF e.str = Absent THEN Outcome(e, "missing", 0)
  ELSE IF ExpiredAt(e, now) THEN Outcome(GetEvict(e), "missing", 0)
  ELSE Outcome(e, "ok", e.str)
ExistsCall(e) ==
  IF ~Present(e) THEN Outcome(e, "missing", 0)
  ELSE IF ExpiredAt(e, now) THEN Outcome(Evict(e), "missing", 0)
  ELSE Outcome(e, "ok", 0)
-----------------------------------------------------------------------------
(***************************************************************************)
(* Commands of one call, by the kind of value: the slot and the reply.     *)
(***************************************************************************)
Does(slot, reply) == [slot |-> slot, ret |-> "ok", reply |-> reply]
Says(o, reply) == [slot |-> o.slot, ret |-> o.ret, reply |-> reply]

\* The clock ticks twice a second, so that a deadline may be a part of a second
\* away; TTL answers in whole seconds.
Second == 2

Remaining(e) ==
  IF ~Present(e) THEN -2
  ELSE IF e.exp = Never THEN -1
  ELSE IF e.exp - now <= 0 THEN -2 ELSE (e.exp - now) \div Second

StringCommand(r, e) ==
  LET got == GetCall(e)
  IN CASE r.name = "SET" -> {Says(o, OK) : o \in SetCall(e, r.args[2])}
       [] r.name = "GET" -> {Says(got, IF got.ret = "ok" THEN Bulk(got.val) ELSE Null)}

CountCommand(r, e) ==
  CASE r.name = "EXISTS" ->
         {Says(ExistsCall(e), Num(IF ExistsCall(e).ret = "ok" THEN 1 ELSE 0))}
    [] r.name \in {"INCR", "DECR"} ->
         {Says(o, IF o.ret = "ok" THEN Num(o.val) ELSE Err) :
            o \in AddCall(e, IF r.name = "INCR" THEN 1 ELSE -1)}

DeadlineCommand(r, e) ==
  CASE r.name = "EXPIRE" ->
         {Does(ExpireOp(e, now + r.args[2].n * Second), Num(IF Present(e) THEN 1 ELSE 0))}
    [] r.name = "TTL" -> {Does(e, Num(Remaining(e)))}
    [] r.name = "PERSIST" -> {Does(PersistOp(e), Num(IF Present(e) THEN 1 ELSE 0))}

StrlenCommand(e) ==
  LET got == GetCall(e)
  IN {Says(got, Num(IF got.ret = "ok" THEN Length(got.val) ELSE 0))}

\* The first element of a sequence, if there is one.
FirstOr(s, reply) == IF s = << >> THEN reply ELSE Bulk(s[1])

ListCommand(r, e) ==
  LET l == ListOf(e)
      vs == Tail(r.args)
  IN CASE r.name = "LPUSH" -> {Does(LPushOp(e, vs), Num(Len(l) + Len(vs)))}
       [] r.name = "RPUSH" -> {Does(RPushOp(e, vs), Num(Len(l) + Len(vs)))}
       [] r.name = "LPOP" -> {Does(LPopOp(e), FirstOr(l, Null))}
       [] r.name = "RPOP" -> {Does(RPopOp(e), FirstOr(LIndex(l, -1), Null))}
       [] r.name = "LLEN" -> {Does(e, Num(Len(l)))}
       [] r.name = "LRANGE" -> {Does(e, Array(LRange(l, r.args[2].n, r.args[3].n)))}
       [] r.name = "LINDEX" -> {Does(e, FirstOr(LIndex(l, r.args[2].n), Null))}

\* Members and fields come in whatever order a map yields: arrays of them are
\* sets here.
SetCommand(r, e) ==
  LET S == SetOf(e)
      ms == {r.args[i] : i \in 2..Len(r.args)}
  IN CASE r.name = "SADD" -> {Does(SAddOp(e, ms), Num(Cardinality(ms \ S)))}
       [] r.name = "SREM" -> {Does(SRemOp(e, ms), Num(Cardinality(ms \cap S)))}
       [] r.name = "SMEMBERS" -> {Does(e, Array(S))}
       [] r.name = "SISMEMBER" -> {Does(e, Num(IF r.args[2] \in S THEN 1 ELSE 0))}
       [] r.name = "SCARD" -> {Does(e, Num(Cardinality(S)))}
       [] r.name = "SPOP" ->
            IF S = {} THEN {Does(e, Null)} ELSE {Does(SPopOp(e, m), Bulk(m)) : m \in S}
       [] r.name = "SRANDMEMBER" ->
            IF S = {} THEN {Does(e, Null)} ELSE {Does(e, Bulk(m)) : m \in S}

\* field value [field value ...] from position i on, the last one of a field.
Assigned(args, i) ==
  LET at == {j \in i..Len(args) : (j - i) % 2 = 0}
      final(f) == CHOOSE j \in at : args[j] = f /\ \A l \in at : args[l] = f => l <= j
  IN [f \in {args[j] : j \in at} |-> args[final(f) + 1]]

HashCommand(r, e) ==
  LET h == HashOf(e)
      fs == {r.args[i] : i \in 2..Len(r.args)}
      value(f, otherwise) == IF f \in DOMAIN h THEN h[f] ELSE otherwise
  IN CASE r.name = "HGET" ->
            {Does(e, IF r.args[2] \in DOMAIN h THEN Bulk(h[r.args[2]]) ELSE Null)}
       [] r.name = "HDEL" -> {Does(HDelOp(e, fs), Num(Cardinality(fs \cap DOMAIN h)))}
       [] r.name = "HGETALL" -> {Does(e, Array({<<f, h[f]>> : f \in DOMAIN h}))}
       [] r.name = "HKEYS" -> {Does(e, Array(DOMAIN h))}
       [] r.name = "HVALS" -> {Does(e, Array({h[f] : f \in DOMAIN h}))}
       [] r.name = "HEXISTS" -> {Does(e, Num(IF r.args[2] \in DOMAIN h THEN 1 ELSE 0))}
       [] r.name = "HLEN" -> {Does(e, Num(Cardinality(DOMAIN h)))}
       [] r.name = "HMSET" -> {Does(HMSetOp(e, Assigned(r.args, 2)), OK)}
       [] r.name = "HMGET" -> {Does(e, Array([i \in 1..Len(r.args) - 1 |->
                                                value(r.args[i + 1], EmptyText)]))}

Strings == {"SET", "GET"}
Counts == {"EXISTS", "INCR", "DECR"}
Deadlines == {"EXPIRE", "TTL", "PERSIST"}
Lists == {"LPUSH", "RPUSH", "LPOP", "RPOP", "LLEN", "LRANGE", "LINDEX"}
Sets == {"SADD", "SREM", "SMEMBERS", "SISMEMBER", "SCARD", "SPOP", "SRANDMEMBER"}
Fields == {"HGET", "HDEL", "HGETALL", "HKEYS", "HVALS", "HEXISTS", "HLEN", "HMSET", "HMGET"}
Singles == Strings \cup Counts \cup Deadlines \cup {"STRLEN"} \cup Lists \cup Sets \cup Fields

OneCall(r, e) ==
  CASE r.name \in Strings -> StringCommand(r, e)
    [] r.name \in Counts -> CountCommand(r, e)
    [] r.name \in Deadlines -> DeadlineCommand(r, e)
    [] r.name = "STRLEN" -> StrlenCommand(e)
    [] r.name \in Lists -> ListCommand(r, e)
    [] r.name \in Sets -> SetCommand(r, e)
    [] r.name \in Fields -> HashCommand(r, e)
-----------------------------------------------------------------------------
(***************************************************************************)
(* The checks of the arguments, before anything is called.                 *)
(***************************************************************************)
ArgsFit(r) ==
  LET n == Len(r.args)
  IN CASE r.name \in {"GET", "EXISTS", "INCR", "DECR", "TTL", "PERSIST", "TYPE", "STRLEN",
                      "LLEN", "SMEMBERS", "SCARD", "SPOP", "SRANDMEMBER", "HGETALL",
                      "HKEYS", "HVALS", "HLEN"} -> n = 1
       [] r.name \in {"INCRBY", "DECRBY", "EXPIRE", "RENAME", "APPEND", "LINDEX",
                      "SISMEMBER", "HGET", "HEXISTS"} -> n = 2
       [] r.name = "LRANGE" -> n = 3
       [] r.name \in {"DEL", "MGET", "LPOP", "RPOP"} -> n >= 1
       [] r.name \in {"SET", "LPUSH", "RPUSH", "SADD", "SREM", "HDEL", "HMGET"} -> n >= 2
       [] r.name = "MSET" -> n >= 2 /\ n % 2 = 0
       [] r.name \in {"HSET", "HMSET"} -> n >= 3 /\ n % 2 = 1

\* strconv.Atoi on the arguments that are numbers; EXPIRE wants none below 0.
NumbersFit(r) ==
  LET at == CASE r.name \in {"INCRBY", "DECRBY", "EXPIRE", "LINDEX"} -> {2}
              [] r.name = "LRANGE" -> {2, 3}
              [] OTHER -> {}
  IN \A i \in at : ~NotInt(r.args[i]) /\ (r.name = "EXPIRE" => r.args[i].n >= 0)

Rejected(r) == ~ArgsFit(r) \/ ~NumbersFit(r)

\* The arguments that are keys.
KeyAt(r) ==
  CASE r.name \in {"DEL", "MGET", "RENAME"} -> 1..Len(r.args)
    [] r.name = "MSET" -> {j \in 1..Len(r.args) : j % 2 = 1}
    [] OTHER -> {1}
KeysOf(r) == {r.args[i] : i \in KeyAt(r)}

Composites == {"DEL", "INCRBY", "DECRBY", "RENAME", "TYPE", "APPEND", "MSET", "MGET", "HSET"}

\* What a client may send: a known command and any number of arguments.  APPEND
\* is given texts.
Request(r) ==
  /\ r \in [name : Singles \cup Composites, args : Seq(Keys \cup Words)]
  /\ \A i \in 1..Len(r.args) : r.args[i] \in IF i \in KeyAt(r) THEN Keys ELSE Words
  /\ r.name = "APPEND" => \A i \in 2..Len(r.args) : NotInt(r.args[i])

\* What a key may hold: no collection in memory is empty or infinite.
Held(e) ==
  /\ e \in Slot(Values, Words) /\ NonEmpty(e)
  /\ IsFiniteSet(SetOf(e)) /\ IsFiniteSet(DOMAIN HashOf(e))

ASSUME CommandsInputs ==
  /\ Words \subseteq Plain /\ Absent \notin Values /\ Absent \notin Hashes(Words)
  /\ \A c \in Clients : \A r \in Requests[c] : Request(r)
  /\ \A d \in Contents : d \in [Keys -> Slot(Values, Words)] /\ \A k \in Keys : Held(d[k])
-----------------------------------------------------------------------------
Idle == [at |-> "idle"]
NoWatch == [base |-> << >>, alone |-> "yes", own |-> 0, stayed |-> {}]

Init ==
  /\ db \in Contents
  /\ now = 0
  /\ call = [c \in Clients |-> Idle]
  /\ watch = [c \in Clients |-> NoWatch]

LiveKeys(d, t) == {k \in Keys : LiveAt(d[k], t)}

Ask(c) ==
  /\ call[c].at = "idle"
  /\ \E r \in Requests[c] :
       IF Rejected(r)
       THEN /\ call' = [call EXCEPT ![c] = [at |-> "answered", req |-> r, reply |-> Err]]
            /\ UNCHANGED watch
       ELSE /\ call' = [call EXCEPT ![c] =
                 [at |-> "running", req |-> r, i |-> 1, count |-> 0, got |-> EmptyText,
                  found |-> << >>]]
            /\ watch' = [watch EXCEPT ![c] =
                 [base |-> [k \in KeysOf(r) |-> db[k]], alone |-> "yes", own |-> 0,
                  stayed |-> KeysOf(r) \cap LiveKeys(db, now)]]
  /\ UNCHANGED <<db, now>>

Running(c, names) == call[c].at = "running" /\ call[c].req.name \in names

\* What a call has done towards the command's answer.
Gain(name, e, f) ==
  CASE name = "DEL" -> IF Present(e) /\ ~Present(f) THEN 1 ELSE 0
    [] name = "HSET" -> Cardinality(DOMAIN HashOf(f)) - Cardinality(DOMAIN HashOf(e))
    [] name \in {"INCRBY", "DECRBY"} -> IF f # e THEN 1 ELSE 0
    [] OTHER -> IF f # e /\ ~ExpiredAt(e, now) THEN 1 ELSE 0

\* The slot of key k changes to e, by a call of the client in by or, if it is
\* empty, by the sweeper.
Touch(by, k, e, refused) ==
  /\ db' = [db EXCEPT ![k] = e]
  /\ watch' = [d \in Clients |->
       IF call[d].at # "running" THEN watch[d]
       ELSE [watch[d] EXCEPT
         !.alone = IF \/ d \in by /\ refused
                      \/ d \notin by /\ k \in KeysOf(call[d].req) /\ e # db[k]
                   THEN "no" ELSE @,
         !.own = IF d \in by THEN @ + Gain(call[d].req.name, db[k], e) ELSE @,
         !.stayed = @ \cap LiveKeys(db', now)]]
  /\ UNCHANGED now

\* The engine returns o to client c from a call on key k.
Engine(c, k, o) == Touch({c}, k, o.slot, o.ret = "refused")

Reply(c, reply) ==
  call' = [call EXCEPT ![c] = [at |-> "answered", req |-> call[c].req, reply |-> reply]]
GoOn(c, p) == call' = [call EXCEPT ![c] = [p EXCEPT !.i = @ + 1]]

Single(c) ==
  /\ Running(c, Singles)
  /\ LET r == call[c].req
     IN \E o \in OneCall(r, db[r.args[1]]) : Engine(c, r.args[1], o) /\ Reply(c, o.reply)
-----------------------------------------------------------------------------
(***************************************************************************)
(* Commands of several calls.  p is the handler's state: how many calls it *)
(* has made, and its variables.                                            *)
(***************************************************************************)
\* Faulty variant: a key that the engine refuses to delete is counted.
DelUnchecked(c) ==
  /\ Running(c, {"DEL"})
  /\ LET p == call[c]
         k == p.req.args[p.i]
     IN \E o \in DelCall(db[k]) :
          /\ Engine(c, k, o)
          /\ IF p.i = Len(p.req.args) THEN Reply(c, Num(p.count + 1))
             ELSE GoOn(c, [p EXCEPT !.count = @ + 1])

Del(c) ==
  /\ Running(c, {"DEL"})
  /\ LET p == call[c]
         k == p.req.args[p.i]
     IN \E o \in DelCall(db[k]) :
          LET deleted == p.count + (IF o.ret = "ok" THEN 1 ELSE 0)
          IN /\ Engine(c, k, o)
             /\ IF p.i = Len(p.req.args) THEN Reply(c, Num(deleted))
                ELSE GoOn(c, [p EXCEPT !.count = deleted])

\* An amount that is not positive: no call, and the answer is 0.
IncrByNone(c) ==
  /\ Running(c, {"INCRBY", "DECRBY"}) /\ call[c].req.args[2].n <= 0
  /\ Reply(c, Num(0))
  /\ UNCHANGED <<db, now, watch>>

\* INCRBY and DECRBY call Incr and Decr that many times.
IncrBy(c) ==
  /\ Running(c, {"INCRBY", "DECRBY"}) /\ call[c].req.args[2].n > 0
  /\ LET p == call[c]
         k == p.req.args[1]
     IN \E o \in AddCall(db[k], IF p.req.name = "INCRBY" THEN 1 ELSE -1) :
          /\ Engine(c, k, o)
          /\ IF o.ret # "ok" THEN Reply(c, Err)
             ELSE IF p.i = p.req.args[2].n THEN Reply(c, Num(o.val))
             ELSE GoOn(c, p)

\* Faulty variant: the old key is deleted before the new one is set.
RenameDelFirst(c) ==
  /\ Running(c, {"RENAME"})
  /\ LET p == call[c]
         old == p.req.args[1]
         new == p.req.args[2]
         got == GetCall(db[old])
     IN \/ /\ p.i = 1 /\ Engine(c, old, got)
           /\ IF got.ret = "ok" THEN GoOn(c, [p EXCEPT !.got = got.val]) ELSE Reply(c, Err)
        \/ /\ p.i = 2
           /\ \E o \in DelCall(db[old]) : Engine(c, old, o)
           /\ GoOn(c, p)
        \/ /\ p.i = 3
           /\ \E o \in SetCall(db[new], p.got) : Engine(c, new, o)
           /\ Reply(c, OK)

\* Get the old key, Set the new one, Del the old one; only the first error ends
\* the command.
Rename(c) ==
  /\ Running(c, {"RENAME"})
  /\ LET p == call[c]
         old == p.req.args[1]
         new == p.req.args[2]
         got == GetCall(db[old])
     IN \/ /\ p.i = 1 /\ Engine(c, old, got)
           /\ IF got.ret = "ok" THEN GoOn(c, [p EXCEPT !.got = got.val]) ELSE Reply(c, Err)
        \/ /\ p.i = 2
           /\ \E o \in SetCall(db[new], p.got) : Engine(c, new, o)
           /\ GoOn(c, p)
        \/ /\ p.i = 3
           /\ \E o \in DelCall(db[old]) : Engine(c, old, o)
           /\ Reply(c, OK)

\* Faulty variant: Get, LLen and SCard only.
TypeOfCounts(c) ==
  /\ Running(c, {"TYPE"})
  /\ LET p == call[c]
         k == p.req.args[1]
         e == db[k]
         got == IF p.i = 1 THEN GetCall(e)
                ELSE Outcome(e, IF \/ p.i = 2 /\ ListOf(e) # << >>
                                   \/ p.i = 3 /\ SetOf(e) # {}
                                THEN "ok" ELSE "none", 0)
     IN /\ Engine(c, k, got)
        /\ IF got.ret = "ok" THEN Reply(c, [status |-> <<"string", "list", "set">>[p.i]])
           ELSE IF p.i = 3 THEN Reply(c, [status |-> "none"])
           ELSE GoOn(c, p)

\* A Get, then a chain of LLen, Exists, SCard, Exists, HLen, Exists.
Type(c) ==
  /\ Running(c, {"TYPE"})
  /\ LET p == call[c]
         k == p.req.args[1]
         e == db[k]
         got == IF p.i = 1 THEN GetCall(e)
                ELSE IF p.i \in {3, 5, 7} THEN ExistsCall(e)
                ELSE Outcome(e, CASE p.i = 2 -> IF ListOf(e) # << >> THEN "ok" ELSE "none"
                                  [] p.i = 4 -> IF SetOf(e) # {} THEN "ok" ELSE "none"
                                  [] p.i = 6 -> IF DOMAIN HashOf(e) # {} THEN "ok" ELSE "none",
                             0)
         type == <<"string", "list", "list", "set", "set", "hash", "hash">>
     IN /\ Engine(c, k, got)
        /\ IF got.ret = "ok" THEN Reply(c, [status |-> type[p.i]])
           ELSE IF p.i = 7 THEN Reply(c, [status |-> "none"])
           ELSE GoOn(c, p)

\* A Get and a Set of the two texts together, or of the new one alone.
AppendTo(c) ==
  /\ Running(c, {"APPEND"})
  /\ LET p == call[c]
         k == p.req.args[1]
         got == GetCall(db[k])
         text == p.req.args[2]
     IN \/ /\ p.i = 1 /\ Engine(c, k, got)
           /\ GoOn(c, [p EXCEPT !.got = IF got.ret = "ok" THEN Join(got.val, text) ELSE text])
        \/ /\ p.i = 2
           /\ \E o \in SetCall(db[k], p.got) : Engine(c, k, o)
           /\ Reply(c, Num(Length(p.got)))

\* The pair of arguments at p.i, counted in pairs after the first skip.
Pair(p, skip) == <<p.req.args[skip + 2 * p.i - 1], p.req.args[skip + 2 * p.i]>>
LastPair(p, skip) == skip + 2 * p.i = Len(p.req.args)

\* Faulty variant: one pair too many.
MSetPastEnd(c) ==
  /\ Running(c, {"MSET"})
  /\ LET p == call[c]
         kv == Pair(p, 0)
     IN /\ \E o \in SetCall(db[kv[1]], kv[2]) : Engine(c, kv[1], o)
        /\ GoOn(c, p)

MSet(c) ==
  /\ Running(c, {"MSET"})
  /\ LET p == call[c]
         kv == Pair(p, 0)
     IN /\ \E o \in SetCall(db[kv[1]], kv[2]) : Engine(c, kv[1], o)
        /\ IF LastPair(p, 0) THEN Reply(c, OK) ELSE GoOn(c, p)

\* A key that is missing answers as the empty string.
MGet(c) ==
  /\ Running(c, {"MGET"})
  /\ LET p == call[c]
         k == p.req.args[p.i]
         got == GetCall(db[k])
         found == Append(p.found, IF got.ret = "ok" THEN got.val ELSE EmptyText)
     IN /\ Engine(c, k, got)
        /\ IF p.i = Len(p.req.args) THEN Reply(c, Array(found))
           ELSE GoOn(c, [p EXCEPT !.found = found])

\* Faulty variant: every field counts as new.
HSetCountsAll(c) ==
  /\ Running(c, {"HSET"})
  /\ LET p == call[c]
         k == p.req.args[1]
         fv == Pair(p, 1)
     IN /\ Engine(c, k, Outcome(HSetOp(db[k], fv[1], fv[2]), "ok", 0))
        /\ IF LastPair(p, 1) THEN Reply(c, Num(p.count + 1))
           ELSE GoOn(c, [p EXCEPT !.count = @ + 1])

\* One HSet for every field; the answer is the number of fields that are new.
HSet(c) ==
  /\ Running(c, {"HSET"})
  /\ LET p == call[c]
         k == p.req.args[1]
         fv == Pair(p, 1)
         count == p.count + (IF fv[1] \in DOMAIN HashOf(db[k]) THEN 0 ELSE 1)
     IN /\ Engine(c, k, Outcome(HSetOp(db[k], fv[1], fv[2]), "ok", 0))
        /\ IF LastPair(p, 1) THEN Reply(c, Num(count))
           ELSE GoOn(c, [p EXCEPT !.count = count])

\* Deadlines pass.
Tick ==
  /\ now < MaxTime
  /\ now' = now + 1
  /\ watch' = [c \in Clients |->
       IF call[c].at # "running" THEN watch[c]
       ELSE [watch[c] EXCEPT
         !.alone = IF \E k \in KeysOf(call[c].req) : db[k].exp # Never THEN "no" ELSE @,
         !.stayed = @ \cap LiveKeys(db, now')]]
  /\ UNCHANGED <<db, call>>

\* The store's sweeper finds an expired key.
Sweep(k) ==
  /\ ExpiredAt(db[k], now)
  /\ Touch({}, k, Evict(db[k]), FALSE)
  /\ UNCHANGED call

Handle(c) ==
  \/ Single(c) \/ Del(c) \/ IncrByNone(c) \/ IncrBy(c) \/ Rename(c) \/ Type(c)
  \/ AppendTo(c) \/ MSet(c) \/ MGet(c) \/ HSet(c)

Next == (\E c \in Clients : Ask(c) \/ Handle(c)) \/ (\E k \in Keys : Sweep(k)) \/ Tick

Spec == Init /\ [][Next]_vars
-----------------------------------------------------------------------------
(***************************************************************************)
(* Properties.                                                             *)
(***************************************************************************)
\* The calls that the handler of r makes at most.
Calls(r) ==
  CASE r.name \in {"DEL", "MGET"} -> Len(r.args)
    [] r.name \in {"MSET", "HSET"} -> Len(r.args) \div 2
    [] r.name \in {"INCRBY", "DECRBY"} -> IF r.args[2].n > 1 THEN r.args[2].n ELSE 1
    [] r.name = "RENAME" -> 3
    [] r.name = "APPEND" -> 2
    [] r.name = "TYPE" -> 7
    [] OTHER -> 1

\* The types of the variables; in particular, the loops of the handlers (DEL,
\* MSET, MGET, HSET, INCRBY) stay within the arguments of their command, and no
\* collection under a key is empty.
TypeOK ==
  /\ now \in 0..MaxTime
  /\ DOMAIN db = Keys /\ \A k \in Keys : NonEmpty(db[k])
  /\ \A c \in Clients :
       /\ call[c].at \in {"idle", "running", "answered"}
       /\ call[c].at = "running" =>
            /\ call[c].i \in 1..Calls(call[c].req)
            /\ call[c].count < call[c].i
            /\ watch[c].stayed \subseteq KeysOf(call[c].req)

\* What the commands of several calls are documented to do to their keys, which
\* hold b, and to answer, when they are the only ones at work.
Expected(r, b) ==
  LET k == r.args[1]
      amount == IF r.name = "DECRBY" THEN -r.args[2].n ELSE r.args[2].n
      size == 2 * MaxInt + 2
      sum(s) == (((IF s = Absent THEN 0 ELSE s.n) + amount + MaxInt + 1) % size) - MaxInt - 1
      joined == IF b[k].str = Absent THEN r.args[2] ELSE Join(b[k].str, r.args[2])
      string(j) == IF b[r.args[j]].str = Absent THEN EmptyText ELSE b[r.args[j]].str
  IN CASE r.name = "DEL" ->
            [db |-> [j \in DOMAIN b |-> IF Present(b[j]) THEN EmptySlot ELSE b[j]],
             reply |-> Num(Cardinality({j \in DOMAIN b : Present(b[j])}))]
       [] r.name \in {"INCRBY", "DECRBY"} ->
            IF b[k].str # Absent /\ NotInt(b[k].str) THEN [db |-> b, reply |-> Err]
            ELSE [db |-> [b EXCEPT ![k].str = Canonical(sum(b[k].str))],
                  reply |-> Num(sum(b[k].str))]
       [] r.name = "RENAME" ->
            IF b[k].str = Absent THEN [db |-> b, reply |-> Err]
            ELSE [db |-> [b EXCEPT ![k] = EmptySlot, ![r.args[2]] = b[k]], reply |-> OK]
       [] r.name = "TYPE" ->
            [db |-> b, reply |-> [status |-> IF b[k].str # Absent THEN "string"
                                             ELSE IF b[k].list # Absent THEN "list"
                                             ELSE "none"]]
       [] r.name = "APPEND" ->
            [db |-> [b EXCEPT ![k].str = joined, ![k].exp = Never],
             reply |-> Num(Length(joined))]
       [] r.name = "MSET" ->
            [db |-> [j \in DOMAIN b |->
                       [b[j] EXCEPT !.str = Assigned(r.args, 1)[j], !.exp = Never]],
             reply |-> OK]
       [] r.name = "MGET" ->
            [db |-> b, reply |-> Array([j \in DOMAIN r.args |-> string(j)])]
       [] r.name = "HSET" ->
            LET fv == Assigned(r.args, 2)
            IN [db |-> [b EXCEPT ![k] = HMSetOp(b[k], fv)],
                reply |-> Num(Cardinality(DOMAIN fv \ DOMAIN HashOf(b[k])))]

\* The commands and keys that the documentation speaks of and the code serves:
\* no key past its deadline, amounts above 0, RENAME of one string without a
\* deadline to another name, TYPE of strings and lists.
Served(r, b) ==
  /\ r.name \notin Singles
  /\ \A k \in DOMAIN b : ~ExpiredAt(b[k], now)
  /\ r.name \in {"INCRBY", "DECRBY"} => r.args[2].n > 0
  /\ r.name = "RENAME" =>
       /\ r.args[1] # r.args[2]
       /\ \A k \in DOMAIN b : b[k] = [EmptySlot EXCEPT !.str = b[k].str]
  /\ r.name = "TYPE" => b[r.args[1]].set = Absent /\ b[r.args[1]].hash = Absent

\* A command of several calls that nobody disturbs, and of which no call is
\* refused, leaves its keys as the command is documented and answers accordingly
\* (Handle: DEL, INCRBY, DECRBY, RENAME, TYPE, APPEND, MSET, MGET, HSET), though
\* commands on other keys run in between.
UndisturbedExact ==
  [][\A c \in Clients :
       LET r == call[c].req
           x == Expected(r, watch[c].base)
       IN /\ call[c].at = "running" /\ call'[c].at = "answered"
          /\ watch'[c].alone = "yes" /\ Served(r, watch[c].base)
          => /\ call'[c].reply = x.reply
             /\ \A k \in KeysOf(r) : db'[k] = x.db[k]]_vars

\* The number that DEL and HSET answer is what this client's calls removed or
\* added, and INCRBY and DECRBY answer a number only after all their steps took
\* effect, whatever other clients do to the same keys in between and whichever
\* calls are refused.
CountsOwnEffects ==
  \A c \in Clients :
    call[c].at = "answered" /\ "int" \in DOMAIN call[c].reply =>
      LET r == call[c].req
      IN /\ r.name \in {"DEL", "HSET"} => call[c].reply.int = watch[c].own
         /\ r.name \in {"INCRBY", "DECRBY"} =>
              watch[c].own = (IF r.args[2].n > 0 THEN r.args[2].n ELSE 0)

\* A command that answers with an error, with null, or with a count of 0 has
\* changed nothing that was still alive.  INCRBY and DECRBY are the exception:
\* their error may come after some of the steps.
NegativeHarmless ==
  \A c \in Clients :
    call[c].at = "answered" =>
      LET r == call[c].req
          reply == call[c].reply
      IN /\ r.name \notin {"INCRBY", "DECRBY"}
         /\ \/ reply \in {Err, Null}
            \/ /\ r.name \in {"DEL", "EXPIRE", "PERSIST", "SADD", "SREM", "HSET", "HDEL"}
               /\ reply = Num(0)
         => watch[c].own = 0

\* While RENAME moves a string and nobody disturbs it, the string can be read
\* under one of the two names at every moment: it is set under the new name
\* before the old one goes.
RenameKeepsValue ==
  \A c \in Clients :
    Running(c, {"RENAME"}) /\ call[c].i > 1 /\ watch[c].alone = "yes" =>
      \E k \in KeysOf(call[c].req) :
        db[k].str = watch[c].base[call[c].req.args[1]].str /\ ~ExpiredAt(db[k], now)

\* TYPE does not answer "none" about a key that existed from its first call to
\* its last, though the key may change its type from one call to the next.
TypeSteady ==
  \A c \in Clients :
    /\ call[c].at = "answered" /\ call[c].req.name = "TYPE"
    /\ call[c].reply = [status |-> "none"]
    => watch[c].stayed = {}
=============================================================================
