------------------------- MODULE CommandsUndisturbed -------------------------
(***************************************************************************)
(* A command that nothing disturbs does exactly what its name promises.    *)
(* ExactInv carries Half of CommandsExact through the steps of every       *)
(* client, the clock and the sweeper.                                      *)
(***************************************************************************)
EXTENDS CommandsProofs, CommandsExact

\* The steps that name no prover are within reach of Zenon.
USE Zenon
-----------------------------------------------------------------------------
\* Client c is left alone in a step, and its command is one that Served names.
Left(c) == watch'[c].alone = "yes" /\ ServedAt(call[c].req, watch[c].base, now)

\* Client c made a call on key k, came to x, and its command is right so far.
Moved(c, k, o, x) ==
  /\ call[c].at = "running" /\ k \in KeysOf(call[c].req) /\ Held(o.slot) /\ Engine(c, k, o)
  /\ call' = [call EXCEPT ![c] = x] /\ x.req = call[c].req

Right(c, x) ==
  LET r == call[c].req
      b == watch[c].base
  IN Left(c) => /\ x.at = "running" => Half(x, b, View(db', r))
                /\ x.at = "answered" => Finish(r, b, View(db', r), x.reply)

Exactly(c) == \E k, o, x : Moved(c, k, o, x) /\ Right(c, x)

\* What a command that is left alone finds under its keys, and leaves there.
Undisturbed(c, k, o) ==
  LET r == call[c].req
      b == watch[c].base
      s == View(db, r)
  IN /\ AtWork(call[c], b, s) /\ Fresh(r, b) /\ DOMAIN b = KeysOf(r)
     /\ ServedAt(r, b, now) /\ o.ret # "refused"
     /\ s[k] = db[k] /\ View(db', r) = [s EXCEPT ![k] = o.slot]

\* A call that nobody disturbs.
LEMMA Serving ==
  ASSUME Inv, ExactInv, NEW c \in Clients, call[c].at = "running",
         NEW k \in KeysOf(call[c].req), NEW o, Held(o.slot), Engine(c, k, o), Left(c)
  PROVE  Undisturbed(c, k, o)
<1> DEFINE p == call[c]
           r == p.req
           b == watch[c].base
           s == View(db, r)
<1> RunOK(p) /\ KeysOf(r) \subseteq Keys /\ \A j \in Keys : Held(db[j]) BY Doing
<1> Touches({c}, k, o.slot, o.ret) /\ k \in Keys BY DEF Engine, Touches
<1>3. o.ret # "refused" /\ watch[c].alone = "yes"
  <2>1. c \in {c} OBVIOUS
  <2>2. watch'[c] = Kept(c, k, o) BY <2>1, TouchWatch, SMT DEF Kept
  <2>3. Kept(c, k, o).alone = "yes" BY <2>2 DEF Left
  <2> QED BY <2>3, KeptIs
<1> ServedAt(r, b, now) BY DEF Left
<1> DOMAIN b = KeysOf(r) /\ (\A j \in KeysOf(r) : Held(b[j])) /\ Half(p, b, s)
  BY <1>3 DEF ExactInv, ExactSoFar
<1>6. \A j \in KeysOf(r) : s[j] = db[j] BY DEF View
<1>7. s \in [KeysOf(r) -> Slot(Values, Words)]
  <2>1. \A j \in KeysOf(r) : db[j] \in Slot(Values, Words) BY DEF Held
  <2> HIDE DEF r
  <2> QED BY <2>1 DEF View
<1>8. \A j \in KeysOf(r) : Held(b[j]) /\ Held(s[j]) BY <1>6
<1>9. View(db', r) = [s EXCEPT ![k] = o.slot]
  <2>1. db'[k] = o.slot /\ \A j \in Keys : j # k => db'[j] = db[j] BY TouchDb, SMT
  <2> HIDE DEF r
  <2> QED BY <2>1 DEF View
<1>10. AtWork(p, b, s) BY <1>7, <1>8 DEF AtWork
<1>11. Fresh(r, b) BY DEF Fresh, ServedAt
<1> QED BY <1>3, <1>6, <1>9, <1>10, <1>11 DEF Undisturbed

\* The last call of a command.
LEMMA Ends ==
  ASSUME Inv, ExactInv, NEW c \in Clients, call[c].at = "running",
         NEW k \in KeysOf(call[c].req), NEW o, Held(o.slot), Engine(c, k, o), NEW y, Reply(c, y),
         NEW u, u = [View(db, call[c].req) EXCEPT ![k] = o.slot],
         Undisturbed(c, k, o) => Finish(call[c].req, watch[c].base, u, y)
  PROVE  Exactly(c)
<1> DEFINE x == [at |-> "answered", req |-> call[c].req, reply |-> y]
<1> x.at = "answered" /\ x.req = call[c].req /\ x.reply = y OBVIOUS
<1>2. call' = [call EXCEPT ![c] = x] BY DEF Reply
<1> HIDE DEF x
<1>3. Moved(c, k, o, x) BY <1>2 DEF Moved
<1>4. Right(c, x)
  <2>1. x.at # "running" OBVIOUS
  <2>2. Left(c) => Undisturbed(c, k, o) BY Serving
  <2>3. Undisturbed(c, k, o) => View(db', call[c].req) = u BY DEF Undisturbed
  <2> QED BY <2>1, <2>2, <2>3 DEF Right
<1> QED BY <1>3, <1>4 DEF Exactly

\* A call that is not the last.
LEMMA Proceeds ==
  ASSUME Inv, ExactInv, NEW c \in Clients, call[c].at = "running",
         NEW k \in KeysOf(call[c].req), NEW o, Held(o.slot), Engine(c, k, o), NEW n, NEW v, NEW f,
         call' = [call EXCEPT ![c] = NextCall(call[c], n, v, f)],
         NEW u, u = [View(db, call[c].req) EXCEPT ![k] = o.slot],
         Undisturbed(c, k, o) => Half(NextCall(call[c], n, v, f), watch[c].base, u)
  PROVE  Exactly(c)
<1> DEFINE x == NextCall(call[c], n, v, f)
<1>1. x.at = "running" /\ x.req = call[c].req BY DEF NextCall
<1> HIDE DEF x
<1>2. Moved(c, k, o, x) BY <1>1 DEF Moved, x
<1>3. Right(c, x)
  <2>1. x.at # "answered" BY <1>1
  <2>2. Left(c) => Undisturbed(c, k, o) BY Serving
  <2>3. Undisturbed(c, k, o) => View(db', call[c].req) = u BY DEF Undisturbed
  <2> QED BY <2>1, <2>2, <2>3 DEF Right, x
<1> QED BY <1>2, <1>3 DEF Exactly

\* The key of the next call of DEL and MGET.
LEMMA LoopKey ==
  ASSUME NEW p, RunOK(p), p.req.name \in {"DEL", "MGET"}
  PROVE  p.req.args[p.i] \in KeysOf(p.req)
<1>1. Request(p.req) /\ ~Rejected(p.req) /\ p.i \in 1..Calls(p.req) BY DEF RunOK
<1>2. p.i \in 1..Len(p.req.args) BY <1>1, CallsKind
<1>3. KeyAt(p.req) = 1..Len(p.req.args) BY DEF KeyAt
<1> QED BY <1>2, <1>3 DEF KeysOf

\* DEL, call by call.
LEMMA DelRight ==
  ASSUME Inv, ExactInv, NEW c \in Clients, Del(c)
  PROVE  Exactly(c)
<1> DEFINE p == call[c]
           k == p.req.args[p.i]
           b == watch[c].base
           s == View(db, p.req)
<1> p.at = "running" /\ p.req.name = "DEL" BY DEF Del, Running
<1> PICK o \in DelCall(db[k]) :
      /\ Engine(c, k, o)
      /\ IF p.i = Len(p.req.args)
         THEN Reply(c, Num(p.count + (IF o.ret = "ok" THEN 1 ELSE 0)))
         ELSE GoOn(c, [p EXCEPT !.count = p.count + (IF o.ret = "ok" THEN 1 ELSE 0)])
  BY DEF Del
<1> DEFINE n == p.count + (IF o.ret = "ok" THEN 1 ELSE 0)
           u == [s EXCEPT ![k] = o.slot]
<1> RunOK(p) /\ KeysOf(p.req) \subseteq Keys /\ \A j \in Keys : Held(db[j])
  BY Doing
<1> k \in KeysOf(p.req) BY LoopKey
<1>5. Held(o.slot)
  <2>1. Held(db[k]) OBVIOUS
  <2> HIDE DEF k
  <2> QED BY <2>1, DelFacts
<1>6. ASSUME Undisturbed(c, k, o)
      PROVE  /\ p.i = Len(p.req.args) => Finish(p.req, b, u, Num(n))
             /\ Half(NextCall(p, n, p.got, p.found), b, u)
  <2>1. AtWork(p, b, s) /\ o.ret # "refused" /\ o \in DelCall(s[k])
    BY <1>6 DEF Undisturbed
  <2> QED BY <2>1, DelExact
<1> HIDE DEF k
<1>7. CASE p.i = Len(p.req.args)
  <2>1. Reply(c, Num(n)) BY <1>7
  <2> QED BY <1>5, <1>6, <1>7, <2>1, Ends
<1>8. CASE p.i # Len(p.req.args)
  <2>1. GoOn(c, [p EXCEPT !.count = n]) BY <1>8
  <2> HIDE DEF n
  <2>2. [[p EXCEPT !.count = n] EXCEPT !.i = @ + 1] = NextCall(p, n, p.got, p.found)
    BY GoOnIs
  <2>3. call' = [call EXCEPT ![c] = NextCall(p, n, p.got, p.found)]
    BY <2>1, <2>2 DEF GoOn
  <2> QED BY <1>5, <1>6, <2>3, Proceeds
<1> QED BY <1>7, <1>8

\* INCRBY and DECRBY, step by step.
LEMMA IncrByRight ==
  ASSUME Inv, ExactInv, NEW c \in Clients, IncrBy(c)
  PROVE  Exactly(c)
<1> DEFINE p == call[c]
           k == p.req.args[1]
           b == watch[c].base
           s == View(db, p.req)
           d == IF p.req.name = "INCRBY" THEN 1 ELSE -1
           m == p.req.args[2].n
<1> p.at = "running" /\ p.req.name \in {"INCRBY", "DECRBY"} /\ m > 0
  BY DEF IncrBy, Running
<1> PICK o \in AddCall(db[k], d) :
      /\ Engine(c, k, o)
      /\ IF o.ret # "ok" THEN Reply(c, Err)
         ELSE IF p.i = m THEN Reply(c, Num(o.val)) ELSE GoOn(c, p)
  BY DEF IncrBy
<1> DEFINE u == [s EXCEPT ![k] = o.slot]
           x == NextCall(p, p.count, p.got, p.found)
<1> /\ RunOK(p) /\ k \in KeysOf(p.req) /\ KeysOf(p.req) \subseteq Keys
    /\ \A j \in Keys : Held(db[j])
  BY Doing
<1> Held(o.slot)
  <2>1. Held(db[k]) OBVIOUS
  <2>2. d \in {1, -1} OBVIOUS
  <2> HIDE DEF k, d
  <2> QED BY <2>1, <2>2, AddFacts
<1>5. ASSUME Undisturbed(c, k, o)
      PROVE  /\ o.ret # "ok" => Finish(p.req, b, u, Err)
             /\ o.ret = "ok" /\ p.i = m => Finish(p.req, b, u, Num(o.val))
             /\ o.ret = "ok" => Half(x, b, u)
  <2>1. AtWork(p, b, s) /\ o.ret # "refused" /\ o \in AddCall(s[k], d)
    BY <1>5 DEF Undisturbed
  <2> QED BY <2>1, IncrByExact
<1> HIDE DEF k, d, m
<1>6. CASE o.ret # "ok"
  <2>1. Reply(c, Err) BY <1>6
  <2> QED BY <1>5, <1>6, <2>1, Ends
<1>7. CASE o.ret = "ok" /\ p.i = m
  <2>1. Reply(c, Num(o.val)) BY <1>7
  <2> QED BY <1>5, <1>7, <2>1, Ends
<1>8. CASE o.ret = "ok" /\ p.i # m
  <2>1. GoOn(c, p) BY <1>8
  <2>2. [p EXCEPT !.i = @ + 1] = x BY GoOnIs
  <2>3. call' = [call EXCEPT ![c] = x] BY <2>1, <2>2 DEF GoOn
  <2> QED BY <1>5, <1>8, <2>3, Proceeds
<1> QED BY <1>6, <1>7, <1>8

\* RENAME, call by call.
LEMMA RenameRight ==
  ASSUME Inv, ExactInv, NEW c \in Clients, Rename(c)
  PROVE  Exactly(c)
<1> DEFINE p == call[c]
           old == p.req.args[1]
           new == p.req.args[2]
           got == GetCall(db[old])
           b == watch[c].base
           s == View(db, p.req)
<1> p.at = "running" /\ p.req.name = "RENAME" BY DEF Rename, Running
<1> /\ RunOK(p) /\ Request(p.req) /\ ~Rejected(p.req) /\ \A j \in Keys : Held(db[j])
    /\ p.got \in Values
  BY Doing DEF RunOK
<1> old \in KeysOf(p.req) /\ new \in KeysOf(p.req) /\ old \in Keys /\ new \in Keys
  BY RenameKeys
<1> Held(db[old]) /\ Held(db[new]) OBVIOUS
<1> DEFINE Alone == /\ AtWork(p, b, s) /\ Fresh(p.req, b) /\ old # new
                    /\ \A j \in KeysOf(p.req) : b[j] = [EmptySlot EXCEPT !.str = b[j].str]
<1>5. ASSUME NEW k, NEW o, Undisturbed(c, k, o)
      PROVE  Alone /\ o.ret # "refused" /\ s[k] = db[k]
  BY <1>5 DEF Undisturbed, ServedAt
<1>6. CASE p.i = 1 /\ Engine(c, old, got) /\
           IF got.ret = "ok" THEN GoOn(c, [p EXCEPT !.got = got.val]) ELSE Reply(c, Err)
  <2>1. Held(got.slot) BY GetFacts
  <2> DEFINE u == [s EXCEPT ![old] = got.slot]
             x == NextCall(p, p.count, got.val, p.found)
  <2>2. ASSUME Undisturbed(c, old, got)
        PROVE  /\ got.ret = "ok" => Half(x, b, u)
               /\ got.ret # "ok" => Finish(p.req, b, u, Err)
    <3>1. Alone /\ got = GetCall(s[old]) BY <1>5, <2>2
    <3>2. RenameBegins(p, b, s, old, GetCall(s[old])) BY <1>6, <3>1, RenameExact
    <3> HIDE DEF got
    <3> QED BY <3>1, <3>2 DEF RenameBegins
  <2> HIDE DEF old, got
  <2>3. CASE got.ret = "ok"
    <3>1. GoOn(c, [p EXCEPT !.got = got.val]) BY <1>6, <2>3
    <3>2. [[p EXCEPT !.got = got.val] EXCEPT !.i = @ + 1] = x BY GoOnIs
    <3>3. call' = [call EXCEPT ![c] = x] BY <3>1, <3>2 DEF GoOn
    <3> QED BY <1>6, <2>1, <2>2, <2>3, <3>3, Proceeds
  <2>4. CASE got.ret # "ok"
    <3>1. Reply(c, Err) BY <1>6, <2>4
    <3> QED BY <1>6, <2>1, <2>2, <2>4, <3>1, Ends
  <2> QED BY <2>3, <2>4
<1>7. CASE p.i = 2 /\ (\E o \in SetCall(db[new], p.got) : Engine(c, new, o)) /\ GoOn(c, p)
  <2>1. PICK o \in SetCall(db[new], p.got) : Engine(c, new, o) BY <1>7
  <2>2. Held(o.slot) BY SetFacts
  <2> DEFINE u == [s EXCEPT ![new] = o.slot]
             x == NextCall(p, p.count, p.got, p.found)
  <2>3. ASSUME Undisturbed(c, new, o) PROVE Half(x, b, u)
    <3>1. Alone /\ o \in SetCall(s[new], p.got) /\ o.ret # "refused" BY <1>5, <2>1, <2>3
    <3> QED BY <1>7, <3>1, RenameExact
  <2>4. [p EXCEPT !.i = @ + 1] = x BY GoOnIs
  <2>5. call' = [call EXCEPT ![c] = x] BY <1>7, <2>4 DEF GoOn
  <2> HIDE DEF new
  <2> QED BY <2>1, <2>2, <2>3, <2>5, Proceeds
<1>8. CASE p.i = 3 /\ (\E o \in DelCall(db[old]) : Engine(c, old, o)) /\ Reply(c, OK)
  <2>1. PICK o \in DelCall(db[old]) : Engine(c, old, o) BY <1>8
  <2>2. Held(o.slot) BY DelFacts
  <2> DEFINE u == [s EXCEPT ![old] = o.slot]
  <2>3. ASSUME Undisturbed(c, old, o) PROVE Finish(p.req, b, u, OK)
    <3>1. Alone /\ o \in DelCall(s[old]) /\ o.ret # "refused" BY <1>5, <2>1, <2>3
    <3> QED BY <1>8, <3>1, RenameExact
  <2> HIDE DEF old
  <2> QED BY <1>8, <2>1, <2>2, <2>3, Ends
<1> QED BY <1>6, <1>7, <1>8 DEF Rename

\* TYPE, question by question.
LEMMA TypeRight ==
  ASSUME Inv, ExactInv, NEW c \in Clients, Type(c)
  PROVE  Exactly(c)
<1> DEFINE p == call[c]
           k == p.req.args[1]
           o == Asked(db[k], p.i)
           b == watch[c].base
           s == View(db, p.req)
           u == [s EXCEPT ![k] = o.slot]
           x == NextCall(p, p.count, p.got, p.found)
           t == [status |-> TypeName(p.i)]
           none == [status |-> "none"]
<1> p.at = "running" /\ p.req.name = "TYPE" BY DEF Type, Running
<1> /\ Engine(c, k, o)
    /\ IF o.ret = "ok" THEN Reply(c, t) ELSE IF p.i = 7 THEN Reply(c, none) ELSE GoOn(c, p)
  BY DEF Type, Asked, TypeName
<1> RunOK(p) /\ k \in KeysOf(p.req) /\ k \in Keys /\ Held(db[k]) BY Doing
<1> Held(o.slot)
  <2> DEFINE e == db[k]
  <2>1. Held(GetCall(e).slot) /\ Held(ExistsCall(e).slot) BY GetFacts, ExistsFacts
  <2>2. \A ret : Outcome(e, ret, 0).slot = e BY DEF Outcome
  <2> HIDE DEF e, k
  <2>3. Held(Asked(e, p.i).slot) BY <2>1, <2>2 DEF Asked, e
  <2> QED BY <2>3 DEF e
<1> HIDE DEF t, none
<1>5. ASSUME Undisturbed(c, k, o)
      PROVE  /\ o.ret = "ok" => Finish(p.req, b, u, t)
             /\ o.ret # "ok" /\ p.i = 7 => Finish(p.req, b, u, none)
             /\ o.ret # "ok" => Half(x, b, u)
  <2>1. /\ AtWork(p, b, s) /\ Fresh(p.req, b) /\ b[k].set = Absent /\ b[k].hash = Absent
        /\ s[k] = db[k]
    BY <1>5 DEF Undisturbed, ServedAt
  <2>2. o = Asked(s[k], p.i) BY <2>1
  <2> HIDE DEF o
  <2> QED BY <2>1, <2>2, TypeExact DEF t, none
<1> HIDE DEF k, o
<1>6. CASE o.ret = "ok"
  <2>1. Reply(c, t) BY <1>6
  <2> QED BY <1>5, <1>6, <2>1, Ends
<1>7. CASE o.ret # "ok" /\ p.i = 7
  <2>1. Reply(c, none) BY <1>7
  <2> QED BY <1>5, <1>7, <2>1, Ends
<1>8. CASE o.ret # "ok" /\ p.i # 7
  <2>1. GoOn(c, p) BY <1>8
  <2>2. [p EXCEPT !.i = @ + 1] = x BY GoOnIs
  <2>3. call' = [call EXCEPT ![c] = x] BY <2>1, <2>2 DEF GoOn
  <2> QED BY <1>5, <1>8, <2>3, Proceeds
<1> QED BY <1>6, <1>7, <1>8

\* APPEND, call by call.
LEMMA AppendRight ==
  ASSUME Inv, ExactInv, NEW c \in Clients, AppendTo(c)
  PROVE  Exactly(c)
<1> DEFINE p == call[c]
           k == p.req.args[1]
           got == GetCall(db[k])
           text == p.req.args[2]
           v == IF got.ret = "ok" THEN Join(got.val, text) ELSE text
           b == watch[c].base
           s == View(db, p.req)
<1> p.at = "running" /\ p.req.name = "APPEND" BY DEF AppendTo, Running
<1> /\ RunOK(p) /\ k \in KeysOf(p.req) /\ k \in Keys /\ Held(db[k]) /\ p.got \in Values
  BY Doing DEF RunOK
<1>3. ASSUME NEW o, Undisturbed(c, k, o)
      PROVE  AtWork(p, b, s) /\ Fresh(p.req, b) /\ o.ret # "refused" /\ s[k] = db[k]
  BY <1>3 DEF Undisturbed
<1>4. CASE p.i = 1 /\ Engine(c, k, got) /\ GoOn(c, [p EXCEPT !.got = v])
  <2> DEFINE x == NextCall(p, p.count, v, p.found)
             u == [s EXCEPT ![k] = got.slot]
  <2>1. Held(got.slot) BY GetFacts
  <2>2. ASSUME Undisturbed(c, k, got) PROVE Half(x, b, u)
    <3> DEFINE g == GetCall(s[k])
               w == IF g.ret = "ok" THEN Join(g.val, text) ELSE text
    <3>1. got = g BY <1>3, <2>2
    <3>2. Half(NextCall(p, p.count, w, p.found), b, [s EXCEPT ![k] = g.slot])
      BY <1>3, <1>4, <2>2, AppendExact
    <3> HIDE DEF got, g
    <3> QED BY <3>1, <3>2
  <2> HIDE DEF v, got, k
  <2>3. [[p EXCEPT !.got = v] EXCEPT !.i = @ + 1] = x BY GoOnIs
  <2>4. call' = [call EXCEPT ![c] = x] BY <1>4, <2>3 DEF GoOn
  <2> QED BY <1>4, <2>1, <2>2, <2>4, Proceeds
<1>5. CASE p.i = 2 /\ (\E o \in SetCall(db[k], p.got) : Engine(c, k, o))
           /\ Reply(c, Num(Length(p.got)))
  <2>1. PICK o \in SetCall(db[k], p.got) : Engine(c, k, o) BY <1>5
  <2> DEFINE u == [s EXCEPT ![k] = o.slot]
             y == Num(Length(p.got))
  <2>2. Held(o.slot) BY SetFacts
  <2>3. ASSUME Undisturbed(c, k, o) PROVE Finish(p.req, b, u, y)
    <3>1. o \in SetCall(s[k], p.got) BY <1>3, <2>1, <2>3
    <3> QED BY <1>3, <1>5, <2>3, <3>1, AppendExact
  <2>4. Reply(c, y) BY <1>5
  <2> HIDE DEF k, y
  <2> QED BY <2>1, <2>2, <2>3, <2>4, Ends
<1> QED BY <1>4, <1>5 DEF AppendTo

\* MSET, pair by pair.
LEMMA MSetRight ==
  ASSUME Inv, ExactInv, NEW c \in Clients, MSet(c)
  PROVE  Exactly(c)
<1> DEFINE p == call[c]
           kv == Pair(p, 0)
           k == kv[1]
           b == watch[c].base
           s == View(db, p.req)
           x == NextCall(p, p.count, p.got, p.found)
<1> p.at = "running" /\ p.req.name = "MSET" BY DEF MSet, Running
<1>2. PICK o \in SetCall(db[k], kv[2]) : Engine(c, k, o) BY DEF MSet
<1>3. IF LastPair(p, 0) THEN Reply(c, OK) ELSE GoOn(c, p) BY DEF MSet
<1> RunOK(p) /\ \A j \in Keys : Held(db[j]) BY Doing
<1> k \in KeysOf(p.req) /\ k \in Keys /\ kv[2] \in Values
  BY PairsAre, StringKinds
<1> DEFINE u == [s EXCEPT ![k] = o.slot]
<1>6. Held(o.slot)
  <2> HIDE DEF kv
  <2> QED BY SetFacts
<1>7. ASSUME Undisturbed(c, k, o)
      PROVE  (LastPair(p, 0) => Finish(p.req, b, u, OK)) /\ Half(x, b, u)
  <2>1. AtWork(p, b, s) /\ o.ret # "refused" /\ s[k] = db[k] BY <1>7 DEF Undisturbed
  <2>2. o \in SetCall(s[k], kv[2]) BY <2>1
  <2> QED BY <2>1, <2>2, MSetExact
<1> HIDE DEF kv
<1>8. CASE LastPair(p, 0)
  <2>1. Reply(c, OK) BY <1>3, <1>8
  <2> QED BY <1>2, <1>6, <1>7, <1>8, <2>1, Ends
<1>9. CASE ~LastPair(p, 0)
  <2>1. GoOn(c, p) BY <1>3, <1>9
  <2>2. [p EXCEPT !.i = @ + 1] = x BY GoOnIs
  <2>3. call' = [call EXCEPT ![c] = x] BY <2>1, <2>2 DEF GoOn
  <2> QED BY <1>2, <1>6, <1>7, <2>3, Proceeds
<1> QED BY <1>8, <1>9

\* MGET, key by key.
LEMMA MGetRight ==
  ASSUME Inv, ExactInv, NEW c \in Clients, MGet(c)
  PROVE  Exactly(c)
<1> DEFINE p == call[c]
           k == p.req.args[p.i]
           got == GetCall(db[k])
           f == With(p.found, got)
           b == watch[c].base
           s == View(db, p.req)
           u == [s EXCEPT ![k] = got.slot]
           x == NextCall(p, p.count, p.got, f)
<1> p.at = "running" /\ p.req.name = "MGET" BY DEF MGet, Running
<1> /\ Engine(c, k, got)
    /\ IF p.i = Len(p.req.args) THEN Reply(c, Array(f)) ELSE GoOn(c, [p EXCEPT !.found = f])
  BY DEF MGet, With, Found
<1> RunOK(p) /\ KeysOf(p.req) \subseteq Keys /\ \A j \in Keys : Held(db[j])
  BY Doing
<1> k \in KeysOf(p.req) BY LoopKey
<1>5. Held(got.slot) BY GetFacts
<1>6. ASSUME Undisturbed(c, k, got)
      PROVE  (p.i = Len(p.req.args) => Finish(p.req, b, u, Array(f))) /\ Half(x, b, u)
  <2>1. AtWork(p, b, s) /\ Fresh(p.req, b) /\ s[k] = db[k] BY <1>6 DEF Undisturbed
  <2>2. got = GetCall(s[k]) BY <2>1
  <2> HIDE DEF got
  <2> QED BY <2>1, <2>2, MGetExact
<1> HIDE DEF k, got, f
<1>7. CASE p.i = Len(p.req.args)
  <2>1. Reply(c, Array(f)) BY <1>7
  <2> QED BY <1>5, <1>6, <1>7, <2>1, Ends
<1>8. CASE p.i # Len(p.req.args)
  <2>1. GoOn(c, [p EXCEPT !.found = f]) BY <1>8
  <2>2. [[p EXCEPT !.found = f] EXCEPT !.i = @ + 1] = x BY GoOnIs
  <2>3. call' = [call EXCEPT ![c] = x] BY <2>1, <2>2 DEF GoOn
  <2> QED BY <1>5, <1>6, <2>3, Proceeds
<1> QED BY <1>7, <1>8

\* HSET, field by field.
LEMMA HSetRight ==
  ASSUME Inv, ExactInv, NEW c \in Clients, HSet(c)
  PROVE  Exactly(c)
<1> DEFINE p == call[c]
           k == p.req.args[1]
           fv == Pair(p, 1)
           n == p.count + IsNew(fv[1], db[k])
           o == Outcome(HSetOp(db[k], fv[1], fv[2]), "ok", 0)
           b == watch[c].base
           s == View(db, p.req)
           u == [s EXCEPT ![k] = o.slot]
           x == NextCall(p, n, p.got, p.found)
<1> p.at = "running" /\ p.req.name = "HSET" BY DEF HSet, Running
<1> /\ Engine(c, k, o)
    /\ IF LastPair(p, 1) THEN Reply(c, Num(n)) ELSE GoOn(c, [p EXCEPT !.count = n])
  BY DEF HSet, IsNew
<1> RunOK(p) /\ k \in KeysOf(p.req) /\ k \in Keys /\ Held(db[k]) BY Doing
<1>4. fv[1] \in Words /\ fv[2] \in Words BY PairsAre
<1>5. o.slot = HSetOp(db[k], fv[1], fv[2])
  <2> HIDE DEF k, fv
  <2> QED BY DEF Outcome
<1>6. Held(o.slot)
  <2> HIDE DEF k, fv, o
  <2>1. Held(HSetOp(db[k], fv[1], fv[2])) BY <1>4, HSetGrows
  <2> QED BY <1>5, <2>1
<1>7. ASSUME Undisturbed(c, k, o)
      PROVE  (LastPair(p, 1) => Finish(p.req, b, u, Num(n))) /\ Half(x, b, u)
  <2>1. AtWork(p, b, s) /\ s[k] = db[k] BY <1>7 DEF Undisturbed
  <2> DEFINE f2 == o.slot
  <2>2. f2 = HSetOp(s[k], fv[1], fv[2]) /\ n = p.count + IsNew(fv[1], s[k]) BY <1>5, <2>1
  <2> HIDE DEF f2, n
  <2>3. /\ LastPair(p, 1) => Finish(p.req, b, [s EXCEPT ![k] = f2], Num(n))
        /\ Half(NextCall(p, n, p.got, p.found), b, [s EXCEPT ![k] = f2])
    BY <2>1, <2>2, HSetExact
  <2> QED BY <2>3 DEF f2
<1> HIDE DEF k, fv, o, n
<1>8. CASE LastPair(p, 1)
  <2>1. Reply(c, Num(n)) BY <1>8
  <2> QED BY <1>6, <1>7, <1>8, <2>1, Ends
<1>9. CASE ~LastPair(p, 1)
  <2>1. GoOn(c, [p EXCEPT !.count = n]) BY <1>9
  <2>2. [[p EXCEPT !.count = n] EXCEPT !.i = @ + 1] = x BY GoOnIs
  <2>3. call' = [call EXCEPT ![c] = x] BY <2>1, <2>2 DEF GoOn
  <2> QED BY <1>6, <1>7, <2>3, Proceeds
<1> QED BY <1>8, <1>9

\* A command of one call: Served does not speak of it.
LEMMA SingleRight ==
  ASSUME Inv, ExactInv, NEW c \in Clients, Single(c)
  PROVE  Exactly(c)
<1> DEFINE r == call[c].req
           k == r.args[1]
<1> call[c].at = "running" /\ r.name \in Singles BY DEF Single, Running
<1>2. PICK o \in OneCall(r, db[k]) : Engine(c, k, o) /\ Reply(c, o.reply) BY DEF Single
<1>3. /\ Request(r) /\ ~Rejected(r) /\ k \in KeysOf(r) /\ k \in Keys /\ Held(db[k]) /\ now \in Int
  BY Doing
<1> HIDE DEF r
<1>4. Fair(r, db[k], o) BY <1>3, SingleFair
<1>5. Held(o.slot) BY <1>4 DEF Fair
<1>6. ~Undisturbed(c, k, o) BY DEF Undisturbed, ServedAt, r
<1> HIDE DEF k
<1> QED BY <1>2, <1>3, <1>5, <1>6, Ends DEF r
-----------------------------------------------------------------------------
\* What UndisturbedExact promises client d in a step.
Promise(d) ==
  LET r == call[d].req
      b == watch[d].base
  IN /\ call[d].at = "running" /\ call'[d].at = "answered"
     /\ watch'[d].alone = "yes" /\ ServedAt(r, b, now)
     => Finish(r, b, View(db', r), call'[d].reply)

\* A command that another client or the sweeper leaves alone.
LEMMA OthersExact ==
  ASSUME Inv, ExactInv, NEW by, NEW k \in Keys, NEW e, NEW ret, Touches(by, k, e, ret),
         NEW d \in Clients, d \notin by
  PROVE  ExactSoFar(call[d], watch'[d], db', now')
<1> DEFINE cl == call[d]
           r == cl.req
           w == watch[d]
           v == watch'[d]
<1> SUFFICES ASSUME cl.at = "running", v.alone = "yes" PROVE ExactSoFar(cl, v, db', now')
  BY DEF ExactSoFar
<1>1. KeysOf(r) \subseteq Keys BY Doing
<1>2. now' = now /\ db'[k] = e /\ \A j \in Keys : j # k => db'[j] = db[j] BY TouchDb
<1>3. v = Theirs(w, KeysOf(r), k, e, db[k], LiveKeys(db', now)) BY TouchWatch, SMT
<1>4. v.base = w.base /\ w.alone = "yes" /\ ~(k \in KeysOf(r) /\ e # db[k])
  <2> HIDE DEF w, r
  <2> QED BY <1>3, SMT DEF Theirs
<1>5. View(db', r) = View(db, r)
  <2>1. \A j \in KeysOf(r) : db'[j] = db[j] BY <1>1, <1>2, <1>4
  <2> HIDE DEF r
  <2> QED BY <2>1 DEF View
<1>6. ExactSoFar(cl, w, db, now) BY DEF ExactInv
<1> HIDE DEF v, w, r, cl
<1> QED BY <1>2, <1>4, <1>5, <1>6 DEF ExactSoFar, r

\* A call of client c keeps every command on its way.
LEMMA ExactStep ==
  ASSUME Inv, ExactInv, NEW c \in Clients, Exactly(c)
  PROVE  ExactInv' /\ \A d \in Clients : Promise(d)
<1> DEFINE cl == call[c]
           r == cl.req
           b == watch[c].base
<1> PICK k, o, x : Moved(c, k, o, x) /\ Right(c, x) BY DEF Exactly
<1> /\ cl.at = "running" /\ k \in KeysOf(r) /\ Held(o.slot) /\ Engine(c, k, o)
    /\ call' = [call EXCEPT ![c] = x] /\ x.req = r
  BY DEF Moved
<1> k \in Keys /\ DOMAIN call = Clients BY Doing DEF Inv
<1> call'[c] = x /\ \A d \in Clients : d # c => call'[d] = call[d] OBVIOUS
<1> Touches({c}, k, o.slot, o.ret) BY DEF Engine, Touches
<1>6. now' = now BY TouchDb
<1>7. watch'[c].base = b /\ (watch'[c].alone = "yes" => watch[c].alone = "yes")
  <2>1. c \in {c} OBVIOUS
  <2>2. watch'[c] = Kept(c, k, o) BY <2>1, TouchWatch, SMT DEF Kept
  <2>3. /\ Kept(c, k, o).base = watch[c].base
        /\ Kept(c, k, o).alone = "yes" => o.ret # "refused" /\ watch[c].alone = "yes"
    BY KeptIs, SMT
  <2> QED BY <2>2, <2>3
<1>8. ExactSoFar(call'[c], watch'[c], db', now')
  <2> SUFFICES ASSUME x.at = "running", watch'[c].alone = "yes"
               PROVE  ExactSoFar(x, watch'[c], db', now')
    BY DEF ExactSoFar
  <2>1. DOMAIN b = KeysOf(r) /\ \A j \in KeysOf(r) : Held(b[j])
    BY <1>7 DEF ExactInv, ExactSoFar
  <2>2. ServedAt(r, b, now) => Half(x, b, View(db', r)) BY DEF Left, Right
  <2> HIDE DEF b, r
  <2> QED BY <1>6, <1>7, <2>1, <2>2 DEF ExactSoFar
<1>9. ASSUME NEW d \in Clients, d # c PROVE ExactSoFar(call'[d], watch'[d], db', now')
  <2>1. d \notin {c} BY <1>9
  <2> QED BY <1>9, <2>1, OthersExact
<1>10. ExactInv' BY <1>8, <1>9 DEF ExactInv
<1>11. ASSUME NEW d \in Clients PROVE Promise(d)
  <2>1. CASE d = c BY <2>1 DEF Promise, Left, Right
  <2>2. CASE d # c
    <3>1. call'[d].at = call[d].at BY <2>2
    <3> QED BY <3>1 DEF Promise
  <2> QED BY <2>1, <2>2
<1> QED BY <1>10, <1>11

\* INCRBY and DECRBY of an amount that Served does not name.
LEMMA NoneExact ==
  ASSUME Inv, ExactInv, NEW c \in Clients, IncrByNone(c)
  PROVE  ExactInv' /\ \A d \in Clients : Promise(d)
<1> DEFINE r == call[c].req
<1> /\ call[c].at = "running" /\ r.name \in {"INCRBY", "DECRBY"} /\ r.args[2].n <= 0
    /\ Reply(c, Num(0)) /\ db' = db /\ now' = now /\ watch' = watch
  BY DEF IncrByNone, Running
<1> DEFINE x == [at |-> "answered", req |-> r, reply |-> Num(0)]
<1>2. x.at = "answered" OBVIOUS
<1>3. call' = [call EXCEPT ![c] = x] /\ DOMAIN call = Clients BY DEF Reply, Inv
<1> HIDE DEF x
<1> call'[c].at = "answered" /\ \A d \in Clients : d # c => call'[d] = call[d] BY <1>2, <1>3
<1>5. ASSUME NEW d \in Clients PROVE ExactSoFar(call'[d], watch'[d], db', now')
  <2>1. CASE d = c
    <3>1. call'[d].at # "running" BY <2>1
    <3> QED BY <3>1 DEF ExactSoFar
  <2>2. CASE d # c BY <2>2 DEF ExactInv
  <2> QED BY <2>1, <2>2
<1>6. ExactInv' BY <1>5 DEF ExactInv
<1>7. ~ServedAt(r, watch[c].base, now)
  <2>1. r.args[2].n \in Int
    <3>1. Request(r) /\ ~Rejected(r) BY Doing
    <3> HIDE DEF r
    <3> QED BY <3>1, CallsKind
  <2>2. ~(r.args[2].n > 0) BY <2>1, SMT
  <2> QED BY <2>2 DEF ServedAt
<1>8. ASSUME NEW d \in Clients PROVE Promise(d)
  <2>1. CASE d = c BY <1>7, <2>1 DEF Promise
  <2>2. CASE d # c
    <3>1. call'[d].at = call[d].at BY <2>2
    <3> QED BY <3>1 DEF Promise
  <2> QED BY <2>1, <2>2
<1> QED BY <1>6, <1>8

\* A command comes in.
LEMMA AskExact ==
  ASSUME Inv, ExactInv, NEW c \in Clients, Ask(c)
  PROVE  ExactInv' /\ \A d \in Clients : Promise(d)
<1>1. PICK r \in Requests[c] :
        IF Rejected(r)
        THEN /\ call' = [call EXCEPT ![c] = [at |-> "answered", req |-> r, reply |-> Err]]
             /\ UNCHANGED watch
        ELSE /\ call' = [call EXCEPT ![c] =
                  [at |-> "running", req |-> r, i |-> 1, count |-> 0, got |-> EmptyText,
                   found |-> << >>]]
             /\ watch' = [watch EXCEPT ![c] =
                  [base |-> [k \in KeysOf(r) |-> db[k]], alone |-> "yes", own |-> 0,
                   stayed |-> KeysOf(r) \cap LiveKeys(db, now)]]
  BY DEF Ask
<1> call[c].at = "idle" /\ db' = db /\ now' = now BY DEF Ask
<1> DOMAIN watch = Clients /\ DOMAIN call = Clients /\ \A k \in Keys : Held(db[k])
  BY DEF Inv, DbOK
<1>4. /\ \A d \in Clients : d # c => call'[d] = call[d] /\ watch'[d] = watch[d]
      /\ ExactSoFar(call'[c], watch'[c], db', now')
  <2>1. CASE Rejected(r)
    <3> DEFINE x == [at |-> "answered", req |-> r, reply |-> Err]
    <3>1. call' = [call EXCEPT ![c] = x] /\ watch' = watch BY <1>1, <2>1
    <3>2. x.at # "running" OBVIOUS
    <3> HIDE DEF x
    <3>3. call'[c] = x /\ \A d \in Clients : d # c => call'[d] = call[d] BY <3>1
    <3> QED BY <3>1, <3>2, <3>3 DEF ExactSoFar
  <2>2. CASE ~Rejected(r)
    <3> DEFINE x == [at |-> "running", req |-> r, i |-> 1, count |-> 0, got |-> EmptyText,
                     found |-> << >>]
               w == [base |-> [k \in KeysOf(r) |-> db[k]], alone |-> "yes", own |-> 0,
                     stayed |-> KeysOf(r) \cap LiveKeys(db, now)]
               b == View(db, r)
    <3>1. call' = [call EXCEPT ![c] = x] /\ watch' = [watch EXCEPT ![c] = w]
      BY <1>1, <2>2
    <3>2. x.req = r /\ x.i = 1 /\ x.count = 0 /\ x.found = << >> OBVIOUS
    <3>3. w.base = b BY DEF View
    <3> HIDE DEF x, w
    <3>4. /\ call'[c] = x /\ watch'[c] = w
          /\ \A d \in Clients : d # c => call'[d] = call[d] /\ watch'[d] = watch[d]
      BY <3>1
    <3>5. Request(r) BY CommandsInputs
    <3>6. KeysOf(r) \subseteq Keys BY <2>2, <3>5, Arguments
    <3>7. DOMAIN b = KeysOf(r) /\ \A k \in KeysOf(r) : Held(b[k]) BY <3>6 DEF View
    <3>8. Half(x, b, b) BY <3>2, HalfBegins
    <3>9. ExactSoFar(x, w, db', now') BY <3>2, <3>3, <3>7, <3>8 DEF ExactSoFar
    <3> QED BY <3>4, <3>9
  <2> QED BY <2>1, <2>2
<1>5. ASSUME NEW d \in Clients PROVE ExactSoFar(call'[d], watch'[d], db', now')
  BY <1>4 DEF ExactInv
<1>6. ExactInv' BY <1>5 DEF ExactInv
<1>7. ASSUME NEW d \in Clients PROVE Promise(d)
  <2>1. call[d].at = "running" => call'[d].at = call[d].at
    <3>1. CASE d = c
      <4>1. call[d].at # "running" BY <3>1
      <4> QED BY <4>1
    <3>2. CASE d # c BY <1>4, <3>2
    <3> QED BY <3>1, <3>2
  <2> QED BY <2>1 DEF Promise
<1> QED BY <1>6, <1>7

\* Time passes: no key of a command that is left alone has a deadline.
LEMMA TickExact ==
  ASSUME Inv, ExactInv, Tick
  PROVE  ExactInv' /\ \A d \in Clients : Promise(d)
<1> now' = now + 1 /\ db' = db /\ call' = call /\ now \in Int
  <2>1. now \in Int BY CommandsConstants, SMT DEF Inv
  <2> QED BY <2>1 DEF Tick
<1>2. ASSUME NEW c \in Clients PROVE ExactSoFar(call'[c], watch'[c], db', now')
  <2> DEFINE cl == call[c]
             r == cl.req
             w == watch[c]
             b == w.base
             v == watch'[c]
  <2> SUFFICES ASSUME cl.at = "running", v.alone = "yes" PROVE ExactSoFar(cl, v, db, now')
    BY DEF ExactSoFar
  <2> DEFINE alone == IF \E k \in KeysOf(r) : db[k].exp # Never THEN "no" ELSE w.alone
             stayed == w.stayed \cap LiveKeys(db, now')
  <2>1. v = [w EXCEPT !.alone = alone, !.stayed = stayed] BY DEF Tick
  <2>2. WatchOK(w) BY Doing
  <2>3. v.base = b /\ (v.alone = "yes" => w.alone = "yes")
    <3> HIDE DEF w, v, r
    <3> QED BY <2>1, <2>2 DEF WatchOK
  <2> /\ DOMAIN b = KeysOf(r) /\ \A k \in KeysOf(r) : Held(b[k])
      /\ ServedAt(r, b, now) => Half(cl, b, View(db, r))
    BY <2>3 DEF ExactInv, ExactSoFar
  <2>5. \A k \in KeysOf(r) : ExpiredAt(b[k], now) => ExpiredAt(b[k], now')
    <3> TAKE k \in KeysOf(r)
    <3> HIDE DEF b, r
    <3>1. b[k].exp \in {Never} \cup Int BY DEF Held, Slot
    <3> QED BY <3>1, SMT DEF ExpiredAt
  <2>6. ServedAt(r, b, now') => ServedAt(r, b, now) BY <2>5 DEF ServedAt
  <2> HIDE DEF cl, v, b
  <2> QED BY <2>3, <2>6 DEF ExactSoFar
<1>3. ExactInv' BY <1>2 DEF ExactInv
<1>4. ASSUME NEW d \in Clients PROVE Promise(d)
  <2>1. call'[d].at = call[d].at OBVIOUS
  <2> QED BY <2>1 DEF Promise
<1> QED BY <1>3, <1>4

\* The sweeper takes a key away.
LEMMA SweepExact ==
  ASSUME Inv, ExactInv, NEW k \in Keys, Sweep(k)
  PROVE  ExactInv' /\ \A d \in Clients : Promise(d)
<1>1. Touches({}, k, EmptySlot, "ok")
  <2>1. Touch({}, k, Evict(db[k]), FALSE) BY DEF Sweep
  <2> QED BY <2>1 DEF Touch, Touches, Evict
<1>2. call' = call BY DEF Sweep
<1>3. ASSUME NEW d \in Clients PROVE ExactSoFar(call'[d], watch'[d], db', now')
  <2>1. d \notin {} OBVIOUS
  <2> QED BY <1>1, <1>2, <2>1, OthersExact
<1>4. ExactInv' BY <1>3 DEF ExactInv
<1>5. ASSUME NEW d \in Clients PROVE Promise(d)
  <2>1. call'[d].at = call[d].at BY <1>2
  <2> QED BY <2>1 DEF Promise
<1> QED BY <1>4, <1>5
-----------------------------------------------------------------------------
\* Every step keeps the commands that are left alone on their way, and keeps the
\* promise to those that it ends.
LEMMA Keeps ==
  ASSUME Inv, ExactInv, [Next]_vars
  PROVE  ExactInv' /\ \A d \in Clients : Promise(d)
<1>1. CASE UNCHANGED vars
  <2>1. call' = call /\ watch' = watch /\ db' = db /\ now' = now BY <1>1 DEF vars
  <2>2. ExactInv' BY <2>1 DEF ExactInv
  <2>3. ASSUME NEW d \in Clients PROVE Promise(d)
    <3>1. call'[d].at = call[d].at BY <2>1
    <3> QED BY <3>1 DEF Promise
  <2> QED BY <2>2, <2>3
<1>2. ASSUME NEW c \in Clients, Handle(c) PROVE ExactInv' /\ \A d \in Clients : Promise(d)
  <2>1. IncrByNone(c) \/ Exactly(c)
    BY <1>2, SingleRight, DelRight, IncrByRight, RenameRight, TypeRight, AppendRight, MSetRight,
       MGetRight, HSetRight DEF Handle
  <2> QED BY <2>1, NoneExact, ExactStep
<1>3. ASSUME NEW c \in Clients, Ask(c) PROVE ExactInv' /\ \A d \in Clients : Promise(d)
  BY <1>3, AskExact
<1>4. ASSUME NEW k \in Keys, Sweep(k) PROVE ExactInv' /\ \A d \in Clients : Promise(d)
  BY <1>4, SweepExact
<1>5. CASE Tick BY <1>5, TickExact
<1> QED BY <1>1, <1>2, <1>3, <1>4, <1>5 DEF Next

\* For any number of clients and keys, any arguments and any contents: a command
\* of several calls (DEL, INCRBY, DECRBY, RENAME, TYPE, APPEND, MSET, MGET, HSET)
\* that nobody disturbs and of which no call is refused does to its keys, and
\* answers, exactly what it is documented to, whatever other clients do to other
\* keys between its calls.
THEOREM UndisturbedIsExact == Spec => UndisturbedExact
<1>1. Init => ExactInv
  <2> SUFFICES ASSUME Init PROVE ExactInv OBVIOUS
  <2>1. ASSUME NEW c \in Clients PROVE call[c].at # "running" BY DEF Init, Idle
  <2> QED BY <2>1 DEF ExactInv, ExactSoFar
<1>2. Inv /\ ExactInv /\ [Next]_vars => ExactInv' BY Keeps
<1>3. Inv /\ ExactInv /\ [Next]_vars =>
        \A c \in Clients :
          LET r == call[c].req
              x == Expected(r, watch[c].base)
          IN /\ call[c].at = "running" /\ call'[c].at = "answered"
             /\ watch'[c].alone = "yes" /\ Served(r, watch[c].base)
             => /\ call'[c].reply = x.reply
                /\ \A k \in KeysOf(r) : db'[k] = x.db[k]
  <2> SUFFICES ASSUME Inv, ExactInv, [Next]_vars, NEW c \in Clients,
                      call[c].at = "running", call'[c].at = "answered", watch'[c].alone = "yes",
                      Served(call[c].req, watch[c].base)
               PROVE  LET r == call[c].req
                          x == Expected(r, watch[c].base)
                      IN /\ call'[c].reply = x.reply
                         /\ \A k \in KeysOf(r) : db'[k] = x.db[k]
    OBVIOUS
  <2> DEFINE r == call[c].req
             b == watch[c].base
  <2>1. Promise(c) BY Keeps
  <2>2. ServedAt(r, b, now) BY DEF Served, ServedAt
  <2>3. Finish(r, b, View(db', r), call'[c].reply) BY <2>1, <2>2 DEF Promise
  <2>4. \A k \in KeysOf(r) : View(db', r)[k] = db'[k] BY DEF View
  <2> QED BY <2>3, <2>4 DEF Finish
<1> QED BY <1>1, <1>2, <1>3, Invariance, PTL DEF Spec, UndisturbedExact
=============================================================================
