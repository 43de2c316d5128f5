--------------------------- MODULE CommandsProofs ---------------------------
(***************************************************************************)
(* Theorems about Commands, for any keys, clients, commands and contents.  *)
(***************************************************************************)
EXTENDS CommandsLemmas

\* The steps that name no prover are within reach of Zenon.
USE Zenon

(***************************************************************************)
(* The inductive invariant.  cl is what a client is doing, w what its      *)
(* command has been through, d the database and t the time.                *)
(***************************************************************************)
WatchOK(w) ==
  /\ w = [base |-> w.base, alone |-> w.alone, own |-> w.own, stayed |-> w.stayed]
  /\ w.own \in Int

\* What the calls so far have done agrees with the handler's variables.
Owed(cl, w) ==
  /\ cl.req.name \in {"DEL", "HSET"} => w.own = cl.count
  /\ cl.req.name \in {"INCRBY", "DECRBY"} => w.own = cl.i - 1
  /\ cl.req.name \in Singles => w.own = 0
  /\ cl.req.name = "RENAME" /\ cl.i = 1 => w.own = 0

\* RENAME, left alone: before the Get, before the Set, before the Del.
Moving(cl, w, d, t) ==
  cl.req.name = "RENAME" /\ w.alone = "yes" =>
    LET old == cl.req.args[1]
        new == cl.req.args[2]
    IN /\ cl.i = 1 => d[old] = w.base[old]
       /\ cl.i = 2 => /\ cl.got = w.base[old].str /\ d[old].str = w.base[old].str
                      /\ ~ExpiredAt(d[old], t)
       /\ cl.i = 3 => d[new].str = w.base[old].str /\ ~ExpiredAt(d[new], t)

\* What an answer says about the command's own calls.
Told(cl, w) ==
  /\ "int" \in DOMAIN cl.reply =>
       /\ cl.req.name \in {"DEL", "HSET"} => cl.reply.int = w.own
       /\ cl.req.name \in {"INCRBY", "DECRBY"} =>
            w.own = (IF cl.req.args[2].n > 0 THEN cl.req.args[2].n ELSE 0)
  /\ cl.req.name \notin {"INCRBY", "DECRBY"} /\ Negative(cl.req, cl.reply) => w.own = 0
  /\ cl.req.name = "TYPE" /\ cl.reply = [status |-> "none"] => w.stayed = {}

ClientOK(cl, w, d, t) ==
  /\ WatchOK(w)
  /\ \/ cl = Idle /\ w.own = 0
     \/ RunOK(cl) /\ w.stayed \subseteq KeysOf(cl.req) /\ Owed(cl, w) /\ Moving(cl, w, d, t)
     \/ cl.at = "answered" /\ Told(cl, w)

DbOK(d) == d \in [Keys -> Slot(Values, Words)] /\ \A k \in Keys : Held(d[k])

Inv ==
  /\ DbOK(db) /\ now \in 0..MaxTime
  /\ DOMAIN call = Clients /\ DOMAIN watch = Clients
  /\ \A c \in Clients : ClientOK(call[c], watch[c], db, now)
-----------------------------------------------------------------------------
\* The three things a client may be at.
LEMMA AtIs ==
  ASSUME NEW cl, NEW w, NEW d, NEW t, ClientOK(cl, w, d, t)
  PROVE  /\ WatchOK(w) /\ cl.at \in {"idle", "running", "answered"}
         /\ cl.at = "idle" => cl = Idle /\ w.own = 0
         /\ cl.at = "running" => /\ RunOK(cl) /\ w.stayed \subseteq KeysOf(cl.req)
                                 /\ Owed(cl, w) /\ Moving(cl, w, d, t)
         /\ cl.at = "answered" => Told(cl, w)
<1>1. Idle.at = "idle" BY DEF Idle
<1>2. RunOK(cl) => cl.at = "running" BY DEF RunOK
<1> QED BY <1>1, <1>2 DEF ClientOK

\* What is recorded about a running command when a call changes the slot of k:
\* the command that makes the call, and another one.
Mine(w, ret, gain, live) ==
  [base |-> w.base, alone |-> IF ret = "refused" THEN "no" ELSE w.alone,
   own |-> w.own + gain, stayed |-> w.stayed \cap live]

Theirs(w, ks, k, new, was, live) ==
  [base |-> w.base, alone |-> IF k \in ks /\ new # was THEN "no" ELSE w.alone,
   own |-> w.own, stayed |-> w.stayed \cap live]

Touches(by, k, e, ret) == Touch(by, k, e, ret = "refused")

\* Touch changes one slot,
LEMMA TouchDb ==
  ASSUME Inv, NEW by, NEW k \in Keys, NEW e, NEW ret, Touches(by, k, e, ret)
  PROVE  /\ now' = now /\ DOMAIN db' = Keys /\ db'[k] = e
         /\ \A j \in Keys : j # k => db'[j] = db[j]
         /\ Held(e) => DbOK(db')
<1> db \in [Keys -> Slot(Values, Words)] /\ \A j \in Keys : Held(db[j]) BY DEF Inv, DbOK
<1> db' = [db EXCEPT ![k] = e] /\ now' = now BY DEF Touch, Touches
<1>3. DOMAIN db' = Keys /\ db'[k] = e /\ \A j \in Keys : j # k => db'[j] = db[j]
  OBVIOUS
<1>4. Held(e) => DbOK(db')
  <2> SUFFICES ASSUME Held(e) PROVE DbOK(db') OBVIOUS
  <2>1. e \in Slot(Values, Words) BY DEF Held
  <2>2. db' \in [Keys -> Slot(Values, Words)] BY <2>1
  <2>3. \A j \in Keys : Held(db'[j]) BY <1>3
  <2> QED BY <2>2, <2>3 DEF DbOK
<1> QED BY <1>3, <1>4

\* and what it means for every command that runs.
LEMMA TouchWatch ==
  ASSUME Inv, NEW by, NEW k, NEW e, NEW ret, Touches(by, k, e, ret),
         NEW d \in Clients
  PROVE  /\ DOMAIN watch' = Clients
         /\ call[d].at # "running" => watch'[d] = watch[d]
         /\ call[d].at = "running" /\ d \in by =>
              watch'[d] = Mine(watch[d], ret, Gain(call[d].req.name, db[k], e),
                               LiveKeys(db', now))
         /\ call[d].at = "running" /\ d \notin by =>
              watch'[d] = Theirs(watch[d], KeysOf(call[d].req), k, e, db[k], LiveKeys(db', now))
<1>1. DOMAIN watch' = Clients BY DEF Touch, Touches
<1>2. ASSUME call[d].at # "running" PROVE watch'[d] = watch[d]
  BY <1>2 DEF Touch, Touches
<1>3. ASSUME call[d].at = "running"
      PROVE  /\ d \in by => watch'[d] = Mine(watch[d], ret, Gain(call[d].req.name, db[k], e),
                                             LiveKeys(db', now))
             /\ d \notin by => watch'[d] = Theirs(watch[d], KeysOf(call[d].req), k, e, db[k],
                                                  LiveKeys(db', now))
  <2> DEFINE g == Gain(call[d].req.name, db[k], e)
             w == watch[d]
             alone == IF \/ d \in by /\ ret = "refused"
                         \/ d \notin by /\ k \in KeysOf(call[d].req) /\ e # db[k]
                      THEN "no" ELSE w.alone
             own == IF d \in by THEN w.own + g ELSE w.own
             stayed == w.stayed \cap LiveKeys(db', now)
  <2>1. watch'[d] = [w EXCEPT !.alone = alone, !.own = own, !.stayed = stayed]
    BY <1>3 DEF Touch, Touches
  <2>2. w = [base |-> w.base, alone |-> w.alone, own |-> w.own, stayed |-> w.stayed]
    BY DEF Inv, ClientOK, WatchOK
  <2>3. watch'[d] = [base |-> w.base, alone |-> alone, own |-> own, stayed |-> stayed]
    <3> HIDE DEF w, alone, own, stayed
    <3>1. w \in [base : {w.base}, alone : {w.alone}, own : {w.own}, stayed : {w.stayed}]
      BY <2>2
    <3> DEFINE v == [w EXCEPT !.alone = alone, !.own = own, !.stayed = stayed]
    <3>2. v \in [base : {w.base}, alone : {alone}, own : {own}, stayed : {stayed}] BY <3>1
    <3> HIDE DEF v
    <3>3. v = [base |-> w.base, alone |-> alone, own |-> own, stayed |-> stayed] BY <3>2
    <3> QED BY <2>1, <3>3 DEF v
  <2>4. CASE d \in by BY <2>3, <2>4 DEF Mine
  <2>5. CASE d \notin by BY <2>3, <2>5 DEF Theirs
  <2> QED BY <2>4, <2>5
<1> QED BY <1>1, <1>2, <1>3

\* The commands of the other clients: a call changes no key of theirs, or they
\* are no longer alone.
LEMMA OthersOK ==
  ASSUME Inv, NEW by, NEW k \in Keys, NEW e, NEW ret, Touches(by, k, e, ret),
         NEW d \in Clients, d \notin by
  PROVE  ClientOK(call[d], watch'[d], db', now')
<1> DEFINE cl == call[d]
           w == watch[d]
           v == watch'[d]
<1>1. ClientOK(cl, w, db, now) BY DEF Inv
<1>2. CASE cl.at # "running"
  <2>1. v = w BY <1>2, TouchWatch
  <2>2. ClientOK(cl, w, db', now') BY <1>1, <1>2, AtIs DEF ClientOK
  <2> QED BY <2>1, <2>2
<1>3. CASE cl.at = "running"
  <2> DEFINE hit == k \in KeysOf(cl.req) /\ e # db[k]
             live == LiveKeys(db', now)
  <2> v = [base |-> w.base, alone |-> IF hit THEN "no" ELSE w.alone,
           own |-> w.own, stayed |-> w.stayed \cap live]
    <3>1. v = Theirs(w, KeysOf(cl.req), k, e, db[k], live) BY <1>3, TouchWatch, SMT
    <3> QED BY <3>1 DEF Theirs
  <2> /\ WatchOK(w) /\ RunOK(cl) /\ w.stayed \subseteq KeysOf(cl.req)
      /\ Owed(cl, w) /\ Moving(cl, w, db, now)
    BY <1>1, <1>3, AtIs
  <2>3. now' = now /\ db'[k] = e /\ \A j \in Keys : j # k => db'[j] = db[j]
    BY TouchDb
  <2>4. v.alone = "yes" => w.alone = "yes" /\ \A j \in KeysOf(cl.req) \cap Keys : db'[j] = db[j]
    <3> HIDE DEF live, w, cl
    <3> QED BY <2>3, SMT
  <2> HIDE DEF hit, live, cl, w, v
  <2> WatchOK(v) /\ v.own = w.own /\ v.base = w.base BY DEF WatchOK
  <2>6. v.stayed \subseteq KeysOf(cl.req) OBVIOUS
  <2>7. Owed(cl, v) BY DEF Owed
  <2>8. Moving(cl, v, db', now')
    <3> SUFFICES ASSUME cl.req.name = "RENAME", v.alone = "yes" PROVE Moving(cl, v, db', now')
      BY DEF Moving
    <3>1. Request(cl.req) /\ ~Rejected(cl.req) BY DEF RunOK
    <3>2. cl.req.args[1] \in KeysOf(cl.req) \cap Keys /\ cl.req.args[2] \in KeysOf(cl.req) \cap Keys
      BY <3>1, RenameKeys
    <3>3. db'[cl.req.args[1]] = db[cl.req.args[1]] /\ db'[cl.req.args[2]] = db[cl.req.args[2]]
      BY <2>4, <3>2
    <3> QED BY <2>3, <2>4, <3>3 DEF Moving
  <2> QED BY <2>6, <2>7, <2>8 DEF ClientOK, cl, v
<1> QED BY <1>2, <1>3
-----------------------------------------------------------------------------
\* The parts of what is recorded about the command that makes the call.
LEMMA MineIs ==
  ASSUME NEW w, WatchOK(w), NEW ret, NEW gain \in Int, NEW live,
         NEW v, v = Mine(w, ret, gain, live)
  PROVE  /\ WatchOK(v) /\ v.own = w.own + gain /\ v.base = w.base
         /\ v.stayed = w.stayed \cap live
         /\ v.alone = "yes" => ret # "refused" /\ w.alone = "yes"
BY SMT DEF WatchOK, Mine

\* A call of client c on key k, after which the client is at x.
LEMMA EngineStep ==
  ASSUME Inv, NEW c \in Clients, call[c].at = "running", NEW k \in Keys, NEW o,
         Held(o.slot), Engine(c, k, o), NEW x, call' = [call EXCEPT ![c] = x],
         ClientOK(x, Mine(watch[c], o.ret,
                          Gain(call[c].req.name, db[k], o.slot), LiveKeys(db', now)), db', now)
  PROVE  Inv'
<1> Touches({c}, k, o.slot, o.ret) BY DEF Engine, Touches
<1>2. DbOK(db') /\ now' = now BY TouchDb
<1>3. DOMAIN call = Clients /\ now \in 0..MaxTime BY DEF Inv
<1> DOMAIN call' = Clients /\ call'[c] = x /\ \A d \in Clients : d # c => call'[d] = call[d]
  BY <1>3
<1>5. DOMAIN watch' = Clients BY TouchWatch
<1>6. watch'[c] = Mine(watch[c], o.ret,
                       Gain(call[c].req.name, db[k], o.slot), LiveKeys(db', now))
  <2>1. c \in {c} OBVIOUS
  <2> QED BY <2>1, TouchWatch, SMTT(15)
<1>7. ASSUME NEW d \in Clients PROVE ClientOK(call'[d], watch'[d], db', now')
  <2>1. CASE d = c BY <1>2, <1>6, <2>1
  <2>2. CASE d # c
    <3>0. d \notin {c} BY <2>2
    <3>1. ClientOK(call[d], watch'[d], db', now') BY <3>0, OthersOK
    <3> QED BY <2>2, <3>1
  <2> QED BY <2>1, <2>2
<1> QED BY <1>2, <1>3, <1>5, <1>7 DEF Inv

\* A running command of client c.
LEMMA Doing ==
  ASSUME Inv, NEW c \in Clients, call[c].at = "running"
  PROVE  /\ RunOK(call[c]) /\ WatchOK(watch[c]) /\ Owed(call[c], watch[c])
         /\ watch[c].stayed \subseteq KeysOf(call[c].req)
         /\ Moving(call[c], watch[c], db, now)
         /\ Request(call[c].req) /\ ~Rejected(call[c].req)
         /\ KeysOf(call[c].req) \subseteq Keys /\ call[c].req.args[1] \in KeysOf(call[c].req)
         /\ \A k \in Keys : Held(db[k])
         /\ now \in Int
<1>1. ClientOK(call[c], watch[c], db, now) BY DEF Inv
<1>2. now \in Int /\ \A k \in Keys : Held(db[k]) BY CommandsConstants, SMT DEF Inv, DbOK
<1>3. RunOK(call[c]) BY <1>1, AtIs
<1>4. Request(call[c].req) /\ ~Rejected(call[c].req) BY <1>3 DEF RunOK
<1> QED BY <1>1, <1>2, <1>3, <1>4, AtIs, Arguments

\* The command answers.
LEMMA Answered ==
  ASSUME NEW r, NEW y, NEW w, NEW d, NEW t, WatchOK(w),
         Told([at |-> "answered", req |-> r, reply |-> y], w)
  PROVE  ClientOK([at |-> "answered", req |-> r, reply |-> y], w, d, t)
BY DEF ClientOK
-----------------------------------------------------------------------------
\* What a call does towards the command's answer, command by command.
LEMMA GainIs ==
  ASSUME NEW name, NEW e, NEW f, Held(e), Held(f)
  PROVE  /\ Gain(name, e, f) \in Int
         /\ name = "DEL" => Gain(name, e, f) = IF Present(e) /\ ~Present(f) THEN 1 ELSE 0
         /\ name = "HSET" =>
              Gain(name, e, f) = Cardinality(DOMAIN HashOf(f)) - Cardinality(DOMAIN HashOf(e))
         /\ name \in {"INCRBY", "DECRBY"} => Gain(name, e, f) = IF f # e THEN 1 ELSE 0
         /\ name \notin {"DEL", "HSET", "INCRBY", "DECRBY"} =>
              Gain(name, e, f) = IF f # e /\ ~ExpiredAt(e, now) THEN 1 ELSE 0
<1>1. Cardinality(DOMAIN HashOf(f)) \in Nat /\ Cardinality(DOMAIN HashOf(e)) \in Nat
  BY FS_CardinalityType DEF Held
<1>2. name = "DEL" => Gain(name, e, f) = IF Present(e) /\ ~Present(f) THEN 1 ELSE 0
  BY DEF Gain
<1>3. name = "HSET" =>
        Gain(name, e, f) = Cardinality(DOMAIN HashOf(f)) - Cardinality(DOMAIN HashOf(e))
  BY DEF Gain
<1>4. name \in {"INCRBY", "DECRBY"} => Gain(name, e, f) = IF f # e THEN 1 ELSE 0
  BY DEF Gain
<1>5. name \notin {"DEL", "HSET", "INCRBY", "DECRBY"} =>
        Gain(name, e, f) = IF f # e /\ ~ExpiredAt(e, now) THEN 1 ELSE 0
  BY DEF Gain
<1>6. Gain(name, e, f) \in Int
  <2>1. CASE name = "HSET" BY <1>1, <1>3, <2>1, SMT
  <2>2. CASE name # "HSET" BY <1>2, <1>4, <1>5, <2>2, SMT
  <2> QED BY <2>1, <2>2
<1> QED BY <1>2, <1>3, <1>4, <1>5, <1>6

\* Commands of one call.
LEMMA SingleStep ==
  ASSUME Inv, NEW c \in Clients, Single(c)
  PROVE  Inv'
<1> DEFINE r == call[c].req
           k == r.args[1]
           e == db[k]
<1> call[c].at = "running" /\ r.name \in Singles BY DEF Single, Running
<1>2. PICK o \in OneCall(r, e) : Engine(c, k, o) /\ Reply(c, o.reply) BY DEF Single
<1> /\ WatchOK(watch[c]) /\ Owed(call[c], watch[c]) /\ Request(r) /\ ~Rejected(r)
    /\ k \in Keys /\ Held(e) /\ now \in Int
  BY Doing
<1>4. Fair(r, e, o) BY SingleFair
<1> DEFINE x == [at |-> "answered", req |-> r, reply |-> o.reply]
           g == Gain(r.name, e, o.slot)
           v == Mine(watch[c], o.ret, g, LiveKeys(db', now))
<1>5. r.name \notin Composites BY Apart
<1>6. Held(o.slot) BY <1>4 DEF Fair
<1>7. g \in Int /\ g = IF o.slot # e /\ ~ExpiredAt(e, now) THEN 1 ELSE 0
  BY <1>5, <1>6, GainIs, SMTT(15) DEF Composites
<1>8. Negative(r, o.reply) => g = 0 BY <1>4, <1>7 DEF Fair
<1>9. watch[c].own = 0 BY DEF Owed
<1> HIDE DEF g
<1>10. WatchOK(v) /\ v.own = g
  <2>1. g \in Int /\ WatchOK(watch[c]) BY <1>7
  <2>2. v = Mine(watch[c], o.ret, g, LiveKeys(db', now)) OBVIOUS
  <2> HIDE DEF v
  <2>3. WatchOK(v) /\ v.own = watch[c].own + g BY <2>1, <2>2, MineIs, SMTT(15)
  <2> QED BY <1>9, <2>1, <2>3, SMTT(15)
<1> HIDE DEF v, k, e
<1>11. Told(x, v)
  <2>1. x.req = r /\ x.reply = o.reply OBVIOUS
  <2> HIDE DEF x, r
  <2> QED BY <1>5, <1>8, <1>10, <2>1 DEF Told, Composites
<1>12. ClientOK(x, v, db', now) BY <1>10, <1>11, Answered
<1>13. call' = [call EXCEPT ![c] = x] BY <1>2 DEF Reply
<1> HIDE DEF x
<1> QED BY <1>2, <1>6, <1>12, <1>13, EngineStep DEF v, g, e

\* A command that goes on is as far as it should be.
LEMMA Continued ==
  ASSUME NEW cl, RunOK(cl), NEW n \in Nat, n <= cl.i, NEW v \in Values, NEW f \in Seq(Values),
         cl.i + 1 <= Calls(cl.req), NEW w, WatchOK(w), w.stayed \subseteq KeysOf(cl.req),
         NEW d, NEW t,
         Owed(NextCall(cl, n, v, f), w), Moving(NextCall(cl, n, v, f), w, d, t)
  PROVE  ClientOK(NextCall(cl, n, v, f), w, d, t)
<1> DEFINE x == NextCall(cl, n, v, f)
<1>1. RunOK(x) /\ x.req = cl.req BY GoesOn DEF NextCall
<1> HIDE DEF x
<1> QED BY <1>1 DEF ClientOK, x

\* What is recorded about the command of client c after its call on k.
Kept(c, k, o) ==
  Mine(watch[c], o.ret, Gain(call[c].req.name, db[k], o.slot), LiveKeys(db', now))

\* The parts of that record.
LEMMA KeptIs ==
  ASSUME Inv, NEW c \in Clients, call[c].at = "running", NEW k \in Keys, NEW o, Held(o.slot)
  PROVE  /\ WatchOK(Kept(c, k, o)) /\ Kept(c, k, o).base = watch[c].base
         /\ Gain(call[c].req.name, db[k], o.slot) \in Int
         /\ Kept(c, k, o).own = watch[c].own + Gain(call[c].req.name, db[k], o.slot)
         /\ Kept(c, k, o).stayed = watch[c].stayed \cap LiveKeys(db', now)
         /\ Kept(c, k, o).stayed \subseteq KeysOf(call[c].req)
         /\ Kept(c, k, o).alone = "yes" => o.ret # "refused" /\ watch[c].alone = "yes"
<1> WatchOK(watch[c]) /\ Held(db[k]) /\ watch[c].stayed \subseteq KeysOf(call[c].req) BY Doing
<1>2. Gain(call[c].req.name, db[k], o.slot) \in Int BY GainIs
<1> DEFINE v == Kept(c, k, o)
<1>3. /\ WatchOK(v) /\ v.own = watch[c].own + Gain(call[c].req.name, db[k], o.slot)
      /\ v.base = watch[c].base
      /\ v.stayed = watch[c].stayed \cap LiveKeys(db', now)
      /\ v.alone = "yes" => o.ret # "refused" /\ watch[c].alone = "yes"
  BY <1>2, MineIs, SMTT(15) DEF Kept
<1> HIDE DEF v
<1>4. v.stayed \subseteq KeysOf(call[c].req) BY <1>3
<1> QED BY <1>2, <1>3, <1>4 DEF v

\* The client's last call, after which it is answered.
LEMMA LastCall ==
  ASSUME Inv, NEW c \in Clients, call[c].at = "running", NEW k \in Keys, NEW o,
         Held(o.slot), Engine(c, k, o), NEW y, Reply(c, y),
         Told([at |-> "answered", req |-> call[c].req, reply |-> y], Kept(c, k, o))
  PROVE  Inv'
<1> DEFINE x == [at |-> "answered", req |-> call[c].req, reply |-> y]
<1>1. WatchOK(Kept(c, k, o)) BY KeptIs
<1>2. ClientOK(x, Kept(c, k, o), db', now) BY <1>1, Answered
<1>3. call' = [call EXCEPT ![c] = x] BY DEF Reply
<1> HIDE DEF x
<1> QED BY <1>2, <1>3, EngineStep DEF Kept

\* A call that is not the client's last.
LEMMA MoreCalls ==
  ASSUME Inv, NEW c \in Clients, call[c].at = "running", NEW k \in Keys, NEW o,
         Held(o.slot), Engine(c, k, o),
         NEW n \in Nat, n <= call[c].i, NEW v \in Values, NEW f \in Seq(Values),
         call' = [call EXCEPT ![c] = NextCall(call[c], n, v, f)],
         call[c].i + 1 <= Calls(call[c].req),
         Owed(NextCall(call[c], n, v, f), Kept(c, k, o)),
         Moving(NextCall(call[c], n, v, f), Kept(c, k, o), db', now)
  PROVE  Inv'
<1>1. WatchOK(Kept(c, k, o)) /\ Kept(c, k, o).stayed \subseteq KeysOf(call[c].req) BY KeptIs
<1>2. RunOK(call[c]) BY Doing
<1>3. ClientOK(NextCall(call[c], n, v, f), Kept(c, k, o), db', now) BY <1>1, <1>2, Continued
<1> QED BY <1>3, EngineStep DEF Kept

\* The commands that count nothing and move nothing owe nothing in between.
LEMMA OwesNothing ==
  ASSUME NEW cl, NEW w, NEW d, NEW t, cl.req.name \in {"TYPE", "APPEND", "MSET", "MGET"}
  PROVE  Owed(cl, w) /\ Moving(cl, w, d, t)
<1>1. cl.req.name \notin Singles BY Apart DEF Composites
<1> QED BY <1>1 DEF Owed, Moving

\* DEL: one Del for every key.
LEMMA DelStep ==
  ASSUME Inv, NEW c \in Clients, Del(c)
  PROVE  Inv'
<1> DEFINE p == call[c]
           k == p.req.args[p.i]
           e == db[k]
<1> p.at = "running" /\ p.req.name = "DEL" BY DEF Del, Running
<1> PICK o \in DelCall(e) :
      /\ Engine(c, k, o)
      /\ IF p.i = Len(p.req.args)
         THEN Reply(c, Num(p.count + (IF o.ret = "ok" THEN 1 ELSE 0)))
         ELSE GoOn(c, [p EXCEPT !.count = p.count + (IF o.ret = "ok" THEN 1 ELSE 0)])
  BY DEF Del
<1> DEFINE n == p.count + (IF o.ret = "ok" THEN 1 ELSE 0)
<1> /\ RunOK(p) /\ Owed(p, watch[c]) /\ Request(p.req) /\ ~Rejected(p.req)
    /\ KeysOf(p.req) \subseteq Keys /\ \A j \in Keys : Held(db[j])
  BY Doing
<1>4. p.i \in 1..Len(p.req.args) /\ Calls(p.req) = Len(p.req.args) /\ Len(p.req.args) \in Nat
  BY CallsKind, RequestKind DEF RunOK
<1>5. KeyAt(p.req) = 1..Len(p.req.args) BY DEF KeyAt
<1> k \in Keys /\ Held(e) BY <1>4, <1>5 DEF KeysOf
<1> HIDE DEF k, e
<1> /\ Held(o.slot)
    /\ o.ret = "ok" => Present(e) /\ o.slot = EmptySlot
    /\ o.ret # "ok" => o.slot = e
  BY DelFacts
<1>8. ~Present(EmptySlot) BY DEF Present, EmptySlot
<1>9. Gain(p.req.name, e, o.slot) = IF o.ret = "ok" THEN 1 ELSE 0
  <2>1. Gain(p.req.name, e, o.slot) = IF Present(e) /\ ~Present(o.slot) THEN 1 ELSE 0
    BY GainIs, SMT
  <2> QED BY <1>8, <2>1
<1> p.count \in Nat /\ p.got \in Values /\ p.found \in Seq(Values) /\ p.i \in Nat
    /\ p.count < p.i /\ watch[c].own = p.count
  BY DEF RunOK, Owed
<1>11. n \in Nat /\ n <= p.i BY SMTT(15)
<1> DEFINE w == Kept(c, k, o)
<1>12. w.own = n
  <2>1. w.own = watch[c].own + Gain(p.req.name, e, o.slot) BY KeptIs DEF e
  <2> QED BY <1>9, <2>1
<1> HIDE DEF n, w
<1>13. CASE p.i = Len(p.req.args)
  <2>1. Reply(c, Num(n)) BY <1>13 DEF n
  <2> DEFINE x == [at |-> "answered", req |-> p.req, reply |-> Num(n)]
  <2>2. Told(x, w)
    <3>1. x.req = p.req /\ x.reply = Num(n) OBVIOUS
    <3> HIDE DEF x, p
    <3> QED BY <1>12, <3>1, Replies, SMT DEF Told, Negative
  <2> QED BY <2>1, <2>2, LastCall DEF w
<1>14. CASE p.i # Len(p.req.args)
  <2> DEFINE x == NextCall(p, n, p.got, p.found)
  <2>1. call' = [call EXCEPT ![c] = x]
    <3>1. GoOn(c, [p EXCEPT !.count = n]) BY <1>14 DEF n
    <3>2. [[p EXCEPT !.count = n] EXCEPT !.i = @ + 1] = x BY GoOnIs
    <3> QED BY <3>1, <3>2 DEF GoOn
  <2>2. p.i + 1 <= Calls(p.req) BY <1>4, <1>14, SMTT(15)
  <2>3. Owed(x, w) /\ Moving(x, w, db', now)
    <3>1. x.req = p.req /\ x.count = n BY DEF NextCall
    <3> HIDE DEF x, p
    <3>2. x.req.name \notin Singles BY <3>1, Apart DEF Composites
    <3> QED BY <1>12, <3>1, <3>2 DEF Owed, Moving
  <2> HIDE DEF x
  <2> QED BY <1>11, <2>1, <2>2, <2>3, MoreCalls DEF w, x
<1> QED BY <1>13, <1>14

\* A step of client c that makes no call.
LEMMA OwnStep ==
  ASSUME Inv, NEW c \in Clients, NEW x, call' = [call EXCEPT ![c] = x],
         UNCHANGED <<db, now>>, DOMAIN watch' = Clients,
         \A d \in Clients : d # c => watch'[d] = watch[d], ClientOK(x, watch'[c], db, now)
  PROVE  Inv'
<1>1. DOMAIN call = Clients /\ DbOK(db) /\ now \in 0..MaxTime BY DEF Inv
<1> DOMAIN call' = Clients /\ call'[c] = x /\ \A d \in Clients : d # c => call'[d] = call[d]
  BY <1>1
<1>3. ASSUME NEW d \in Clients PROVE ClientOK(call'[d], watch'[d], db, now)
  <2>1. CASE d = c BY <2>1
  <2>2. CASE d # c
    <3>1. ClientOK(call[d], watch[d], db, now) BY DEF Inv
    <3> QED BY <2>2, <3>1
  <2> QED BY <2>1, <2>2
<1> QED BY <1>1, <1>3 DEF Inv

\* INCRBY and DECRBY of an amount that is not positive.
LEMMA IncrByNoneStep ==
  ASSUME Inv, NEW c \in Clients, IncrByNone(c)
  PROVE  Inv'
<1> DEFINE p == call[c]
           x == [at |-> "answered", req |-> p.req, reply |-> Num(0)]
<1> /\ p.at = "running" /\ p.req.name \in {"INCRBY", "DECRBY"} /\ p.req.args[2].n <= 0
    /\ call' = [call EXCEPT ![c] = x] /\ UNCHANGED <<db, now, watch>>
  BY DEF IncrByNone, Running, Reply
<1> RunOK(p) /\ Owed(p, watch[c]) /\ WatchOK(watch[c]) /\ Request(p.req) /\ ~Rejected(p.req)
  BY Doing
<1>3. p.req.args[2].n \in Int BY CallsKind
<1>4. Calls(p.req) = 1 BY <1>3, SMTT(15) DEF Calls
<1>5. p.i = 1 /\ watch[c].own = p.i - 1 BY <1>4, SMTT(15) DEF RunOK, Owed
<1>6. Told(x, watch[c])
  <2>1. x.req = p.req /\ x.reply = Num(0) OBVIOUS
  <2> HIDE DEF x, p
  <2> QED BY <1>3, <1>5, <2>1, Replies, SMTT(15) DEF Told
<1>7. ClientOK(x, watch[c], db, now) BY <1>6, Answered
<1>8. DOMAIN watch' = Clients /\ watch' = watch BY DEF Inv
<1> HIDE DEF x
<1> QED BY <1>7, <1>8, OwnStep

\* A step of Incr or Decr that succeeds changes the string, at either end of the
\* range of an int as well.
LEMMA AddMoves ==
  ASSUME NEW e, Held(e), NEW d \in {1, -1}, ~(e.str # Absent /\ NotInt(e.str))
  PROVE  AddOp(e, d) # e
<1> DEFINE v == IF e.str = Absent THEN Canonical(0) ELSE e.str
           n == Wrap(v.n + d)
<1>1. e \in Slot(Values, Words) /\ e.str \in {Absent} \cup Values BY DEF Held, Slot
<1> v.form # "text" /\ v.n \in Int BY <1>1, StringKinds, SMT DEF NotInt, Canonical
<1>3. AddOp(e, d) = [e EXCEPT !.str = Canonical(n)] BY DEF AddOp
<1>4. AddOp(e, d).str = Canonical(n) BY <1>1, <1>3 DEF Slot
<1>5. n \in -MaxInt - 1..MaxInt BY WrapRange, SMT
<1>6. n # v.n
  <2> HIDE DEF v
  <2> QED BY StoreOpsConstants, SMT DEF Wrap
<1>7. Canonical(n) # Absent BY <1>5, StringKinds
<1>8. Canonical(n).n = n BY DEF Canonical
<1> HIDE DEF n
<1> QED BY <1>4, <1>6, <1>7, <1>8

\* INCRBY and DECRBY: one Incr or Decr after the other.
LEMMA IncrByStep ==
  ASSUME Inv, NEW c \in Clients, IncrBy(c)
  PROVE  Inv'
<1> DEFINE p == call[c]
           k == p.req.args[1]
           e == db[k]
           m == p.req.args[2].n
<1>1. p.at = "running" /\ p.req.name \in {"INCRBY", "DECRBY"} /\ m > 0
  BY DEF IncrBy, Running
<1>2. PICK d \in {1, -1} : \E o \in AddCall(e, d) :
        /\ Engine(c, k, o)
        /\ IF o.ret # "ok" THEN Reply(c, Err)
           ELSE IF p.i = m THEN Reply(c, Num(o.val)) ELSE GoOn(c, p)
  BY DEF IncrBy
<1>3. PICK o \in AddCall(e, d) :
        /\ Engine(c, k, o)
        /\ IF o.ret # "ok" THEN Reply(c, Err)
           ELSE IF p.i = m THEN Reply(c, Num(o.val)) ELSE GoOn(c, p)
  BY <1>2
<1>4. /\ RunOK(p) /\ Owed(p, watch[c]) /\ Request(p.req) /\ ~Rejected(p.req)
      /\ k \in Keys /\ Held(e)
  BY <1>1, Doing
<1>5. m \in Int BY <1>1, <1>4, CallsKind
<1>6. Calls(p.req) = m
  <2>1. Calls(p.req) = IF m > 1 THEN m ELSE 1 BY <1>1 DEF Calls
  <2>2. m > 1 \/ m = 1 BY <1>1, <1>5, SMT
  <2> QED BY <2>1, <2>2
<1>7. /\ p.i \in 1..m /\ p.count \in Nat /\ p.got \in Values /\ p.found \in Seq(Values)
      /\ p.count <= p.i /\ watch[c].own = p.i - 1
  BY <1>1, <1>4, <1>6, SMTT(15) DEF RunOK, Owed
<1> HIDE DEF e, k
<1>8. /\ Held(o.slot)
      /\ o.ret = "ok" => o.slot = AddOp(e, d) /\ ~(e.str # Absent /\ NotInt(e.str))
  BY <1>4, AddFacts
<1> DEFINE w == Kept(c, k, o)
<1>9. o.ret = "ok" => w.own = p.i
  <2> SUFFICES ASSUME o.ret = "ok" PROVE w.own = p.i OBVIOUS
  <2>1. o.slot # e BY <1>4, <1>8, AddMoves
  <2>2. Gain(p.req.name, e, o.slot) = 1 BY <1>1, <1>4, <1>8, <2>1, GainIs, SMTT(15)
  <2>3. w.own = watch[c].own + Gain(p.req.name, e, o.slot) BY <1>1, <1>4, <1>8, KeptIs DEF e
  <2> QED BY <1>5, <1>7, <2>2, <2>3, SMTT(15)
<1> HIDE DEF w, m
<1>10. CASE o.ret # "ok"
  <2>1. Reply(c, Err) BY <1>3, <1>10
  <2> DEFINE x == [at |-> "answered", req |-> p.req, reply |-> Err]
  <2>2. Told(x, w)
    <3>1. x.req = p.req /\ x.reply = Err OBVIOUS
    <3> HIDE DEF x, p
    <3> QED BY <1>1, <3>1, Replies DEF Told
  <2> QED BY <1>1, <1>3, <1>4, <1>8, <2>1, <2>2, LastCall DEF w
<1>11. CASE o.ret = "ok" /\ p.i = m
  <2>1. Reply(c, Num(o.val)) BY <1>3, <1>11
  <2> DEFINE x == [at |-> "answered", req |-> p.req, reply |-> Num(o.val)]
  <2>2. Told(x, w)
    <3>1. x.req = p.req BY DEF m
    <3>2. w.own = p.req.args[2].n /\ p.req.args[2].n > 0 BY <1>1, <1>9, <1>11 DEF m
    <3> HIDE DEF x, p
    <3> QED BY <1>1, <3>1, <3>2 DEF Told
  <2> QED BY <1>1, <1>3, <1>4, <1>8, <2>1, <2>2, LastCall DEF w
<1>12. CASE o.ret = "ok" /\ p.i # m
  <2> DEFINE x == NextCall(p, p.count, p.got, p.found)
  <2>1. call' = [call EXCEPT ![c] = x]
    <3>1. GoOn(c, p) BY <1>3, <1>12
    <3>2. [p EXCEPT !.i = @ + 1] = x BY <1>4, GoOnIs
    <3> QED BY <3>1, <3>2 DEF GoOn
  <2>2. p.i + 1 <= Calls(p.req) BY <1>5, <1>6, <1>7, <1>12, SMTT(15) DEF m
  <2>3. Owed(x, w) /\ Moving(x, w, db', now)
    <3>1. x.req = p.req /\ x.i = p.i + 1 BY DEF NextCall
    <3>3. p.i \in Int /\ w.own = p.i BY <1>7, <1>9, <1>12, SMT
    <3> HIDE DEF x, p
    <3>2. x.req.name \notin Singles BY <1>1, <3>1, Apart DEF Composites
    <3> QED BY <1>1, <3>1, <3>2, <3>3, SMTT(15) DEF Owed, Moving
  <2> HIDE DEF x
  <2> QED BY <1>1, <1>3, <1>4, <1>7, <1>8, <2>1, <2>2, <2>3, MoreCalls DEF w, x
<1> QED BY <1>10, <1>11, <1>12

\* RENAME: the string is under the new name before it goes from the old one.
LEMMA RenameStep ==
  ASSUME Inv, NEW c \in Clients, Rename(c)
  PROVE  Inv'
<1> DEFINE p == call[c]
           old == p.req.args[1]
           new == p.req.args[2]
           got == GetCall(db[old])
<1>1. p.at = "running" /\ p.req.name = "RENAME" BY DEF Rename, Running
<1>2. /\ RunOK(p) /\ Owed(p, watch[c]) /\ Moving(p, watch[c], db, now)
      /\ Request(p.req) /\ ~Rejected(p.req)
  BY <1>1, Doing
<1>3. old \in Keys /\ new \in Keys BY <1>1, <1>2, RenameKeys
<1>4. Held(db[old]) /\ Held(db[new]) BY <1>1, <1>3, Doing
<1>5. Calls(p.req) = 3 /\ p.i \in 1..3 BY <1>1, <1>2 DEF RunOK, Calls
<1>6. p.count \in Nat /\ p.got \in Values /\ p.found \in Seq(Values) /\ p.count <= p.i
  BY <1>2, SMTT(15) DEF RunOK
<1>7. ASSUME NEW n, n = p.count, NEW v, NEW w PROVE Owed(NextCall(p, n, v, p.found), w)
  <2> DEFINE x == NextCall(p, n, v, p.found)
  <2>1. x.req = p.req /\ x.i = p.i + 1 BY DEF NextCall
  <2>2. p.i + 1 # 1 BY <1>5, SMT
  <2> HIDE DEF x, p
  <2>3. x.req.name \notin Singles BY <1>1, <2>1, Apart DEF Composites
  <2> QED BY <1>1, <2>1, <2>2, <2>3 DEF Owed, x
<1>8. CASE p.i = 1 /\ Engine(c, old, got) /\
           IF got.ret = "ok" THEN GoOn(c, [p EXCEPT !.got = got.val]) ELSE Reply(c, Err)
  <2>1. Held(got.slot) /\ got.ret \in {"ok", "missing"} BY <1>4, GetFacts
  <2>2. /\ got.ret = "ok" => /\ got.slot = db[old] /\ got.val = db[old].str
                             /\ db[old].str \in Values /\ ~ExpiredAt(db[old], now)
        /\ got.ret = "missing" => got.slot = db[old] \/ ExpiredAt(db[old], now)
    BY <1>4, GetFacts
  <2> HIDE DEF got
  <2> DEFINE w == Kept(c, old, got)
  <2>3. w.base = watch[c].base /\ (w.alone = "yes" => watch[c].alone = "yes")
    BY <1>1, <1>3, <2>1, KeptIs
  <2>4. CASE got.ret = "ok"
    <3> DEFINE x == NextCall(p, p.count, got.val, p.found)
    <3>1. call' = [call EXCEPT ![c] = x]
      <4>1. GoOn(c, [p EXCEPT !.got = got.val]) BY <1>8, <2>4
      <4>2. [[p EXCEPT !.got = got.val] EXCEPT !.i = @ + 1] = x BY <1>2, GoOnIs
      <4> QED BY <4>1, <4>2 DEF GoOn
    <3>2. Moving(x, w, db', now)
      <4>1. x.req = p.req /\ x.i = 2 /\ x.got = db[old].str BY <1>8, <2>2, <2>4, NextIs, SMTT(15)
      <4>2. db'[old] = db[old]
        <5>1. Touches({c}, old, got.slot, got.ret) BY <1>8 DEF Engine, Touches
        <5> QED BY <1>3, <2>2, <2>4, <5>1, TouchDb, SMTT(15)
      <4>3. watch[c].alone = "yes" => db[old] = watch[c].base[old]
        BY <1>1, <1>2, <1>8 DEF Moving
      <4>4. x.req.args[1] = old BY <4>1
      <4> HIDE DEF w, x, old, p
      <4> SUFFICES ASSUME w.alone = "yes" PROVE Moving(x, w, db', now) BY DEF Moving
      <4>5. /\ x.got = w.base[old].str /\ db'[old].str = w.base[old].str
            /\ ~ExpiredAt(db'[old], now)
        BY <2>2, <2>3, <2>4, <4>1, <4>2, <4>3
      <4>6. x.i # 1 /\ x.i # 3 BY <4>1, SMT
      <4> QED BY <4>4, <4>5, <4>6 DEF Moving
    <3>3. p.i + 1 <= Calls(p.req) BY <1>5, <1>8, SMT
    <3>4. Owed(x, w) BY <1>7
    <3>5. got.val \in Values BY <2>2, <2>4
    <3> HIDE DEF x, old
    <3> QED BY <1>1, <1>3, <1>6, <1>8, <2>1, <3>1, <3>2, <3>3, <3>4, <3>5, MoreCalls DEF w, x
  <2>5. CASE got.ret # "ok"
    <3> DEFINE x == [at |-> "answered", req |-> p.req, reply |-> Err]
    <3>1. Reply(c, Err) BY <1>8, <2>5
    <3>2. Gain(p.req.name, db[old], got.slot) = 0
      <4>1. Gain(p.req.name, db[old], got.slot) =
              IF got.slot # db[old] /\ ~ExpiredAt(db[old], now) THEN 1 ELSE 0
        <5>1. p.req.name \notin {"DEL", "HSET", "INCRBY", "DECRBY"} BY <1>1
        <5> QED BY <1>4, <2>1, <5>1, GainIs, SMTT(15)
      <4> QED BY <2>1, <2>2, <2>5, <4>1
    <3>3. watch[c].own = 0 BY <1>1, <1>2, <1>8 DEF Owed
    <3>4. w.own = 0 BY <1>1, <1>3, <2>1, <3>2, <3>3, KeptIs, SMTT(15)
    <3>5. Told(x, w)
      <4>1. x.req = p.req /\ x.reply = Err OBVIOUS
      <4> HIDE DEF x, p, w
      <4> QED BY <1>1, <3>4, <4>1, Replies DEF Told
    <3> QED BY <1>1, <1>3, <1>8, <2>1, <3>1, <3>5, LastCall
  <2> QED BY <2>4, <2>5
<1>9. CASE p.i = 2 /\ (\E o \in SetCall(db[new], p.got) : Engine(c, new, o)) /\ GoOn(c, p)
  <2>1. PICK o \in SetCall(db[new], p.got) : Engine(c, new, o) BY <1>9
  <2>2. /\ Held(o.slot) /\ o.ret \in {"ok", "refused"}
        /\ o.ret = "ok" => o.slot = SetOp(db[new], p.got)
    BY <1>4, <1>6, SetFacts, SMTT(15)
  <2> DEFINE w == Kept(c, new, o)
             x == NextCall(p, p.count, p.got, p.found)
  <2>3. /\ w.base = watch[c].base
        /\ w.alone = "yes" => o.ret # "refused" /\ watch[c].alone = "yes"
    BY <1>1, <1>3, <2>2, KeptIs
  <2>4. call' = [call EXCEPT ![c] = x]
    <3>1. [p EXCEPT !.i = @ + 1] = x BY <1>2, GoOnIs
    <3> QED BY <1>9, <3>1 DEF GoOn
  <2>5. Moving(x, w, db', now)
    <3> SUFFICES ASSUME w.alone = "yes" PROVE Moving(x, w, db', now) BY DEF Moving
    <3>1. x.req = p.req /\ x.i = 3
      <4>1. x.req = p.req /\ x.i = p.i + 1 BY DEF NextCall
      <4> QED BY <1>9, <4>1, SMTT(15)
    <3>2. db'[new] = o.slot
      <4>1. Touches({c}, new, o.slot, o.ret) BY <2>1 DEF Engine, Touches
      <4> QED BY <1>3, <4>1, TouchDb, SMTT(15)
    <3>3. o.slot = SetOp(db[new], p.got) BY <2>2, <2>3
    <3>4. o.slot.str = p.got /\ o.slot.exp = Never
      <4>1. db[new] \in Slot(Values, Words) BY <1>4 DEF Held
      <4> QED BY <3>3, <4>1 DEF SetOp, Slot
    <3>5. p.got = watch[c].base[old].str BY <1>1, <1>2, <1>9, <2>3 DEF Moving
    <3>6. ~ExpiredAt(o.slot, now) BY <3>4 DEF ExpiredAt
    <3>7. x.req.args[1] = old /\ x.req.args[2] = new BY <3>1
    <3> HIDE DEF w, x, old, new, p
    <3>8. db'[new].str = w.base[old].str /\ ~ExpiredAt(db'[new], now)
      BY <2>3, <3>2, <3>4, <3>5, <3>6
    <3> QED BY <3>1, <3>7, <3>8, SMTT(15) DEF Moving
  <2>6. p.i + 1 <= Calls(p.req) BY <1>5, <1>9, SMTT(15)
  <2>7. Owed(x, w) BY <1>7
  <2> HIDE DEF x, new
  <2> QED BY <1>1, <1>3, <1>6, <2>1, <2>2, <2>4, <2>5, <2>6, <2>7, MoreCalls DEF w, x
<1>10. CASE p.i = 3 /\ (\E o \in DelCall(db[old]) : Engine(c, old, o)) /\ Reply(c, OK)
  <2>1. PICK o \in DelCall(db[old]) : Engine(c, old, o) BY <1>10
  <2>2. Held(o.slot) BY <1>4, DelFacts
  <2> DEFINE w == Kept(c, old, o)
             x == [at |-> "answered", req |-> p.req, reply |-> OK]
  <2>3. Told(x, w)
    <3>1. x.req = p.req /\ x.reply = OK OBVIOUS
    <3>2. "int" \notin DOMAIN OK BY DEF OK
    <3> HIDE DEF x, p, w
    <3> QED BY <1>1, <3>1, <3>2, Replies DEF Told, Negative
  <2> QED BY <1>1, <1>3, <1>10, <2>1, <2>2, <2>3, LastCall
<1> QED BY <1>8, <1>9, <1>10 DEF Rename

\* TYPE: a chain of questions, of which the last is Exists.
LEMMA TypeStep ==
  ASSUME Inv, NEW c \in Clients, Type(c)
  PROVE  Inv'
<1> DEFINE p == call[c]
           k == p.req.args[1]
           e == db[k]
           type == <<"string", "list", "list", "set", "set", "hash", "hash">>
<1>1. p.at = "running" /\ p.req.name = "TYPE" BY DEF Type, Running
<1>2. /\ RunOK(p) /\ Request(p.req) /\ ~Rejected(p.req) /\ k \in Keys /\ Held(e)
      /\ watch[c].stayed \subseteq KeysOf(p.req)
  BY <1>1, Doing
<1>3. PICK o : /\ \/ o = GetCall(e) \/ o = ExistsCall(e) \/ \E ret : o = Outcome(e, ret, 0)
               /\ p.i = 7 => o = ExistsCall(e)
               /\ Engine(c, k, o)
               /\ IF o.ret = "ok" THEN Reply(c, [status |-> type[p.i]])
                  ELSE IF p.i = 7 THEN Reply(c, [status |-> "none"]) ELSE GoOn(c, p)
  <2> DEFINE o == IF p.i = 1 THEN GetCall(e)
                  ELSE IF p.i \in {3, 5, 7} THEN ExistsCall(e)
                  ELSE Outcome(e, CASE p.i = 2 -> IF ListOf(e) # << >> THEN "ok" ELSE "none"
                                    [] p.i = 4 -> IF SetOf(e) # {} THEN "ok" ELSE "none"
                                    [] p.i = 6 -> IF DOMAIN HashOf(e) # {} THEN "ok" ELSE "none",
                               0)
  <2>1. /\ Engine(c, k, o)
        /\ IF o.ret = "ok" THEN Reply(c, [status |-> type[p.i]])
           ELSE IF p.i = 7 THEN Reply(c, [status |-> "none"]) ELSE GoOn(c, p)
    BY DEF Type
  <2>2. \/ o = GetCall(e) \/ o = ExistsCall(e) \/ \E ret : o = Outcome(e, ret, 0) OBVIOUS
  <2>3. p.i = 7 => o = ExistsCall(e) BY SMTT(15)
  <2> HIDE DEF o
  <2> QED BY <2>1, <2>2, <2>3
<1>4. Calls(p.req) = 7 /\ p.i \in 1..7 BY <1>1, <1>2 DEF RunOK, Calls
<1>5. p.count \in Nat /\ p.got \in Values /\ p.found \in Seq(Values) /\ p.count <= p.i
  BY <1>2, SMTT(15) DEF RunOK
<1> HIDE DEF k, e
<1>6. Held(o.slot)
  <2>1. CASE o = GetCall(e) BY <1>2, <2>1, GetFacts
  <2>2. CASE o = ExistsCall(e) BY <1>2, <2>2, ExistsFacts
  <2>3. CASE \E ret : o = Outcome(e, ret, 0) BY <1>2, <2>3, SMTT(15) DEF Outcome
  <2> QED BY <1>3, <2>1, <2>2, <2>3
<1> DEFINE w == Kept(c, k, o)
<1>7. ASSUME NEW s, s = "none" => w.stayed = {}
      PROVE  Told([at |-> "answered", req |-> p.req, reply |-> [status |-> s]], w)
  <2> DEFINE x == [at |-> "answered", req |-> p.req, reply |-> [status |-> s]]
  <2>1. x.req = p.req /\ x.reply = [status |-> s] OBVIOUS
  <2>2. x.reply \notin {Err, Null} /\ "int" \notin DOMAIN x.reply BY <2>1, Replies
  <2>3. x.reply = [status |-> "none"] => s = "none" BY <2>1, Replies
  <2> HIDE DEF x, p, w
  <2>4. Told(x, w) BY <1>1, <1>7, <2>1, <2>2, <2>3 DEF Told, Negative
  <2> QED BY <2>4 DEF x
<1>8. CASE o.ret = "ok"
  <2>1. Reply(c, [status |-> type[p.i]]) BY <1>3, <1>8
  <2>2. type[p.i] # "none" BY <1>4, SMTT(15)
  <2> HIDE DEF type
  <2>3. Told([at |-> "answered", req |-> p.req, reply |-> [status |-> type[p.i]]], w)
    BY <1>7, <2>2
  <2> QED BY <1>1, <1>2, <1>3, <1>6, <2>1, <2>3, LastCall
<1>9. CASE o.ret # "ok" /\ p.i = 7
  <2>1. Reply(c, [status |-> "none"]) BY <1>3, <1>9
  <2>2. ~Present(o.slot)
    <3>1. o = ExistsCall(e) BY <1>3, <1>9
    <3> QED BY <1>2, <1>9, <3>1, ExistsFacts
  <2>3. db'[k] = o.slot
    <3>1. Touches({c}, k, o.slot, o.ret) BY <1>3 DEF Engine, Touches
    <3> QED BY <1>2, <3>1, TouchDb
  <2>4. k \notin LiveKeys(db', now) BY <2>2, <2>3 DEF LiveKeys, LiveAt
  <2>5. KeyAt(p.req) = {1} BY <1>1 DEF KeyAt
  <2>6. KeysOf(p.req) = {k} BY <2>5 DEF KeysOf, k
  <2>7. w.stayed \subseteq KeysOf(p.req) /\ w.stayed = watch[c].stayed \cap LiveKeys(db', now)
    BY <1>1, <1>2, <1>6, KeptIs
  <2>8. w.stayed = {} BY <2>4, <2>6, <2>7
  <2>9. Told([at |-> "answered", req |-> p.req, reply |-> [status |-> "none"]], w)
    BY <1>7, <2>8
  <2> QED BY <1>1, <1>2, <1>3, <1>6, <2>1, <2>9, LastCall
<1>10. CASE o.ret # "ok" /\ p.i # 7
  <2> DEFINE x == NextCall(p, p.count, p.got, p.found)
  <2>1. call' = [call EXCEPT ![c] = x]
    <3>1. GoOn(c, p) BY <1>3, <1>10
    <3>2. [p EXCEPT !.i = @ + 1] = x BY <1>2, GoOnIs
    <3> QED BY <3>1, <3>2 DEF GoOn
  <2>2. p.i + 1 <= Calls(p.req) BY <1>4, <1>10, SMTT(15)
  <2>3. x.req = p.req BY DEF NextCall
  <2> HIDE DEF x
  <2>4. x.req.name \in {"TYPE", "APPEND", "MSET", "MGET"} BY <1>1, <2>3
  <2>5. Owed(x, w) /\ Moving(x, w, db', now) BY <2>4, OwesNothing, SMTT(15)
  <2> QED BY <1>1, <1>2, <1>3, <1>5, <1>6, <2>1, <2>2, <2>5, MoreCalls DEF x
<1> QED BY <1>8, <1>9, <1>10

\* APPEND: a Get and a Set.
LEMMA AppendStep ==
  ASSUME Inv, NEW c \in Clients, AppendTo(c)
  PROVE  Inv'
<1> DEFINE p == call[c]
           k == p.req.args[1]
           e == db[k]
           text == p.req.args[2]
           got == GetCall(e)
<1> p.at = "running" /\ p.req.name = "APPEND" BY DEF AppendTo, Running
<1> RunOK(p) /\ Request(p.req) /\ ~Rejected(p.req) /\ k \in Keys /\ Held(e)
  BY Doing
<1>3. Calls(p.req) = 2 /\ p.i \in 1..2 BY DEF RunOK, Calls
<1>4. p.count \in Nat /\ p.got \in Values /\ p.found \in Seq(Values) /\ p.count <= p.i
  BY SMTT(15) DEF RunOK
<1>5. text \in Values
  <2>1. Len(p.req.args) = 2 BY Arity
  <2> QED BY <2>1, WordAt, SMTT(15)
<1>6. CASE p.i = 1 /\ Engine(c, k, got)
           /\ GoOn(c, [p EXCEPT !.got = IF got.ret = "ok" THEN Join(got.val, text) ELSE text])
  <2> HIDE DEF e, k, text
  <2>1. Held(got.slot) /\ (got.ret = "ok" => got.val \in Values) BY GetFacts
  <2> DEFINE v == IF got.ret = "ok" THEN Join(got.val, text) ELSE text
             x == NextCall(p, p.count, v, p.found)
  <2>2. v \in Values BY <1>5, <2>1, JoinKind
  <2>3. GoOn(c, [p EXCEPT !.got = v]) BY <1>6
  <2> HIDE DEF v, got
  <2>4. call' = [call EXCEPT ![c] = x]
    <3>1. [[p EXCEPT !.got = v] EXCEPT !.i = @ + 1] = x BY GoOnIs
    <3> QED BY <2>3, <3>1 DEF GoOn
  <2>5. p.i + 1 <= Calls(p.req) BY <1>3, <1>6, SMT
  <2>6. x.req = p.req BY DEF NextCall
  <2> HIDE DEF x
  <2>8. x.req.name \in {"TYPE", "APPEND", "MSET", "MGET"} BY <2>6
  <2>7. Owed(x, Kept(c, k, got)) /\ Moving(x, Kept(c, k, got), db', now)
    BY <2>8, OwesNothing, SMTT(15)
  <2> QED BY <1>4, <1>6, <2>1, <2>2, <2>4, <2>5, <2>7, MoreCalls DEF x
<1>7. CASE p.i = 2 /\ (\E o \in SetCall(e, p.got) : Engine(c, k, o))
           /\ Reply(c, Num(Length(p.got)))
  <2>1. PICK o \in SetCall(e, p.got) : Engine(c, k, o) BY <1>7
  <2> HIDE DEF e, k
  <2>2. Held(o.slot) BY <1>4, SetFacts
  <2> DEFINE n == Length(p.got)
             w == Kept(c, k, o)
             x == [at |-> "answered", req |-> p.req, reply |-> Num(n)]
  <2> HIDE DEF n
  <2>3. Told(x, w)
    <3>1. x.req = p.req /\ x.reply = Num(n) OBVIOUS
    <3> HIDE DEF x, p, w
    <3> QED BY <3>1, Replies DEF Told, Negative
  <2> QED BY <1>7, <2>1, <2>2, <2>3, LastCall DEF n
<1> QED BY <1>6, <1>7 DEF AppendTo

\* MSET: one Set for every pair.
LEMMA MSetStep ==
  ASSUME Inv, NEW c \in Clients, MSet(c)
  PROVE  Inv'
<1> DEFINE p == call[c]
           kv == Pair(p, 0)
           e == db[kv[1]]
<1> p.at = "running" /\ p.req.name = "MSET" BY DEF MSet, Running
<1>2. PICK o \in SetCall(e, kv[2]) : Engine(c, kv[1], o) BY DEF MSet
<1>3. IF LastPair(p, 0) THEN Reply(c, OK) ELSE GoOn(c, p) BY DEF MSet
<1> RunOK(p) /\ (\A j \in Keys : Held(db[j])) /\ Calls(p.req) \in Nat
  BY Doing, CallsKind
<1> kv[1] \in Keys /\ kv[2] \in Values /\ (LastPair(p, 0) <=> p.i = Calls(p.req))
  BY PairsAre, StringKinds
<1>6. /\ p.count \in Nat /\ p.got \in Values /\ p.found \in Seq(Values) /\ p.count <= p.i
      /\ p.i \in 1..Calls(p.req)
  <2>1. /\ p \in [at : {"running"}, req : Req, i : Nat, count : Nat, got : Values,
                  found : Seq(Values)]
        /\ p.i \in 1..Calls(p.req) /\ p.count < p.i
    BY DEF RunOK
  <2>2. p.count \in Nat /\ p.i \in Nat /\ p.got \in Values /\ p.found \in Seq(Values)
    BY <2>1
  <2> QED BY <2>1, <2>2, SMT
<1> HIDE DEF kv
<1>7. Held(o.slot) BY SetFacts
<1> DEFINE w == Kept(c, kv[1], o)
<1>8. CASE LastPair(p, 0)
  <2> DEFINE x == [at |-> "answered", req |-> p.req, reply |-> OK]
  <2>1. Told(x, w)
    <3>1. x.req = p.req /\ x.reply = OK OBVIOUS
    <3>2. "int" \notin DOMAIN OK BY DEF OK
    <3> HIDE DEF x, p, w
    <3> QED BY <3>1, <3>2, Replies DEF Told, Negative
  <2>2. Reply(c, OK) BY <1>3, <1>8
  <2> QED BY <1>2, <1>7, <2>1, <2>2, LastCall
<1>9. CASE ~LastPair(p, 0)
  <2> DEFINE x == NextCall(p, p.count, p.got, p.found)
  <2>1. call' = [call EXCEPT ![c] = x]
    <3>1. GoOn(c, p) BY <1>3, <1>9
    <3>2. [p EXCEPT !.i = @ + 1] = x BY GoOnIs
    <3> QED BY <3>1, <3>2 DEF GoOn
  <2>2. p.i + 1 <= Calls(p.req) BY <1>6, <1>9, SMTT(15)
  <2>3. x.req = p.req BY DEF NextCall
  <2>4. x.req.name \in {"TYPE", "APPEND", "MSET", "MGET"} BY <2>3
  <2> HIDE DEF x
  <2>5. Owed(x, w) /\ Moving(x, w, db', now) BY <2>4, OwesNothing, SMTT(15)
  <2> QED BY <1>2, <1>6, <1>7, <2>1, <2>2, <2>5, MoreCalls DEF x
<1> QED BY <1>8, <1>9

\* MGET: one Get for every key.
LEMMA MGetStep ==
  ASSUME Inv, NEW c \in Clients, MGet(c)
  PROVE  Inv'
<1> DEFINE p == call[c]
           k == p.req.args[p.i]
           got == GetCall(db[k])
           v == IF got.ret = "ok" THEN got.val ELSE EmptyText
           found == Append(p.found, v)
<1>1. p.at = "running" /\ p.req.name = "MGET" BY DEF MGet, Running
<1>2. /\ Engine(c, k, got)
      /\ IF p.i = Len(p.req.args) THEN Reply(c, Array(found))
         ELSE GoOn(c, [p EXCEPT !.found = found])
  BY DEF MGet
<1>3. /\ RunOK(p) /\ Request(p.req) /\ ~Rejected(p.req)
      /\ KeysOf(p.req) \subseteq Keys /\ \A j \in Keys : Held(db[j])
  BY <1>1, Doing
<1>4. p.i \in 1..Len(p.req.args) /\ Calls(p.req) = Len(p.req.args) /\ Len(p.req.args) \in Nat
  BY <1>1, <1>3, CallsKind, RequestKind DEF RunOK
<1>5. KeyAt(p.req) = 1..Len(p.req.args) BY <1>1 DEF KeyAt
<1>6. k \in Keys /\ Held(db[k]) BY <1>3, <1>4, <1>5 DEF KeysOf
<1>7. p.count \in Nat /\ p.got \in Values /\ p.found \in Seq(Values) /\ p.count <= p.i
  BY <1>3, SMTT(15) DEF RunOK
<1> HIDE DEF k
<1>8. Held(got.slot) /\ v \in Values BY <1>6, GetFacts, StringKinds
<1> HIDE DEF got, v
<1>9. found \in Seq(Values) BY <1>7, <1>8, AppendProperties
<1> HIDE DEF found
<1> DEFINE w == Kept(c, k, got)
<1>10. CASE p.i = Len(p.req.args)
  <2> DEFINE x == [at |-> "answered", req |-> p.req, reply |-> Array(found)]
  <2>1. Told(x, w)
    <3>1. x.req = p.req /\ x.reply = Array(found) OBVIOUS
    <3> HIDE DEF x, p, w
    <3> QED BY <1>1, <3>1, Replies DEF Told, Negative
  <2>2. Reply(c, Array(found)) BY <1>2, <1>10
  <2> QED BY <1>1, <1>2, <1>6, <1>8, <2>1, <2>2, LastCall
<1>11. CASE p.i # Len(p.req.args)
  <2> DEFINE x == NextCall(p, p.count, p.got, found)
  <2>1. call' = [call EXCEPT ![c] = x]
    <3>1. GoOn(c, [p EXCEPT !.found = found]) BY <1>2, <1>11
    <3>2. [[p EXCEPT !.found = found] EXCEPT !.i = @ + 1] = x BY <1>3, GoOnIs
    <3> QED BY <3>1, <3>2 DEF GoOn
  <2>2. p.i + 1 <= Calls(p.req) BY <1>4, <1>11, SMTT(15)
  <2>3. x.req = p.req BY DEF NextCall
  <2>4. x.req.name \in {"TYPE", "APPEND", "MSET", "MGET"} BY <1>1, <2>3
  <2> HIDE DEF x
  <2>5. Owed(x, w) /\ Moving(x, w, db', now) BY <2>4, OwesNothing, SMTT(15)
  <2> QED BY <1>1, <1>2, <1>6, <1>7, <1>8, <1>9, <2>1, <2>2, <2>5, MoreCalls DEF x
<1> QED BY <1>10, <1>11

\* HSET: one HSet for every field.
LEMMA HSetStep ==
  ASSUME Inv, NEW c \in Clients, HSet(c)
  PROVE  Inv'
<1> DEFINE p == call[c]
           k == p.req.args[1]
           e == db[k]
           fv == Pair(p, 1)
           n == p.count + (IF fv[1] \in DOMAIN HashOf(e) THEN 0 ELSE 1)
           o == Outcome(HSetOp(e, fv[1], fv[2]), "ok", 0)
<1> p.at = "running" /\ p.req.name = "HSET" BY DEF HSet, Running
<1> /\ Engine(c, k, o)
    /\ IF LastPair(p, 1) THEN Reply(c, Num(n)) ELSE GoOn(c, [p EXCEPT !.count = n])
  BY DEF HSet
<1> /\ RunOK(p) /\ Owed(p, watch[c]) /\ k \in Keys /\ Held(e) /\ Calls(p.req) \in Nat
  BY Doing, CallsKind
<1>4. fv[1] \in Words /\ fv[2] \in Words /\ (LastPair(p, 1) <=> p.i = Calls(p.req))
  BY PairsAre
<1> /\ p.count \in Nat /\ p.got \in Values /\ p.found \in Seq(Values) /\ p.count < p.i
    /\ p.i \in 1..Calls(p.req) /\ watch[c].own = p.count
  BY DEF RunOK, Owed
<1> HIDE DEF k, e, fv
<1>6. o.slot = HSetOp(e, fv[1], fv[2]) BY DEF Outcome
<1> HIDE DEF o
<1>13. /\ Held(HSetOp(e, fv[1], fv[2]))
       /\ Cardinality(DOMAIN HashOf(HSetOp(e, fv[1], fv[2]))) - Cardinality(DOMAIN HashOf(e))
            = IF fv[1] \in DOMAIN HashOf(e) THEN 0 ELSE 1
  BY <1>4, HSetGrows
<1> Held(o.slot) BY <1>6, <1>13
<1>8. Gain(p.req.name, e, o.slot) = IF fv[1] \in DOMAIN HashOf(e) THEN 0 ELSE 1
  <2>1. Gain(p.req.name, e, o.slot) =
          Cardinality(DOMAIN HashOf(o.slot)) - Cardinality(DOMAIN HashOf(e))
    BY GainIs, SMTT(15)
  <2> QED BY <1>6, <1>13, <2>1
<1>9. n \in Nat /\ n <= p.i BY SMTT(15)
<1> DEFINE w == Kept(c, k, o)
<1>10. w.own = n
  <2>1. w.own = watch[c].own + Gain(p.req.name, e, o.slot) BY KeptIs DEF e
  <2> QED BY <1>8, <2>1
<1> HIDE DEF n, w
<1>11. CASE LastPair(p, 1)
  <2> DEFINE x == [at |-> "answered", req |-> p.req, reply |-> Num(n)]
  <2>1. Told(x, w)
    <3>1. x.req = p.req /\ x.reply = Num(n) OBVIOUS
    <3> HIDE DEF x, p
    <3> QED BY <1>10, <3>1, Replies, SMTT(15) DEF Told, Negative
  <2>2. Reply(c, Num(n)) BY <1>11
  <2> QED BY <2>1, <2>2, LastCall DEF w
<1>12. CASE ~LastPair(p, 1)
  <2> DEFINE x == NextCall(p, n, p.got, p.found)
  <2>1. call' = [call EXCEPT ![c] = x]
    <3>1. GoOn(c, [p EXCEPT !.count = n]) BY <1>12
    <3>2. [[p EXCEPT !.count = n] EXCEPT !.i = @ + 1] = x BY GoOnIs
    <3> QED BY <3>1, <3>2 DEF GoOn
  <2>2. p.i + 1 <= Calls(p.req) BY <1>4, <1>12, SMTT(15)
  <2>3. Owed(x, w) /\ Moving(x, w, db', now)
    <3>1. x.req = p.req /\ x.count = n BY DEF NextCall
    <3> HIDE DEF x, p
    <3>2. x.req.name \notin Singles BY <3>1, Apart DEF Composites
    <3> QED BY <1>10, <3>1, <3>2 DEF Owed, Moving
  <2> HIDE DEF x
  <2> QED BY <1>9, <2>1, <2>2, <2>3, MoreCalls DEF w, x
<1> QED BY <1>11, <1>12

\* A command comes in, and is rejected or begins.
LEMMA AskStep ==
  ASSUME Inv, NEW c \in Clients, Ask(c)
  PROVE  Inv'
<1>1. PICK r \in Requests[c] :
        IF Rejected(r)
        THEN /\ call' = [call EXCEPT ![c] = [at |-> "answered", req |-> r, reply |-> Err]]
             /\ UNCHANGED watch
        ELSE /\ call' = [call EXCEPT ![c] =
                  [at |-> "running", req |-> r, i |-> 1, count |-> 0, got |-> EmptyText,
                   found |-> << >>]]
             /\ watch' = [watch EXCEPT ![c] =
                  [base |-> [k \in KeysOf(r) |-> db[k]], alone |-> "yes", own |-> 0,
                   stayed |-> KeysOf(r) \cap LiveKeys(db, now)]]
  BY DEF Ask
<1>2. call[c].at = "idle" /\ UNCHANGED <<db, now>> BY DEF Ask
<1>3. DOMAIN watch = Clients /\ ClientOK(call[c], watch[c], db, now) BY DEF Inv
<1>4. CASE Rejected(r)
  <2> DEFINE x == [at |-> "answered", req |-> r, reply |-> Err]
  <2>1. WatchOK(watch[c]) /\ watch[c].own = 0 BY <1>2, <1>3, AtIs
  <2>2. Told(x, watch[c])
    <3>1. x.req = r /\ x.reply = Err OBVIOUS
    <3> HIDE DEF x
    <3> QED BY <2>1, <3>1, Replies DEF Told, Err
  <2>3. ClientOK(x, watch[c], db, now) BY <2>1, <2>2, Answered
  <2>4. call' = [call EXCEPT ![c] = x] /\ watch' = watch BY <1>1, <1>4
  <2> HIDE DEF x
  <2> QED BY <1>2, <1>3, <2>3, <2>4, OwnStep
<1>5. CASE ~Rejected(r)
  <2> DEFINE x == [at |-> "running", req |-> r, i |-> 1, count |-> 0, got |-> EmptyText,
                   found |-> << >>]
             w == [base |-> [k \in KeysOf(r) |-> db[k]], alone |-> "yes", own |-> 0,
                   stayed |-> KeysOf(r) \cap LiveKeys(db, now)]
  <2>1. Request(r) BY CommandsInputs
  <2>2. r \in Req /\ Calls(r) \in Nat \ {0} BY <1>5, <2>1, RequestKind, CallsKind
  <2>3. /\ x.at = "running" /\ x.req = r /\ x.i = 1 /\ x.count = 0 /\ w.own = 0
        /\ w.stayed \subseteq KeysOf(r) /\ w.base = [k \in KeysOf(r) |-> db[k]]
    OBVIOUS
  <2>4. WatchOK(w) BY SMTT(15) DEF WatchOK
  <2>5. x \in [at : {"running"}, req : Req, i : Nat, count : Nat, got : Values,
               found : Seq(Values)]
    <3>1. EmptyText \in Values /\ << >> \in Seq(Values) BY StringKinds, SMTT(15)
    <3> QED BY <2>2, <3>1
  <2>6. call' = [call EXCEPT ![c] = x] /\ watch' = [watch EXCEPT ![c] = w] BY <1>1, <1>5
  <2> HIDE DEF x, w
  <2>7. RunOK(x)
    <3>1. 1 \in 1..Calls(r) /\ 0 < 1 BY <2>2, SMTT(15)
    <3> QED BY <1>5, <2>1, <2>3, <2>5, <3>1 DEF RunOK
  <2>8. Owed(x, w) BY <2>3, SMTT(15) DEF Owed
  <2>9. Moving(x, w, db, now)
    <3> SUFFICES ASSUME r.name = "RENAME" PROVE Moving(x, w, db, now) BY <2>3 DEF Moving
    <3>1. r.args[1] \in KeysOf(r) BY <1>5, <2>1, RenameKeys
    <3> QED BY <2>3, <3>1, SMTT(15) DEF Moving
  <2>10. ClientOK(x, w, db, now) BY <2>3, <2>4, <2>7, <2>8, <2>9 DEF ClientOK
  <2>11. /\ DOMAIN watch' = Clients /\ watch'[c] = w
         /\ \A d \in Clients : d # c => watch'[d] = watch[d]
    BY <1>3, <2>6
  <2> QED BY <1>2, <2>6, <2>10, <2>11, OwnStep
<1> QED BY <1>4, <1>5

\* A tick: a deadline of a command's key may be near, or it is left alone.
LEMMA TickStep ==
  ASSUME Inv, Tick
  PROVE  Inv'
<1>1. now < MaxTime /\ now' = now + 1 /\ UNCHANGED <<db, call>> BY DEF Tick
<1>2. DbOK(db) /\ now \in 0..MaxTime /\ DOMAIN call = Clients BY DEF Inv
<1>3. now' \in 0..MaxTime BY <1>1, <1>2, CommandsConstants, SMTT(15)
<1>4. DOMAIN watch' = Clients BY DEF Tick
<1>5. ASSUME NEW c \in Clients PROVE ClientOK(call[c], watch'[c], db, now')
  <2> DEFINE cl == call[c]
             w == watch[c]
             v == watch'[c]
  <2>1. ClientOK(cl, w, db, now) BY DEF Inv
  <2>2. CASE cl.at # "running"
    <3>1. v = w BY <2>2 DEF Tick
    <3>2. ClientOK(cl, w, db, now') BY <2>1, <2>2, AtIs DEF ClientOK
    <3> QED BY <3>1, <3>2
  <2>3. CASE cl.at = "running"
    <3> DEFINE alone == IF \E k \in KeysOf(cl.req) : db[k].exp # Never THEN "no" ELSE w.alone
               stayed == w.stayed \cap LiveKeys(db, now')
    <3>1. v = [w EXCEPT !.alone = alone, !.stayed = stayed] BY <2>3 DEF Tick
    <3> /\ WatchOK(w) /\ RunOK(cl) /\ w.stayed \subseteq KeysOf(cl.req)
        /\ Owed(cl, w) /\ Moving(cl, w, db, now)
      BY <2>1, <2>3, AtIs
    <3>3. alone = "yes" => w.alone = "yes" /\ \A k \in KeysOf(cl.req) : db[k].exp = Never
      <4> HIDE DEF cl, w
      <4> QED OBVIOUS
    <3>4. stayed \subseteq KeysOf(cl.req) OBVIOUS
    <3> HIDE DEF alone, stayed, cl, w, v
    <3>5. v = [base |-> w.base, alone |-> alone, own |-> w.own, stayed |-> stayed]
      <4>1. w \in [base : {w.base}, alone : {w.alone}, own : {w.own}, stayed : {w.stayed}]
        BY DEF WatchOK
      <4>2. v \in [base : {w.base}, alone : {alone}, own : {w.own}, stayed : {stayed}]
        BY <3>1, <4>1
      <4> QED BY <4>2
    <3> /\ WatchOK(v) /\ v.own = w.own /\ v.base = w.base /\ v.alone = alone
        /\ v.stayed \subseteq KeysOf(cl.req)
      BY <3>4, <3>5 DEF WatchOK
    <3>7. Owed(cl, v) BY DEF Owed
    <3>8. Moving(cl, v, db, now')
      <4> SUFFICES ASSUME cl.req.name = "RENAME", v.alone = "yes" PROVE Moving(cl, v, db, now')
        BY DEF Moving
      <4>1. Request(cl.req) /\ ~Rejected(cl.req) BY DEF RunOK
      <4>2. cl.req.args[1] \in KeysOf(cl.req) /\ cl.req.args[2] \in KeysOf(cl.req)
        BY <4>1, RenameKeys
      <4>3. ~ExpiredAt(db[cl.req.args[1]], now') /\ ~ExpiredAt(db[cl.req.args[2]], now')
        BY <3>3, <4>2 DEF ExpiredAt
      <4> QED BY <3>3, <4>3 DEF Moving
    <3> QED BY <3>7, <3>8 DEF ClientOK, cl, v
  <2> QED BY <2>2, <2>3
<1> QED BY <1>1, <1>2, <1>3, <1>4, <1>5 DEF Inv

\* The sweeper takes a key away.
LEMMA SweepStep ==
  ASSUME Inv, NEW k \in Keys, Sweep(k)
  PROVE  Inv'
<1>1. Touches({}, k, EmptySlot, "ok")
  <2>1. Touch({}, k, Evict(db[k]), FALSE) BY DEF Sweep
  <2> QED BY <2>1 DEF Touch, Touches, Evict
<1>2. call' = call BY DEF Sweep
<1>3. DbOK(db') /\ now' = now BY <1>1, HeldEmpty, TouchDb
<1>4. DOMAIN call = Clients /\ now \in 0..MaxTime BY DEF Inv
<1>5. DOMAIN watch' = Clients BY DEF Sweep, Touch
<1>6. \A d \in Clients : ClientOK(call[d], watch'[d], db', now') BY <1>1, OthersOK, SMTT(15)
<1> QED BY <1>2, <1>3, <1>4, <1>5, <1>6 DEF Inv
-----------------------------------------------------------------------------
\* Nothing is under way at the start.
LEMMA InvInit == Init => Inv
<1> SUFFICES ASSUME Init PROVE Inv OBVIOUS
<1>1. DbOK(db) BY CommandsInputs DEF Init, DbOK
<1>2. now \in 0..MaxTime /\ DOMAIN call = Clients /\ DOMAIN watch = Clients
  BY CommandsConstants, SMT DEF Init
<1>3. WatchOK(NoWatch) /\ NoWatch.own = 0 BY SMTT(15) DEF WatchOK, NoWatch
<1>4. ASSUME NEW c \in Clients PROVE ClientOK(call[c], watch[c], db, now)
  <2>1. call[c] = Idle /\ watch[c] = NoWatch BY DEF Init
  <2> QED BY <1>3, <2>1 DEF ClientOK
<1> QED BY <1>1, <1>2, <1>4 DEF Inv

\* Every handler, the clock and the sweeper keep the invariant.
LEMMA InvStep == Inv /\ [Next]_vars => Inv'
<1> SUFFICES ASSUME Inv, [Next]_vars PROVE Inv' OBVIOUS
<1>1. CASE UNCHANGED vars BY <1>1 DEF Inv, vars
<1>2. ASSUME NEW c \in Clients, Handle(c) PROVE Inv'
  BY <1>2, SingleStep, DelStep, IncrByNoneStep, IncrByStep, RenameStep, TypeStep, AppendStep,
     MSetStep, MGetStep, HSetStep DEF Handle
<1> QED BY <1>1, <1>2, AskStep, SweepStep, TickStep DEF Next

\* The invariant holds in every state.
LEMMA Invariance == Spec => []Inv
BY InvInit, InvStep, PTL DEF Spec

\* The loops of the handlers stay within the arguments of their commands, for
\* any number of arguments, and no empty collection is left under a key.
THEOREM TypeCorrect == Spec => []TypeOK
<1>1. Inv => TypeOK
  <2> SUFFICES ASSUME Inv PROVE TypeOK OBVIOUS
  <2>1. DOMAIN db = Keys /\ (\A k \in Keys : NonEmpty(db[k])) /\ now \in 0..MaxTime
    BY DEF Inv, DbOK, Held
  <2>2. ASSUME NEW c \in Clients
        PROVE  /\ call[c].at \in {"idle", "running", "answered"}
               /\ call[c].at = "running" =>
                    /\ call[c].i \in 1..Calls(call[c].req)
                    /\ call[c].count < call[c].i
                    /\ watch[c].stayed \subseteq KeysOf(call[c].req)
    <3>1. ClientOK(call[c], watch[c], db, now) BY DEF Inv
    <3> QED BY <3>1, AtIs DEF RunOK
  <2> QED BY <2>1, <2>2 DEF TypeOK
<1> QED BY <1>1, Invariance, PTL

\* What DEL, HSET, INCRBY and DECRBY answer is what their own calls did, for any
\* number of clients at the same keys and whichever calls are refused.
THEOREM CountsAreOwn == Spec => []CountsOwnEffects
<1>1. Inv => CountsOwnEffects
  <2> SUFFICES ASSUME Inv, NEW c \in Clients, call[c].at = "answered" PROVE Told(call[c], watch[c])
    BY DEF CountsOwnEffects, Told
  <2>1. ClientOK(call[c], watch[c], db, now) BY DEF Inv
  <2> QED BY <2>1, AtIs
<1> QED BY <1>1, Invariance, PTL

\* A command that answers that it did nothing has done nothing to a living key.
THEOREM NegativesHarmless == Spec => []NegativeHarmless
<1>1. Inv => NegativeHarmless
  <2> SUFFICES ASSUME Inv, NEW c \in Clients, call[c].at = "answered" PROVE Told(call[c], watch[c])
    BY DEF NegativeHarmless, Told, Negative
  <2>1. ClientOK(call[c], watch[c], db, now) BY DEF Inv
  <2> QED BY <2>1, AtIs
<1> QED BY <1>1, Invariance, PTL

\* RENAME, left alone, keeps the string readable under one of its names.
THEOREM RenameKeeps == Spec => []RenameKeepsValue
<1>1. Inv => RenameKeepsValue
  <2> SUFFICES ASSUME Inv, NEW c \in Clients, Running(c, {"RENAME"}), call[c].i > 1,
                      watch[c].alone = "yes"
               PROVE  \E k \in KeysOf(call[c].req) :
                        /\ db[k].str = watch[c].base[call[c].req.args[1]].str
                        /\ ~ExpiredAt(db[k], now)
    BY DEF RenameKeepsValue
  <2> DEFINE p == call[c]
  <2>1. p.at = "running" /\ p.req.name = "RENAME" BY DEF Running
  <2>2. RunOK(p) /\ Moving(p, watch[c], db, now) /\ Request(p.req) /\ ~Rejected(p.req)
    BY <2>1, Doing
  <2>3. p.req.args[1] \in KeysOf(p.req) /\ p.req.args[2] \in KeysOf(p.req)
    BY <2>1, <2>2, RenameKeys
  <2>4. p.i \in {2, 3} BY <2>1, <2>2, SMTT(15) DEF RunOK, Calls
  <2> QED BY <2>1, <2>2, <2>3, <2>4 DEF Moving
<1> QED BY <1>1, Invariance, PTL

\* TYPE does not answer "none" about a key that existed all along.
THEOREM TypeIsSteady == Spec => []TypeSteady
<1>1. Inv => TypeSteady
  <2> SUFFICES ASSUME Inv, NEW c \in Clients, call[c].at = "answered" PROVE Told(call[c], watch[c])
    BY DEF TypeSteady, Told
  <2>1. ClientOK(call[c], watch[c], db, now) BY DEF Inv
  <2> QED BY <2>1, AtIs
<1> QED BY <1>1, Invariance, PTL
=============================================================================
