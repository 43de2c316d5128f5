--------------------------- MODULE CommandsExact ----------------------------
(***************************************************************************)
(* The commands of several engine calls, one command at a time and with    *)
(* nobody else about: b is what the command's keys held when it began, s   *)
(* what they hold now.  Half says how far the calls made so far have       *)
(* brought it; the lemmas show that the next call keeps Half, and that the *)
(* last one ends with the state and the reply that Served promises.        *)
(* CommandsUndisturbed puts them to work.                                  *)
(***************************************************************************)
EXTENDS CommandsLemmas

\* The steps that name no prover are within reach of Zenon.
USE Zenon

\* The keys that the calls before call i were about.
Past(args, i) == {args[j] : j \in 1..i - 1}

HalfDel(cl, b, s) ==
  LET past == Past(cl.req.args, cl.i)
  IN /\ \A j \in DOMAIN b : s[j] = IF j \in past /\ Present(b[j]) THEN EmptySlot ELSE b[j]
     /\ cl.count = Cardinality({j \in past : Present(b[j])})

\* What n becomes when a is added, in the range of an int.
Sum(n, a) == ((n + a + MaxInt + 1) % (2 * MaxInt + 2)) - MaxInt - 1

HalfIncrBy(cl, b, s) ==
  LET k == cl.req.args[1]
      done == IF cl.req.name = "DECRBY" THEN 1 - cl.i ELSE cl.i - 1
      n == IF b[k].str = Absent THEN 0 ELSE b[k].str.n
  IN cl.i > 1 => /\ ~(b[k].str # Absent /\ NotInt(b[k].str))
                 /\ s[k] = [b[k] EXCEPT !.str = Canonical(Sum(n, done))]

HalfRename(cl, b, s) ==
  LET old == cl.req.args[1]
      new == cl.req.args[2]
  IN cl.i > 1 => /\ b[old].str # Absent /\ cl.got = b[old].str
                 /\ s[old] = b[old] /\ s[new] = IF cl.i = 2 THEN b[new] ELSE b[old]

HalfType(cl, b, s) ==
  LET e == b[cl.req.args[1]]
  IN s = b /\ (cl.i > 1 => e.str = Absent) /\ (cl.i > 2 => e.list = Absent)

Joined(r, b) ==
  LET str == b[r.args[1]].str IN IF str = Absent THEN r.args[2] ELSE Join(str, r.args[2])

HalfAppend(cl, b, s) == s = b /\ (cl.i > 1 => cl.got = Joined(cl.req, b))

HalfMSet(cl, b, s) ==
  LET args == cl.req.args
  IN \A k \in DOMAIN b :
       /\ s[k].list = b[k].list /\ s[k].set = b[k].set /\ s[k].hash = b[k].hash
       /\ \A j \in 1..cl.i - 1 : LastCallOn(args, 0, cl.i, k, j) => s[k] = SetOp(b[k], args[2 * j])

Answer(r, b, j) == LET str == b[r.args[j]].str IN IF str = Absent THEN EmptyText ELSE str

HalfMGet(cl, b, s) ==
  /\ s = b /\ Len(cl.found) = cl.i - 1
  /\ \A j \in 1..cl.i - 1 : cl.found[j] = Answer(cl.req, b, j)

\* HSET has made f of slot e with its calls before call i, n fields being new.
Hashed(e, f, args, i, n) ==
  LET past == Touched(args, 1, i)
  IN /\ f.str = e.str /\ f.list = e.list /\ f.set = e.set /\ f.exp = e.exp
     /\ DOMAIN HashOf(f) = DOMAIN HashOf(e) \cup past
     /\ \A g \in DOMAIN HashOf(e) \ past : HashOf(f)[g] = HashOf(e)[g]
     /\ \A g \in past : \A j \in 1..i - 1 : LastCallOn(args, 1, i, g, j) =>
          HashOf(f)[g] = args[2 * j + 1]
     /\ n = Cardinality(past \ DOMAIN HashOf(e))

HalfHSet(cl, b, s) ==
  LET args == cl.req.args IN Hashed(b[args[1]], s[args[1]], args, cl.i, cl.count)

Half(cl, b, s) ==
  /\ cl.i = 1 => s = b
  /\ cl.req.name = "DEL" => HalfDel(cl, b, s)
  /\ cl.req.name \in {"INCRBY", "DECRBY"} => HalfIncrBy(cl, b, s)
  /\ cl.req.name = "RENAME" => HalfRename(cl, b, s)
  /\ cl.req.name = "TYPE" => HalfType(cl, b, s)
  /\ cl.req.name = "APPEND" => HalfAppend(cl, b, s)
  /\ cl.req.name = "MSET" => HalfMSet(cl, b, s)
  /\ cl.req.name = "MGET" => HalfMGet(cl, b, s)
  /\ cl.req.name = "HSET" => HalfHSet(cl, b, s)

\* The commands and keys that Served names, at time t.
ServedAt(r, b, t) ==
  /\ r.name \notin Singles
  /\ \A k \in DOMAIN b : ~ExpiredAt(b[k], t)
  /\ r.name \in {"INCRBY", "DECRBY"} => r.args[2].n > 0
  /\ r.name = "RENAME" =>
       /\ r.args[1] # r.args[2]
       /\ \A k \in DOMAIN b : b[k] = [EmptySlot EXCEPT !.str = b[k].str]
  /\ r.name = "TYPE" => b[r.args[1]].set = Absent /\ b[r.args[1]].hash = Absent

View(d, r) == [k \in KeysOf(r) |-> d[k]]

\* A command that is left alone has done its part.
ExactSoFar(cl, w, d, t) ==
  cl.at = "running" /\ w.alone = "yes" =>
    /\ DOMAIN w.base = KeysOf(cl.req) /\ \A k \in KeysOf(cl.req) : Held(w.base[k])
    /\ ServedAt(cl.req, w.base, t) => Half(cl, w.base, View(d, cl.req))

ExactInv == \A c \in Clients : ExactSoFar(call[c], watch[c], db, now)
-----------------------------------------------------------------------------
\* A command at work on keys that hold s, and how it should end.
AtWork(p, b, s) ==
  /\ RunOK(p) /\ DOMAIN b = KeysOf(p.req) /\ s \in [KeysOf(p.req) -> Slot(Values, Words)]
  /\ \A k \in KeysOf(p.req) : Held(b[k]) /\ Held(s[k])
  /\ Half(p, b, s)

Finish(r, b, s, reply) ==
  LET x == Expected(r, b) IN reply = x.reply /\ \A k \in KeysOf(r) : s[k] = x.db[k]

\* A command finishes well with the reply and the slots that Expected names.
LEMMA FinishIs ==
  ASSUME NEW r, NEW b, NEW s, NEW reply, NEW d, Expected(r, b) = [db |-> d, reply |-> reply],
         \A k \in KeysOf(r) : s[k] = d[k]
  PROVE  Finish(r, b, s, reply)
BY SMT DEF Finish

\* Half, command by command.
LEMMA HalfIs ==
  ASSUME NEW cl, NEW b, NEW s, cl.i = 1 => s = b
  PROVE  /\ cl.req.name = "DEL" => (Half(cl, b, s) <=> HalfDel(cl, b, s))
         /\ cl.req.name \in {"INCRBY", "DECRBY"} => (Half(cl, b, s) <=> HalfIncrBy(cl, b, s))
         /\ cl.req.name = "RENAME" => (Half(cl, b, s) <=> HalfRename(cl, b, s))
         /\ cl.req.name = "TYPE" => (Half(cl, b, s) <=> HalfType(cl, b, s))
         /\ cl.req.name = "APPEND" => (Half(cl, b, s) <=> HalfAppend(cl, b, s))
         /\ cl.req.name = "MSET" => (Half(cl, b, s) <=> HalfMSet(cl, b, s))
         /\ cl.req.name = "MGET" => (Half(cl, b, s) <=> HalfMGet(cl, b, s))
         /\ cl.req.name = "HSET" => (Half(cl, b, s) <=> HalfHSet(cl, b, s))
BY DEF Half

\* The parts of AtWork.
LEMMA AtWorkIs ==
  ASSUME NEW p, NEW b, NEW s, AtWork(p, b, s)
  PROVE  /\ Request(p.req) /\ ~Rejected(p.req) /\ DOMAIN b = KeysOf(p.req)
         /\ KeysOf(p.req) \subseteq Keys /\ p.req.args[1] \in KeysOf(p.req)
         /\ p.i \in Nat \ {0} /\ p.count \in Nat /\ p.got \in Values /\ p.found \in Seq(Values)
         /\ p.i \in 1..Calls(p.req)
         /\ s \in [KeysOf(p.req) -> Slot(Values, Words)]
         /\ \A k \in KeysOf(p.req) : Held(b[k]) /\ Held(s[k])
         /\ p.i = 1 => s = b
         /\ p.req.name = "DEL" => HalfDel(p, b, s)
         /\ p.req.name \in {"INCRBY", "DECRBY"} => HalfIncrBy(p, b, s)
         /\ p.req.name = "RENAME" => HalfRename(p, b, s)
         /\ p.req.name = "TYPE" => HalfType(p, b, s)
         /\ p.req.name = "APPEND" => HalfAppend(p, b, s)
         /\ p.req.name = "MSET" => HalfMSet(p, b, s)
         /\ p.req.name = "MGET" => HalfMGet(p, b, s)
         /\ p.req.name = "HSET" => HalfHSet(p, b, s)
<1>1. RunOK(p) /\ Half(p, b, s) BY DEF AtWork
<1> /\ Request(p.req) /\ ~Rejected(p.req) /\ p.i \in 1..Calls(p.req)
    /\ p.count \in Nat /\ p.got \in Values /\ p.found \in Seq(Values)
  BY <1>1 DEF RunOK
<1>3. Calls(p.req) \in Nat BY CallsKind
<1>4. p.i \in Nat \ {0} BY <1>3, SMT
<1>5. KeysOf(p.req) \subseteq Keys /\ p.req.args[1] \in KeysOf(p.req) BY Arguments
<1>6. /\ DOMAIN b = KeysOf(p.req) /\ s \in [KeysOf(p.req) -> Slot(Values, Words)]
      /\ \A k \in KeysOf(p.req) : Held(b[k]) /\ Held(s[k])
  BY DEF AtWork
<1> QED BY <1>1, <1>4, <1>5, <1>6 DEF Half

\* One key more is past after a call.
LEMMA PastGrows ==
  ASSUME NEW args, NEW i \in Nat \ {0}
  PROVE  /\ Past(args, i + 1) = Past(args, i) \cup {args[i]}
         /\ IsFiniteSet(Past(args, i))
<1>1. 1..(i + 1) - 1 = (1..i - 1) \cup {i} BY SMT
<1>2. Past(args, i + 1) = Past(args, i) \cup {args[i]} BY <1>1 DEF Past
<1>3. IsFiniteSet(Past(args, i))
  <2> DEFINE f == [j \in 1..i - 1 |-> args[j]]
  <2>1. f \in Surjection(1..i - 1, Past(args, i)) BY DEF Surjection, Past
  <2>2. IsFiniteSet(1..i - 1) BY FS_Interval, SMT
  <2> HIDE DEF f
  <2> QED BY <2>1, <2>2, FS_Surjection
<1> QED BY <1>2, <1>3

\* DEL removes the keys that were there, and counts each once.
LEMMA DelExact ==
  ASSUME NEW p, NEW b, NEW s, AtWork(p, b, s), p.req.name = "DEL",
         NEW k, k = p.req.args[p.i], NEW o \in DelCall(s[k]), o.ret # "refused",
         NEW n, n = p.count + (IF o.ret = "ok" THEN 1 ELSE 0)
  PROVE  /\ p.i = Len(p.req.args) => Finish(p.req, b, [s EXCEPT ![k] = o.slot], Num(n))
         /\ Half(NextCall(p, n, p.got, p.found), b, [s EXCEPT ![k] = o.slot])
<1> DEFINE r == p.req
           i == p.i
           past == Past(r.args, i)
           next == Past(r.args, i + 1)
           S == {j \in past : Present(b[j])}
           T == {j \in next : Present(b[j])}
           u == [s EXCEPT ![k] = o.slot]
           x == NextCall(p, n, p.got, p.found)
<1> /\ Request(r) /\ ~Rejected(r) /\ DOMAIN b = KeysOf(r) /\ p.count \in Nat /\ i \in Nat \ {0}
    /\ s \in [KeysOf(r) -> Slot(Values, Words)] /\ HalfDel(p, b, s)
    /\ \A j \in KeysOf(r) : Held(s[j])
  BY AtWorkIs
<1>2. i \in 1..Len(r.args) /\ Len(r.args) \in Nat
  BY CallsKind, RequestKind DEF AtWork, RunOK
<1>3. KeysOf(r) = {r.args[j] : j \in 1..Len(r.args)} BY DEF KeysOf, KeyAt
<1>4. k \in KeysOf(r) BY <1>2, <1>3
<1> /\ \A j \in KeysOf(r) : s[j] = IF j \in past /\ Present(b[j]) THEN EmptySlot ELSE b[j]
    /\ p.count = Cardinality(S)
  BY DEF HalfDel
<1>6. next = past \cup {k} /\ IsFiniteSet(past) BY PastGrows
<1>7. IsFiniteSet(S) BY <1>6, FS_Subset
<1>8. ~Present(EmptySlot) BY DEF Present, EmptySlot
<1>9. /\ o.ret = "ok" => Present(s[k]) /\ o.slot = EmptySlot
      /\ o.ret # "ok" => o.slot = s[k] /\ ~Present(s[k])
  BY <1>4, DelFacts, SMTT(15)
<1>10. o.slot = (IF Present(b[k]) THEN EmptySlot ELSE b[k])
       /\ (o.ret = "ok" <=> k \notin past /\ Present(b[k]))
  <2> HIDE DEF past, S
  <2> QED BY <1>4, <1>8, <1>9
<1>11. u[k] = o.slot /\ \A j \in KeysOf(r) : j # k => u[j] = s[j] BY <1>4
<1> HIDE DEF u
<1>12. \A j \in KeysOf(r) : u[j] = IF j \in next /\ Present(b[j]) THEN EmptySlot ELSE b[j]
  <2> HIDE DEF past, next, S
  <2> QED BY <1>6, <1>10, <1>11
<1>13. T = IF Present(b[k]) THEN S \cup {k} ELSE S BY <1>6
<1>14. n = Cardinality(T)
  <2>1. CASE Present(b[k])
    <3>1. Cardinality(S \cup {k}) = IF k \in S THEN Cardinality(S) ELSE Cardinality(S) + 1
      BY <1>7, FS_AddElement
    <3>2. k \in S <=> k \in past BY <2>1
    <3>3. Cardinality(T) = Cardinality(S \cup {k}) BY <1>13, <2>1
    <3> HIDE DEF S, T, past
    <3> QED BY <1>10, <2>1, <3>1, <3>2, <3>3, SMTT(15)
  <2>2. CASE ~Present(b[k])
    <3>1. T = S BY <1>13, <2>2
    <3> HIDE DEF S, T
    <3> QED BY <1>10, <2>2, <3>1, SMTT(15)
  <2> QED BY <2>1, <2>2
<1>15. Half(x, b, u)
  <2>1. x.req = r /\ x.i = i + 1 /\ x.count = n BY DEF NextCall
  <2>2. x.i # 1 BY <2>1, SMTT(15)
  <2> HIDE DEF x, r, i
  <2>3. HalfDel(x, b, u) BY <1>12, <1>14, <2>1 DEF HalfDel
  <2>4. x.req.name = "DEL" BY <2>1 DEF r
  <2> QED BY <2>2, <2>3, <2>4, HalfIs
<1>16. ASSUME i = Len(r.args) PROVE Finish(r, b, u, Num(n))
  <2>1. next = KeysOf(r)
    <3>1. (i + 1) - 1 = Len(r.args) BY <1>2, <1>16, SMTT(15)
    <3> QED BY <1>3, <3>1 DEF Past
  <2> DEFINE y == [db |-> [j \in DOMAIN b |-> IF Present(b[j]) THEN EmptySlot ELSE b[j]],
                   reply |-> Num(Cardinality({j \in DOMAIN b : Present(b[j])}))]
  <2>2. Expected(r, b) = y BY DEF Expected
  <2>3. T = {j \in DOMAIN b : Present(b[j])} BY <2>1
  <2>4. y.reply = Num(n) BY <1>14, <2>3
  <2>5. \A j \in KeysOf(r) : u[j] = y.db[j] BY <1>12, <2>1
  <2> HIDE DEF y
  <2> QED BY <2>2, <2>4, <2>5 DEF Finish
<1> QED BY <1>15, <1>16 DEF u

\* Division by the number of the ints.
LEMMA Division ==
  ASSUME NEW m \in Nat \ {0}, NEW x \in Int
  PROVE  /\ x % m \in 0..m - 1 /\ x \div m \in Int
         /\ x = m * (x \div m) + (x % m)
BY SMT

\* The remainder of a sum that is already divided.
LEMMA Remainder ==
  ASSUME NEW m \in Nat \ {0}, NEW q \in Int, NEW r \in 0..m - 1
  PROVE  (m * q + r) % m = r
BY SMT

\* Adding step by step, with ints that come back at the other end of their
\* range, is adding at once.
LEMMA SumSteps ==
  ASSUME NEW n \in Int, NEW a \in Int, NEW d \in {1, -1}
  PROVE  /\ Sum(n, a) \in -MaxInt - 1..MaxInt
         /\ Wrap(Sum(n, a) + d) = Sum(n, a + d)
<1> DEFINE m == 2 * MaxInt + 2
           x == n + a + MaxInt + 1
           r == x % m
           q == x \div m
<1> MaxInt \in Nat /\ m \in Nat \ {0} /\ x \in Int BY StoreOpsConstants, SMT
<1> r \in 0..m - 1 /\ q \in Int /\ x = m * q + r
  <2> HIDE DEF x, m
  <2> QED BY Division
<1>3. Sum(n, a) = r - MaxInt - 1 BY DEF Sum
<1>4. Sum(n, a + d) = ((x + d) % m) - MaxInt - 1
  <2>1. n + (a + d) + MaxInt + 1 = x + d BY SMT
  <2>2. Sum(n, a + d) = ((n + (a + d) + MaxInt + 1) % m) - MaxInt - 1 BY DEF Sum
  <2> HIDE DEF x, m
  <2> QED BY <2>1, <2>2
<1>5. x + d = m * q + (r + d)
  <2> HIDE DEF x, m, r, q
  <2>1. m * q \in Int /\ r \in Int /\ d \in Int BY SMT
  <2> QED BY <2>1, SMT
<1>10. Sum(n, a) \in -MaxInt - 1..MaxInt
  <2>1. m = 2 * MaxInt + 2 OBVIOUS
  <2> HIDE DEF x, m, r, q
  <2> QED BY <1>3, <2>1, SMT
<1>11. Wrap(Sum(n, a) + d) = Wrap(r - MaxInt - 1 + d) BY <1>3
<1>6. CASE r + d \in 0..m - 1
  <2>1. (x + d) % m = r + d
    <3> HIDE DEF x, m, r, q
    <3> QED BY <1>5, <1>6, Remainder
  <2>2. Wrap(r - MaxInt - 1 + d) = r + d - MaxInt - 1
    <3>1. m = 2 * MaxInt + 2 OBVIOUS
    <3> HIDE DEF x, m, r, q
    <3> QED BY <1>6, <3>1, SMT DEF Wrap
  <2>3. Sum(n, a + d) = r + d - MaxInt - 1
    <3> HIDE DEF x, m, r, q
    <3> QED BY <1>4, <2>1, SMT
  <2> HIDE DEF x, m, r, q
  <2> QED BY <1>10, <1>11, <2>2, <2>3
<1>7. CASE r + d = m
  <2>1. (x + d) % m = 0
    <3> HIDE DEF x, m, r, q
    <3>1. m * (q + 1) = m * q + m BY SMT
    <3>2. m * q + (r + d) = m * (q + 1) + 0 BY <1>7, <3>1, SMT
    <3>3. x + d = m * (q + 1) + 0 BY <1>5, <3>2
    <3>4. 0 \in 0..m - 1 /\ q + 1 \in Int BY SMT
    <3>5. (m * (q + 1) + 0) % m = 0 BY <3>4, Remainder
    <3> QED BY <3>3, <3>5
  <2>2. Wrap(r - MaxInt - 1 + d) = 0 - MaxInt - 1
    <3>1. m = 2 * MaxInt + 2 OBVIOUS
    <3> HIDE DEF x, m, r, q
    <3> QED BY <1>7, <3>1, SMT DEF Wrap
  <2> HIDE DEF x, m, r, q
  <2> QED BY <1>4, <1>10, <1>11, <2>1, <2>2, SMT
<1>8. CASE r + d = -1
  <2>1. (x + d) % m = m - 1
    <3> HIDE DEF x, m, r, q
    <3>1. m * (q - 1) = m * q - m BY SMT
    <3>2. m * q + (r + d) = m * (q - 1) + (m - 1)
      <4>1. m * q \in Int BY SMT
      <4> QED BY <1>8, <3>1, <4>1, SMT
    <3>3. x + d = m * (q - 1) + (m - 1) BY <1>5, <3>2
    <3>4. m - 1 \in 0..m - 1 /\ q - 1 \in Int BY SMT
    <3>5. (m * (q - 1) + (m - 1)) % m = m - 1 BY <3>4, Remainder
    <3> QED BY <3>3, <3>5
  <2>2. Wrap(r - MaxInt - 1 + d) = m - 1 - MaxInt - 1
    <3>1. m = 2 * MaxInt + 2 OBVIOUS
    <3> HIDE DEF x, m, r, q
    <3> QED BY <1>8, <3>1, SMT DEF Wrap
  <2> HIDE DEF x, m, r, q
  <2> QED BY <1>4, <1>10, <1>11, <2>1, <2>2, SMT
<1>9. r + d \in 0..m - 1 \/ r + d = m \/ r + d = -1
  <2> HIDE DEF x, m, r, q
  <2> QED BY SMT
<1> QED BY <1>6, <1>7, <1>8, <1>9

\* Nothing added.
LEMMA SumNone ==
  ASSUME NEW n \in -MaxInt - 1..MaxInt
  PROVE  Sum(n, 0) = n
<1> DEFINE m == 2 * MaxInt + 2
           r == n + MaxInt + 1
<1> MaxInt \in Nat /\ m \in Nat \ {0} /\ r \in 0..m - 1 /\ n \in Int BY StoreOpsConstants, SMT
<1>2. (m * 0 + r) % m = r
  <2> HIDE DEF m, r
  <2> QED BY Remainder, SMT
<1>3. m * 0 + r = n + 0 + MaxInt + 1
  <2>1. m * 0 = 0
    <3> HIDE DEF m
    <3> QED BY SMT
  <2> QED BY <2>1, SMT
<1>4. Sum(n, 0) = ((n + 0 + MaxInt + 1) % m) - MaxInt - 1 BY DEF Sum
<1>5. Sum(n, 0) = r - MaxInt - 1
  <2> HIDE DEF m
  <2> QED BY <1>2, <1>3, <1>4
<1> QED BY <1>5, SMT

\* A numeral under a key is an int.
LEMMA Numeral ==
  ASSUME NEW e, Held(e), e.str # Absent, ~NotInt(e.str)
  PROVE  e.str.n \in -MaxInt - 1..MaxInt
<1>1. e.str \in Values BY DEF Held, Slot
<1> QED BY <1>1 DEF Values, Plain, NotInt

\* INCRBY and DECRBY add their amount, step by step.
LEMMA IncrByExact ==
  ASSUME NEW p, NEW b, NEW s, AtWork(p, b, s), p.req.name \in {"INCRBY", "DECRBY"},
         p.req.args[2].n > 0, NEW k, k = p.req.args[1],
         NEW o \in AddCall(s[k], IF p.req.name = "INCRBY" THEN 1 ELSE -1), o.ret # "refused"
  PROVE  /\ o.ret # "ok" => Finish(p.req, b, [s EXCEPT ![k] = o.slot], Err)
         /\ o.ret = "ok" /\ p.i = p.req.args[2].n =>
              Finish(p.req, b, [s EXCEPT ![k] = o.slot], Num(o.val))
         /\ o.ret = "ok" =>
              Half(NextCall(p, p.count, p.got, p.found), b, [s EXCEPT ![k] = o.slot])
<1> DEFINE r == p.req
           i == p.i
           d == IF r.name = "INCRBY" THEN 1 ELSE -1
           n == IF b[k].str = Absent THEN 0 ELSE b[k].str.n
           done == IF r.name = "DECRBY" THEN 1 - i ELSE i - 1
           u == [s EXCEPT ![k] = o.slot]
           x == NextCall(p, p.count, p.got, p.found)
           amount == IF r.name = "DECRBY" THEN -r.args[2].n ELSE r.args[2].n
<1>2. KeysOf(r) = {k} BY DEF KeysOf, KeyAt
<1> /\ Request(r) /\ ~Rejected(r) /\ i \in Nat \ {0} /\ DOMAIN b = KeysOf(r)
    /\ s \in [KeysOf(r) -> Slot(Values, Words)] /\ HalfIncrBy(p, b, s)
    /\ \A j \in KeysOf(r) : Held(b[j]) /\ Held(s[j])
    /\ k \in KeysOf(r) /\ (i = 1 => s = b)
  BY AtWorkIs
<1>3. r.args[2].n \in Int BY CallsKind
<1> d \in {1, -1} /\ d \in Int /\ done \in Int BY SMTT(15)
<1>5. u[k] = o.slot OBVIOUS
<1> HIDE DEF u
<1>6. i > 1 => /\ ~(b[k].str # Absent /\ NotInt(b[k].str))
               /\ s[k] = [b[k] EXCEPT !.str = Canonical(Sum(n, done))]
  BY DEF HalfIncrBy
<1>7. i = 1 \/ i > 1 BY SMTT(15)
<1> b[k] \in Slot(Values, Words) /\ Held(b[k]) /\ Held(s[k]) BY DEF Held
<1>9. ASSUME ~(b[k].str # Absent /\ NotInt(b[k].str)) PROVE n \in -MaxInt - 1..MaxInt
  <2>1. CASE b[k].str = Absent BY <2>1, StoreOpsConstants, SMTT(15)
  <2>2. CASE b[k].str # Absent BY <1>9, <2>2, Numeral
  <2> QED BY <2>1, <2>2
<1>10. Expected(r, b) =
         IF b[k].str # Absent /\ NotInt(b[k].str) THEN [db |-> b, reply |-> Err]
         ELSE [db |-> [b EXCEPT ![k].str = Canonical(Sum(n, amount))],
               reply |-> Num(Sum(n, amount))]
  BY DEF Expected, Sum
<1>11. ASSUME o.ret # "ok" PROVE Finish(r, b, u, Err)
  <2>1. o.ret = "notint" /\ o.slot = s[k] /\ s[k].str # Absent /\ NotInt(s[k].str)
    <3>1. /\ o.ret \in {"ok", "notint", "refused"} /\ (o.ret # "ok" => o.slot = s[k])
          /\ o.ret = "notint" => s[k].str # Absent /\ NotInt(s[k].str)
      BY AddFacts, SMT
    <3> QED BY <1>11, <3>1
  <2>2. i = 1
    <3> SUFFICES ASSUME i > 1 PROVE FALSE BY <1>7
    <3>1. s[k].str = Canonical(Sum(n, done)) BY <1>6 DEF Slot
    <3> QED BY <2>1, <3>1, SMTT(15) DEF NotInt, Canonical
  <2>3. s[k] = b[k] /\ u[k] = b[k] BY <1>5, <2>1, <2>2
  <2>4. Expected(r, b) = [db |-> b, reply |-> Err] BY <1>10, <2>1, <2>3
  <2> QED BY <1>2, <2>3, <2>4, SMTT(15) DEF Finish
<1>12. ASSUME o.ret = "ok"
       PROVE  /\ ~(b[k].str # Absent /\ NotInt(b[k].str))
              /\ o.slot = [b[k] EXCEPT !.str = Canonical(Sum(n, done + d))]
              /\ o.val = Sum(n, done + d)
  <2>1. /\ ~(s[k].str # Absent /\ NotInt(s[k].str))
        /\ o.slot = AddOp(s[k], d) /\ o.val = AddOp(s[k], d).str.n
    BY <1>12, AddFacts
  <2>2. ~(b[k].str # Absent /\ NotInt(b[k].str)) BY <1>6, <1>7, <2>1
  <2>7. n \in -MaxInt - 1..MaxInt BY <1>9, <2>2
  <2>3. n \in -MaxInt - 1..MaxInt /\ n \in Int
    <3> HIDE DEF n
    <3> QED BY <2>7, StoreOpsConstants, SMTT(15)
  <2>4. AddOp(s[k], d) = [b[k] EXCEPT !.str = Canonical(Wrap(Sum(n, done) + d))]
    <3>1. CASE i = 1
      <4>1. done = 0 BY <3>1, SMTT(15)
      <4>2. Sum(n, done) = n BY <2>3, <4>1, SumNone
      <4>3. s[k] = b[k] BY <3>1
      <4> HIDE DEF done, d
      <4>4. AddOp(b[k], d) = [b[k] EXCEPT !.str = Canonical(Wrap(n + d))]
        <5>1. CASE b[k].str = Absent BY <5>1 DEF AddOp, Canonical
        <5>2. CASE b[k].str # Absent BY <2>2, <5>2 DEF AddOp, NotInt
        <5> QED BY <5>1, <5>2
      <4> QED BY <4>2, <4>3, <4>4
    <3>2. CASE i > 1
      <4> DEFINE m == Sum(n, done)
      <4>1. s[k] = [b[k] EXCEPT !.str = Canonical(m)] BY <1>6, <3>2
      <4> HIDE DEF m
      <4>2. s[k].str = Canonical(m) BY <4>1 DEF Slot
      <4>3. Canonical(m) # Absent /\ Canonical(m).n = m /\ Canonical(m).form # "text"
        <5>1. m \in -MaxInt - 1..MaxInt BY <2>3, SumSteps DEF m
        <5> QED BY <5>1, StringKinds DEF Canonical
      <4> HIDE DEF d
      <4>4. AddOp(s[k], d) = [s[k] EXCEPT !.str = Canonical(Wrap(m + d))]
        BY <4>2, <4>3 DEF AddOp
      <4>5. ASSUME NEW v, NEW w
            PROVE [[b[k] EXCEPT !.str = v] EXCEPT !.str = w] = [b[k] EXCEPT !.str = w]
        BY DEF Slot
      <4> QED BY <4>1, <4>4, <4>5 DEF m
    <3> QED BY <1>7, <3>1, <3>2
  <2>5. Wrap(Sum(n, done) + d) = Sum(n, done + d)
    <3> HIDE DEF n, done, d
    <3> QED BY <2>3, SumSteps
  <2>6. AddOp(s[k], d).str.n = Sum(n, done + d)
    <3> HIDE DEF n, done, d
    <3> QED BY <2>4, <2>5, SMTT(15) DEF Slot, Canonical
  <2> HIDE DEF n, done, d
  <2> QED BY <2>1, <2>2, <2>4, <2>5, <2>6, SMTT(15)
<1>13. ASSUME o.ret = "ok", i = r.args[2].n PROVE Finish(r, b, u, Num(o.val))
  <2>1. done + d = amount BY <1>3, <1>13, SMTT(15)
  <2> HIDE DEF n, done, d, amount
  <2>2. Expected(r, b) = [db |-> [b EXCEPT ![k].str = Canonical(Sum(n, amount))],
                          reply |-> Num(Sum(n, amount))]
    BY <1>10, <1>12, <1>13
  <2>3. [b EXCEPT ![k].str = Canonical(Sum(n, amount))][k] =
          [b[k] EXCEPT !.str = Canonical(Sum(n, amount))]
    OBVIOUS
  <2>4. o.val = Sum(n, amount) /\ u[k] = [b[k] EXCEPT !.str = Canonical(Sum(n, amount))]
    BY <1>5, <1>12, <1>13, <2>1
  <2>5. Expected(r, b).reply = Num(o.val) /\ Expected(r, b).db[k] = u[k]
    BY <2>2, <2>3, <2>4, SMTT(15)
  <2> QED BY <1>2, <2>5 DEF Finish
<1>14. ASSUME o.ret = "ok" PROVE Half(x, b, u)
  <2> x.req = r /\ x.i = i + 1 BY DEF NextCall
  <2>2. x.i # 1 BY SMTT(15)
  <2>3. done + d = IF r.name = "DECRBY" THEN 1 - x.i ELSE x.i - 1 BY SMTT(15)
  <2>4. x.req.name \in {"INCRBY", "DECRBY"} OBVIOUS
  <2> HIDE DEF x, d, done
  <2>5. HalfIncrBy(x, b, u) BY <1>5, <1>12, <1>14, <2>3 DEF HalfIncrBy
  <2> QED BY <2>2, <2>4, <2>5, HalfIs
<1> QED BY <1>11, <1>13, <1>14 DEF u

\* Keys whose deadlines have not passed.
Fresh(r, b) == \A k \in KeysOf(r) : ~ExpiredAt(b[k], now)

\* What Get returns of a key whose deadline has not passed.
LEMMA GetFresh ==
  ASSUME NEW e, Held(e), ~ExpiredAt(e, now)
  PROVE  /\ GetCall(e).slot = e
         /\ GetCall(e).ret = "ok" <=> e.str # Absent
         /\ GetCall(e).ret = "ok" => GetCall(e).val = e.str
<1>1. Absent \notin Values BY StringKinds
<1> QED BY <1>1, GetFacts

\* RENAME goes on from its Get, or is told that there is no string.
RenameBegins(p, b, s, old, got) ==
  /\ got.ret = "ok" =>
       Half(NextCall(p, p.count, got.val, p.found), b, [s EXCEPT ![old] = got.slot])
  /\ got.ret # "ok" => Finish(p.req, b, [s EXCEPT ![old] = got.slot], Err)

\* RENAME moves the string, in three calls.
LEMMA RenameExact ==
  ASSUME NEW p, NEW b, NEW s, AtWork(p, b, s), p.req.name = "RENAME", Fresh(p.req, b),
         NEW old, old = p.req.args[1], NEW new, new = p.req.args[2], old # new,
         \A k \in KeysOf(p.req) : b[k] = [EmptySlot EXCEPT !.str = b[k].str]
  PROVE  /\ p.i = 1 => RenameBegins(p, b, s, old, GetCall(s[old]))
         /\ p.i = 2 => \A o \in SetCall(s[new], p.got) : o.ret # "refused" =>
              Half(NextCall(p, p.count, p.got, p.found), b, [s EXCEPT ![new] = o.slot])
         /\ p.i = 3 => \A o \in DelCall(s[old]) : o.ret # "refused" =>
              Finish(p.req, b, [s EXCEPT ![old] = o.slot], OK)
<1> DEFINE r == p.req
<1>1. /\ Request(r) /\ ~Rejected(r) /\ DOMAIN b = KeysOf(r) /\ p.i \in Nat
      /\ s \in [KeysOf(r) -> Slot(Values, Words)] /\ HalfRename(p, b, s)
      /\ \A j \in KeysOf(r) : Held(b[j]) /\ Held(s[j])
      /\ (p.i = 1 => s = b) /\ p.got \in Values
  BY AtWorkIs
<1>2. KeysOf(r) = {old, new}
  <2>1. Len(r.args) = 2 BY <1>1, Arity
  <2>2. KeyAt(r) = {1, 2} BY <2>1, SMT DEF KeyAt
  <2> QED BY <2>2, SMT DEF KeysOf
<1>3. p.i > 1 => /\ b[old].str # Absent /\ p.got = b[old].str
                 /\ s[old] = b[old] /\ s[new] = IF p.i = 2 THEN b[new] ELSE b[old]
  BY <1>1 DEF HalfRename
<1>4. /\ Held(b[old]) /\ ~ExpiredAt(b[old], now) /\ b[old] \in Slot(Values, Words)
      /\ b[new] \in Slot(Values, Words) /\ Held(s[old]) /\ Held(s[new])
  BY <1>1, <1>2 DEF Fresh, Held
<1>5. Expected(r, b) =
        IF b[old].str = Absent THEN [db |-> b, reply |-> Err]
        ELSE [db |-> [b EXCEPT ![old] = EmptySlot, ![new] = b[old]], reply |-> OK]
  BY DEF Expected
<1>6. b[old] = [EmptySlot EXCEPT !.str = b[old].str] /\ b[new] = [EmptySlot EXCEPT !.str = b[new].str]
  BY <1>2
<1>7. ASSUME p.i = 1 PROVE RenameBegins(p, b, s, old, GetCall(s[old]))
  <2> DEFINE got == GetCall(s[old])
             u == [s EXCEPT ![old] = got.slot]
             x == NextCall(p, p.count, got.val, p.found)
  <2>1. s = b BY <1>1, <1>7
  <2>2. got.slot = b[old] /\ (got.ret = "ok" <=> b[old].str # Absent)
        /\ (got.ret = "ok" => got.val = b[old].str)
    BY <1>4, <2>1, GetFresh, SMTT(15)
  <2>3. u[old] = b[old] /\ u[new] = b[new]
    <3>1. old \in DOMAIN s /\ new \in DOMAIN s /\ s \in [KeysOf(r) -> Slot(Values, Words)]
      BY <1>1, <1>2
    <3>2. \A v : [s EXCEPT ![old] = v][old] = v /\ [s EXCEPT ![old] = v][new] = s[new]
      BY <3>1
    <3> QED BY <2>1, <2>2, <3>2
  <2>4. x.req = r /\ x.i = 2 /\ x.got = got.val BY <1>7, NextIs, SMTT(15)
  <2> HIDE DEF u, x, got
  <2>5. ASSUME got.ret = "ok" PROVE Half(x, b, u)
    <3>1. x.i # 1 /\ x.req.name = "RENAME" BY <2>4
    <3>2. x.req.args[1] = old /\ x.req.args[2] = new BY <2>4
    <3>3. HalfRename(x, b, u) BY <2>2, <2>3, <2>4, <2>5, <3>2 DEF HalfRename
    <3> QED BY <3>1, <3>3, HalfIs
  <2>6. ASSUME got.ret # "ok" PROVE Finish(r, b, u, Err)
    <3>1. Expected(r, b) = [db |-> b, reply |-> Err] BY <1>5, <2>2, <2>6
    <3> QED BY <1>2, <2>3, <3>1, SMTT(15) DEF Finish
  <2> QED BY <2>5, <2>6 DEF u, x, got, RenameBegins
<1>8. ASSUME p.i = 2, NEW o \in SetCall(s[new], p.got), o.ret # "refused"
      PROVE  Half(NextCall(p, p.count, p.got, p.found), b, [s EXCEPT ![new] = o.slot])
  <2> DEFINE u == [s EXCEPT ![new] = o.slot]
             x == NextCall(p, p.count, p.got, p.found)
  <2>1. o.slot = SetOp(b[new], b[old].str)
    <3>1. s[new] = b[new] /\ p.got = b[old].str BY <1>3, <1>8, SMTT(15)
    <3>2. Held(s[new]) /\ p.got \in Values BY <1>1, <1>4
    <3>3. o.slot = SetOp(s[new], p.got) BY <1>8, <3>2, SetFacts, SMTT(15)
    <3> QED BY <3>1, <3>3
  <2>2. SetOp(b[new], b[old].str) = b[old]
    <3> DEFINE v == b[old].str
               w == b[new].str
    <3>1. [[EmptySlot EXCEPT !.str = w] EXCEPT !.str = v, !.exp = Never] = [EmptySlot EXCEPT !.str = v]
      <4> HIDE DEF v, w
      <4> DEFINE One(z) == [str : {z}, list : {Absent}, set : {Absent}, hash : {Absent},
                            exp : {Never}]
      <4>1. EmptySlot \in One(Absent) BY DEF EmptySlot
      <4>2. ASSUME NEW y, NEW z, NEW e \in One(y)
            PROVE  [e EXCEPT !.str = z] \in One(z) /\ [e EXCEPT !.str = z, !.exp = Never] \in One(z)
        OBVIOUS
      <4>3. ASSUME NEW z, NEW e \in One(z), NEW f \in One(z) PROVE e = f BY SMT
      <4> HIDE DEF One
      <4>4. [EmptySlot EXCEPT !.str = w] \in One(w) /\ [EmptySlot EXCEPT !.str = v] \in One(v)
        BY <4>1, <4>2
      <4> DEFINE f == [EmptySlot EXCEPT !.str = w]
                 g == [EmptySlot EXCEPT !.str = v]
      <4> HIDE DEF f, g
      <4>5. f \in One(w) /\ g \in One(v) BY <4>4 DEF f, g
      <4>6. [f EXCEPT !.str = v, !.exp = Never] \in One(v) BY <4>2, <4>5
      <4>7. [f EXCEPT !.str = v, !.exp = Never] = g BY <4>3, <4>5, <4>6, SMT
      <4> QED BY <4>7 DEF f, g
    <3> QED BY <1>6, <3>1 DEF SetOp
  <2>3. u[old] = b[old] /\ u[new] = b[old]
    <3>1. DOMAIN s = KeysOf(r) /\ old \in KeysOf(r) /\ new \in KeysOf(r) BY <1>1, <1>2
    <3>2. u[old] = s[old] /\ u[new] = o.slot BY <3>1
    <3>3. s[old] = b[old] BY <1>3, <1>8, SMT
    <3> QED BY <2>1, <2>2, <3>2, <3>3
  <2>4. x.req = r /\ x.i = 3 /\ x.got = p.got BY <1>8, NextIs, SMT
  <2> HIDE DEF u, x
  <2>5. x.i # 1 /\ x.req.name = "RENAME" BY <2>4, SMT
  <2>6. HalfRename(x, b, u) BY <1>3, <1>8, <2>3, <2>4, SMTT(15) DEF HalfRename
  <2>7. Half(x, b, u) BY <2>5, <2>6, HalfIs, SMTT(15)
  <2> QED BY <2>7, SMT DEF u, x
<1>9. ASSUME p.i = 3, NEW o \in DelCall(s[old]), o.ret # "refused"
      PROVE  Finish(p.req, b, [s EXCEPT ![old] = o.slot], OK)
  <2> DEFINE u == [s EXCEPT ![old] = o.slot]
  <2>1. s[old] = b[old] /\ s[new] = b[old] /\ b[old].str # Absent BY <1>3, <1>9, SMTT(15)
  <2>2. Present(s[old]) BY <2>1 DEF Present
  <2>3. o.slot = EmptySlot BY <1>4, <1>9, <2>2, DelFacts
  <2>4. u[old] = EmptySlot /\ u[new] = b[old] BY <1>1, <1>2, <2>1, <2>3, SMTT(15)
  <2> DEFINE db2 == [b EXCEPT ![old] = EmptySlot, ![new] = b[old]]
  <2>5. Expected(r, b) = [db |-> db2, reply |-> OK] BY <1>5, <2>1
  <2>6. db2[old] = EmptySlot /\ db2[new] = b[old] BY <1>1, <1>2
  <2> HIDE DEF db2, u
  <2>7. Finish(r, b, u, OK) BY <1>2, <2>4, <2>5, <2>6, SMTT(15) DEF Finish
  <2> QED BY <2>7 DEF u
<1> QED BY <1>7, <1>8, <1>9, SMTT(15)

\* What TYPE asks with its call i.
Asked(e, i) ==
  IF i = 1 THEN GetCall(e)
  ELSE IF i \in {3, 5, 7} THEN ExistsCall(e)
  ELSE Outcome(e, CASE i = 2 -> IF ListOf(e) # << >> THEN "ok" ELSE "none"
                    [] i = 4 -> IF SetOf(e) # {} THEN "ok" ELSE "none"
                    [] i = 6 -> IF DOMAIN HashOf(e) # {} THEN "ok" ELSE "none",
               0)

TypeName(i) == <<"string", "list", "list", "set", "set", "hash", "hash">>[i]

\* The calls of TYPE one by one.
LEMMA AskedIs ==
  ASSUME NEW e
  PROVE  /\ Asked(e, 1) = GetCall(e)
         /\ Asked(e, 3) = ExistsCall(e) /\ Asked(e, 5) = ExistsCall(e)
         /\ Asked(e, 7) = ExistsCall(e)
         /\ Asked(e, 2).ret = IF ListOf(e) # << >> THEN "ok" ELSE "none"
         /\ Asked(e, 4).ret = IF SetOf(e) # {} THEN "ok" ELSE "none"
         /\ Asked(e, 6).ret = IF DOMAIN HashOf(e) # {} THEN "ok" ELSE "none"
<1>1. Asked(e, 1) = GetCall(e) BY DEF Asked
<1>2. Asked(e, 3) = ExistsCall(e) /\ Asked(e, 5) = ExistsCall(e) /\ Asked(e, 7) = ExistsCall(e)
  BY SMT DEF Asked
<1>3. Asked(e, 2).ret = IF ListOf(e) # << >> THEN "ok" ELSE "none" BY SMT DEF Asked, Outcome
<1>4. Asked(e, 4).ret = IF SetOf(e) # {} THEN "ok" ELSE "none" BY SMT DEF Asked, Outcome
<1>5. Asked(e, 6).ret = IF DOMAIN HashOf(e) # {} THEN "ok" ELSE "none" BY SMT DEF Asked, Outcome
<1> QED BY <1>1, <1>2, <1>3, <1>4, <1>5

\* TYPE tells strings, lists and missing keys apart.
LEMMA TypeExact ==
  ASSUME NEW p, NEW b, NEW s, AtWork(p, b, s), p.req.name = "TYPE", Fresh(p.req, b),
         NEW k, k = p.req.args[1], b[k].set = Absent, b[k].hash = Absent,
         NEW o, o = Asked(s[k], p.i)
  PROVE  LET u == [s EXCEPT ![k] = o.slot]
         IN /\ o.ret = "ok" => Finish(p.req, b, u, [status |-> TypeName(p.i)])
            /\ o.ret # "ok" /\ p.i = 7 => Finish(p.req, b, u, [status |-> "none"])
            /\ o.ret # "ok" => Half(NextCall(p, p.count, p.got, p.found), b, u)
<1> DEFINE r == p.req
           i == p.i
           e == b[k]
           u == [s EXCEPT ![k] = o.slot]
           x == NextCall(p, p.count, p.got, p.found)
<1>1. /\ Request(r) /\ ~Rejected(r) /\ DOMAIN b = KeysOf(r) /\ k \in KeysOf(r)
      /\ s \in [KeysOf(r) -> Slot(Values, Words)] /\ HalfType(p, b, s) /\ i \in Nat \ {0}
      /\ Held(e) /\ i \in 1..Calls(r)
  BY AtWorkIs
<1>2. i \in 1..7 BY <1>1 DEF Calls
<1>3. s = b /\ (i > 1 => e.str = Absent) /\ (i > 2 => e.list = Absent) BY <1>1 DEF HalfType
<1>4. ~ExpiredAt(e, now) BY <1>1 DEF Fresh
<1>5. e.list # << >> /\ SetOf(e) = {} /\ DOMAIN HashOf(e) = {}
  <2>1. SetOf(e) = {} BY DEF SetOf
  <2>2. DOMAIN HashOf(e) = {} BY DEF HashOf
  <2> QED BY <1>1, <2>1, <2>2, SMTT(15) DEF Held, NonEmpty
<1>6. Present(e) <=> e.str # Absent \/ e.list # Absent BY DEF Present
<1>7. o = Asked(e, i) BY <1>3
<1> HIDE DEF e, i, r
<1>8. o.slot = e
  <2>1. GetCall(e).slot = e /\ ExistsCall(e).slot = e BY <1>1, <1>4, GetFresh, ExistsFacts
  <2>2. \A ret : Outcome(e, ret, 0).slot = e BY DEF Outcome
  <2> QED BY <1>7, <2>1, <2>2 DEF Asked
<1>9. u = s
  <2>1. o.slot = s[k] BY <1>3, <1>8 DEF e
  <2> QED BY <1>1, <2>1
<1> HIDE DEF u
<1>10. /\ i = 1 => (o.ret = "ok" <=> e.str # Absent)
       /\ i = 2 => (o.ret = "ok" <=> e.list # Absent)
       /\ i > 2 => o.ret # "ok"
  <2>1. CASE i = 1
    <3>1. o = GetCall(e) BY <1>7, <2>1, AskedIs, SMTT(15)
    <3>2. o.ret = "ok" <=> e.str # Absent BY <1>1, <1>4, <3>1, GetFresh, SMTT(15)
    <3>3. i # 2 /\ ~(i > 2) BY <2>1, SMT
    <3> QED BY <3>2, <3>3
  <2>2. CASE i = 2
    <3>1. o.ret = IF ListOf(e) # << >> THEN "ok" ELSE "none" BY <1>7, <2>2, AskedIs, SMTT(15)
    <3>2. ListOf(e) # << >> <=> e.list # Absent BY <1>5 DEF ListOf
    <3>3. o.ret = "ok" <=> e.list # Absent BY <3>1, <3>2
    <3>4. i # 1 /\ ~(i > 2) BY <2>2, SMT
    <3> QED BY <3>3, <3>4
  <2>3. CASE i \in {3, 5, 7}
    <3>1. ~Present(e) BY <1>3, <1>6, <2>3, SMTT(15)
    <3>2. o = ExistsCall(e) BY <1>7, <2>3, AskedIs, SMTT(15)
    <3>3. o.ret # "ok" BY <3>1, <3>2, SMTT(15) DEF ExistsCall, Outcome
    <3>4. i # 1 /\ i # 2 BY <2>3, SMT
    <3> QED BY <3>3, <3>4
  <2>4. CASE i = 4
    <3>1. o.ret # "ok" BY <1>5, <1>7, <2>4, AskedIs, SMTT(15)
    <3> QED BY <2>4, <3>1, SMTT(15)
  <2>5. CASE i = 6
    <3>1. o.ret # "ok" BY <1>5, <1>7, <2>5, AskedIs, SMTT(15)
    <3> QED BY <2>5, <3>1, SMTT(15)
  <2>6. i = 1 \/ i = 2 \/ i \in {3, 5, 7} \/ i = 4 \/ i = 6 BY <1>2, SMTT(15)
  <2> QED BY <2>1, <2>2, <2>3, <2>4, <2>5, <2>6
<1>11. Expected(r, b) =
         [db |-> b, reply |-> [status |-> IF e.str # Absent THEN "string"
                                          ELSE IF e.list # Absent THEN "list" ELSE "none"]]
  BY DEF Expected, e, r
<1>12. ASSUME NEW t, Expected(r, b) = [db |-> b, reply |-> [status |-> t]]
       PROVE  Finish(r, b, u, [status |-> t])
  BY <1>3, <1>9, <1>12, SMTT(15) DEF Finish
<1>13. ASSUME o.ret = "ok" PROVE Finish(r, b, u, [status |-> TypeName(i)])
  <2>1. i \in {1, 2} BY <1>2, <1>10, <1>13, SMTT(15)
  <2>2. CASE i = 1
    <3>1. TypeName(1) = "string" BY DEF TypeName
    <3> QED BY <1>10, <1>11, <1>12, <1>13, <2>2, <3>1
  <2>3. CASE i = 2
    <3>1. TypeName(2) = "list" BY DEF TypeName
    <3> QED BY <1>3, <1>10, <1>11, <1>12, <1>13, <2>3, <3>1, SMTT(15)
  <2> QED BY <2>1, <2>2, <2>3
<1>14. ASSUME o.ret # "ok", i = 7 PROVE Finish(r, b, u, [status |-> "none"])
  BY <1>3, <1>11, <1>12, <1>14, SMTT(15)
<1>15. ASSUME o.ret # "ok" PROVE Half(x, b, u)
  <2>1. x.req = r /\ x.i = i + 1 /\ x.req.name = "TYPE" BY NextIs, SMT DEF r, i
  <2>2. x.i # 1 BY <1>1, <2>1, SMTT(15)
  <2> HIDE DEF x
  <2>3. HalfType(x, b, u)
    <3>1. x.i > 1 => e.str = Absent BY <1>2, <1>3, <1>10, <1>15, <2>1, SMTT(15)
    <3>2. x.i > 2 => e.list = Absent BY <1>2, <1>3, <1>10, <1>15, <2>1, SMTT(15)
    <3>3. x.req.args[1] = k BY <2>1 DEF r
    <3> QED BY <1>3, <1>9, <3>1, <3>2, <3>3 DEF HalfType, e
  <2> QED BY <2>1, <2>2, <2>3, HalfIs
<1> QED BY <1>13, <1>14, <1>15 DEF u, r, i

\* APPEND sets the two texts together.
LEMMA AppendExact ==
  ASSUME NEW p, NEW b, NEW s, AtWork(p, b, s), p.req.name = "APPEND", Fresh(p.req, b),
         NEW k, k = p.req.args[1]
  PROVE  /\ p.i = 1 =>
              LET got == GetCall(s[k])
                  text == p.req.args[2]
                  v == IF got.ret = "ok" THEN Join(got.val, text) ELSE text
              IN Half(NextCall(p, p.count, v, p.found), b, [s EXCEPT ![k] = got.slot])
         /\ p.i = 2 => \A o \in SetCall(s[k], p.got) : o.ret # "refused" =>
              Finish(p.req, b, [s EXCEPT ![k] = o.slot], Num(Length(p.got)))
<1> DEFINE r == p.req
           e == b[k]
           joined == IF e.str = Absent THEN r.args[2] ELSE Join(e.str, r.args[2])
<1>1. /\ Request(r) /\ ~Rejected(r) /\ DOMAIN b = KeysOf(r) /\ k \in KeysOf(r)
      /\ s \in [KeysOf(r) -> Slot(Values, Words)] /\ HalfAppend(p, b, s)
      /\ Held(e) /\ p.got \in Values
  BY AtWorkIs
<1>2. KeysOf(r) = {k} BY DEF KeysOf, KeyAt
<1>3. s = b /\ (p.i > 1 => p.got = joined) BY <1>1 DEF HalfAppend, Joined
<1>4. ~ExpiredAt(e, now) BY <1>1 DEF Fresh
<1>5. ASSUME p.i = 1
      PROVE  LET got == GetCall(s[k])
                 text == p.req.args[2]
                 v == IF got.ret = "ok" THEN Join(got.val, text) ELSE text
             IN Half(NextCall(p, p.count, v, p.found), b, [s EXCEPT ![k] = got.slot])
  <2> DEFINE got == GetCall(s[k])
             text == p.req.args[2]
             v == IF got.ret = "ok" THEN Join(got.val, text) ELSE text
             x == NextCall(p, p.count, v, p.found)
             u == [s EXCEPT ![k] = got.slot]
  <2>1. got.slot = e /\ (got.ret = "ok" <=> e.str # Absent) /\ (got.ret = "ok" => got.val = e.str)
    BY <1>1, <1>3, <1>4, GetFresh
  <2>2. v = joined BY <2>1
  <2>3. u = b
    <3>1. got.slot = s[k] BY <1>3, <2>1
    <3> HIDE DEF got
    <3>2. u = s BY <1>1, <3>1
    <3> QED BY <1>3, <3>2
  <2> HIDE DEF v
  <2>4. x.req = r /\ x.i = 2 /\ x.got = v BY <1>5, NextIs, SMTT(15)
  <2> HIDE DEF x, u
  <2>5. x.i # 1 /\ x.req.name = "APPEND" BY <2>4, SMT
  <2>6. HalfAppend(x, b, u) BY <2>2, <2>3, <2>4 DEF HalfAppend, Joined
  <2>7. Half(x, b, u) BY <2>5, <2>6, HalfIs
  <2> QED BY <2>7 DEF x, v, u
<1>6. ASSUME p.i = 2, NEW o \in SetCall(s[k], p.got), o.ret # "refused"
      PROVE  Finish(p.req, b, [s EXCEPT ![k] = o.slot], Num(Length(p.got)))
  <2> DEFINE u == [s EXCEPT ![k] = o.slot]
             db2 == [b EXCEPT ![k].str = joined, ![k].exp = Never]
  <2>1. p.got = joined /\ s[k] = e BY <1>3, <1>6, SMTT(15)
  <2>2. o.slot = SetOp(e, p.got)
    <3>1. Held(s[k]) /\ p.got \in Values BY <1>1, <2>1
    <3>2. o.slot = SetOp(s[k], p.got) BY <1>6, <3>1, SetFacts, SMTT(15)
    <3> QED BY <2>1, <3>2
  <2>3. u[k] = SetOp(e, p.got) BY <1>1, <2>2
  <2>4. Expected(r, b) = [db |-> db2, reply |-> Num(Length(joined))] BY DEF Expected
  <2>5. db2[k] = SetOp(e, p.got)
    <3>1. e \in Slot(Values, Words) BY <1>1 DEF Held
    <3>2. db2[k] = [[e EXCEPT !.str = joined] EXCEPT !.exp = Never] BY <1>1
    <3> HIDE DEF joined, db2, e
    <3>3. [[e EXCEPT !.str = joined] EXCEPT !.exp = Never] = [e EXCEPT !.str = joined, !.exp = Never]
      BY <3>1 DEF Slot
    <3> QED BY <2>1, <3>2, <3>3 DEF SetOp
  <2> HIDE DEF db2, u, joined
  <2>6. Finish(r, b, u, Num(Length(p.got))) BY <1>2, <2>1, <2>3, <2>4, <2>5, SMTT(15) DEF Finish
  <2> QED BY <2>6 DEF u
<1> QED BY <1>5, <1>6

\* MGET's answer so far, with what one Get more returned.
Found(got) == IF got.ret = "ok" THEN got.val ELSE EmptyText

With(found, got) == Append(found, Found(got))

\* MGET answers the strings, and the empty one for a key that has none.
LEMMA MGetExact ==
  ASSUME NEW p, NEW b, NEW s, AtWork(p, b, s), p.req.name = "MGET", Fresh(p.req, b),
         NEW k, k = p.req.args[p.i], NEW got, got = GetCall(s[k]),
         NEW f, f = With(p.found, got)
  PROVE  /\ p.i = Len(p.req.args) => Finish(p.req, b, [s EXCEPT ![k] = got.slot], Array(f))
         /\ Half(NextCall(p, p.count, p.got, f), b, [s EXCEPT ![k] = got.slot])
<1> DEFINE r == p.req
           i == p.i
           u == [s EXCEPT ![k] = got.slot]
           x == NextCall(p, p.count, p.got, f)
<1>1. /\ Request(r) /\ ~Rejected(r) /\ DOMAIN b = KeysOf(r) /\ i \in Nat \ {0}
      /\ s \in [KeysOf(r) -> Slot(Values, Words)] /\ HalfMGet(p, b, s)
      /\ \A j \in KeysOf(r) : Held(b[j])
      /\ p.found \in Seq(Values) /\ i \in 1..Calls(r)
  BY AtWorkIs
<1>2. i \in 1..Len(r.args) /\ Len(r.args) \in Nat BY <1>1, CallsKind, RequestKind, SMTT(15)
<1>3. k \in KeysOf(r) BY <1>2 DEF KeysOf, KeyAt
<1>4. /\ s = b /\ Len(p.found) = i - 1
      /\ \A j \in 1..i - 1 : p.found[j] = Answer(r, b, j)
  BY <1>1 DEF HalfMGet
<1>5. Held(b[k]) /\ ~ExpiredAt(b[k], now) BY <1>1, <1>3 DEF Fresh
<1>6. /\ got.slot = b[k] /\ (got.ret = "ok" <=> b[k].str # Absent)
      /\ got.ret = "ok" => got.val = b[k].str
  BY <1>4, <1>5, GetFresh
<1>7. u = b
  <2>1. u = s BY <1>1, <1>3, <1>4, <1>6
  <2> QED BY <1>4, <2>1
<1> HIDE DEF u
<1>8. Found(got) = Answer(r, b, i) BY <1>6 DEF Answer, Found
<1>9. /\ Len(f) = i /\ \A j \in 1..i : f[j] = Answer(r, b, j)
      /\ f = [j \in 1..i |-> f[j]]
  <2> DEFINE v == Found(got)
  <2>1. v \in Values
    <3>1. got.ret = "ok" => b[k].str \in Values BY <1>5, <1>6 DEF Held, Slot
    <3> QED BY <1>6, <3>1, StringKinds DEF Found
  <2>2. f = Append(p.found, v) /\ v = Answer(r, b, i) BY <1>8 DEF With
  <2> HIDE DEF r, i, v
  <2>3. f \in Seq(Values) /\ Len(f) = Len(p.found) + 1 BY <1>1, <2>1, <2>2, AppendProperties, SMTT(15)
  <2>4. /\ \A j \in 1..Len(p.found) : f[j] = p.found[j]
        /\ f[Len(p.found) + 1] = v
    BY <1>1, <2>1, <2>2, AppendProperties, SMTT(15)
  <2>5. Len(f) = i
    <3>1. Len(p.found) = i - 1 /\ (i - 1) + 1 = i BY <1>1, <1>4, SMT
    <3> QED BY <2>3, <3>1
  <2>6. ASSUME NEW j \in 1..i PROVE f[j] = Answer(r, b, j)
    <3>1. CASE j = i
      <4>1. Len(p.found) + 1 = i BY <1>1, <1>4, SMTT(15)
      <4> QED BY <2>2, <2>4, <3>1, <4>1
    <3>2. CASE j # i
      <4>1. j \in 1..i - 1 BY <1>1, <3>2, SMTT(15)
      <4>2. j \in 1..Len(p.found) BY <1>4, <4>1
      <4> QED BY <1>4, <2>4, <4>1, <4>2
    <3> QED BY <3>1, <3>2
  <2> HIDE DEF v
  <2>7. f = [j \in 1..Len(f) |-> f[j]]
    <3>1. f \in Seq(Values) BY <2>3
    <3>2. f \in [1..Len(f) -> Values] BY <3>1, LenProperties
    <3> QED BY <3>2
  <2> QED BY <2>5, <2>6, <2>7
<1>10. ASSUME i = Len(r.args) PROVE Finish(r, b, u, Array(f))
  <2> DEFINE g == [j \in DOMAIN r.args |->
                     IF b[r.args[j]].str = Absent THEN EmptyText ELSE b[r.args[j]].str]
  <2>1. Expected(r, b) = [db |-> b, reply |-> Array(g)] BY SMTT(15) DEF Expected
  <2>2. DOMAIN r.args = 1..i
    <3>1. r.args \in Seq(Keys \cup Words) BY <1>1, RequestKind
    <3>2. DOMAIN r.args = 1..Len(r.args) BY <3>1, LenProperties
    <3> QED BY <1>10, <3>2
  <2>3. f = g BY <1>9, <2>2 DEF Answer
  <2> HIDE DEF g
  <2>4. Expected(r, b) = [db |-> b, reply |-> Array(f)] BY <2>1, <2>3
  <2>5. \A j \in KeysOf(r) : u[j] = b[j] BY <1>7
  <2> QED BY <2>4, <2>5, FinishIs
<1>11. Half(x, b, u)
  <2>1. x.req = r /\ x.i = i + 1 /\ x.found = f BY DEF NextCall
  <2> HIDE DEF x
  <2>2. x.i # 1 /\ x.i - 1 = i
    <3>1. i \in Nat \ {0} BY <1>1
    <3> QED BY <2>1, <3>1, SMTT(15)
  <2>3. x.req.name = "MGET" BY <2>1
  <2> HIDE DEF r, i
  <2>4. HalfMGet(x, b, u) BY <1>7, <1>9, <2>1, <2>2 DEF HalfMGet
  <2> QED BY <2>2, <2>3, <2>4, HalfIs
<1> QED BY <1>10, <1>11 DEF u

\* MSET leaves every key with the last value it is given.
LEMMA MSetExact ==
  ASSUME NEW p, NEW b, NEW s, AtWork(p, b, s), p.req.name = "MSET",
         NEW k, k = Pair(p, 0)[1], NEW o \in SetCall(s[k], Pair(p, 0)[2]), o.ret # "refused"
  PROVE  /\ LastPair(p, 0) => Finish(p.req, b, [s EXCEPT ![k] = o.slot], OK)
         /\ Half(NextCall(p, p.count, p.got, p.found), b, [s EXCEPT ![k] = o.slot])
<1> DEFINE r == p.req
           i == p.i
           args == r.args
           v == args[2 * i]
           u == [s EXCEPT ![k] = o.slot]
           x == NextCall(p, p.count, p.got, p.found)
<1>1. /\ Request(r) /\ ~Rejected(r) /\ DOMAIN b = KeysOf(r) /\ i \in Nat \ {0}
      /\ s \in [KeysOf(r) -> Slot(Values, Words)] /\ HalfMSet(p, b, s)
      /\ \A j \in KeysOf(r) : Held(b[j]) /\ Held(s[j])
      /\ i \in 1..Calls(r)
  BY AtWorkIs
<1>2. RunOK(p) /\ i \in Nat \ {0} BY <1>1 DEF AtWork
<1>3. /\ k = args[2 * i - 1] /\ k \in KeysOf(r) /\ Pair(p, 0)[2] = v /\ v \in Words
      /\ LastPair(p, 0) => i = Calls(r)
  BY <1>2, PairsAre
<1>4. v \in Values BY <1>3, StringKinds
<1>5. Held(s[k]) /\ Held(b[k]) BY <1>1, <1>3
<1>6. o.slot = SetOp(s[k], v) BY <1>3, <1>4, <1>5, SetFacts, SMTT(15)
<1>7. \A j \in KeysOf(r) : /\ s[j].list = b[j].list /\ s[j].set = b[j].set /\ s[j].hash = b[j].hash
                          /\ \A l \in 1..i - 1 : LastCallOn(args, 0, i, j, l) => s[j] = SetOp(b[j], args[2 * l])
  BY <1>1 DEF HalfMSet
<1>8. /\ o.slot = SetOp(b[k], v)
      /\ o.slot.list = b[k].list /\ o.slot.set = b[k].set /\ o.slot.hash = b[k].hash
  <2>1. s[k] \in Slot(Values, Words) /\ b[k] \in Slot(Values, Words) BY <1>5 DEF Held
  <2>2. s[k].list = b[k].list /\ s[k].set = b[k].set /\ s[k].hash = b[k].hash BY <1>3, <1>7
  <2>3. /\ SetOp(s[k], v) = SetOp(b[k], v)
        /\ SetOp(s[k], v).list = s[k].list /\ SetOp(s[k], v).set = s[k].set
        /\ SetOp(s[k], v).hash = s[k].hash
    <3> HIDE DEF v
    <3> QED BY <2>1, <2>2, SetSame, SMTT(15)
  <2> QED BY <1>6, <2>2, <2>3
<1>9. u[k] = o.slot /\ \A j \in KeysOf(r) : j # k => u[j] = s[j] BY <1>1, <1>3
<1>10. k = args[0 + 2 * i - 1] BY <1>1, <1>3, SMTT(15)
<1> HIDE DEF u, i, r, v, args
<1>10a. Grown(args, 0, i, k) BY <1>1, <1>10, TouchedGrows
<1>11. ASSUME NEW j \in KeysOf(r)
       PROVE  /\ u[j].list = b[j].list /\ u[j].set = b[j].set /\ u[j].hash = b[j].hash
              /\ \A l : LastCallOn(args, 0, i + 1, j, l) => u[j] = SetOp(b[j], args[2 * l])
  <2>1. CASE j = k
    <3>1. \A l : LastCallOn(args, 0, i + 1, k, l) => l = i BY <1>10a DEF Grown
    <3> QED BY <1>8, <1>9, <2>1, <3>1, SMTT(15) DEF v
  <2>2. CASE j # k
    <3>1. \A l : LastCallOn(args, 0, i + 1, j, l) => LastCallOn(args, 0, i, j, l)
      BY <1>10a, <2>2 DEF Grown
    <3>2. \A l : LastCallOn(args, 0, i, j, l) => l \in 1..i - 1 BY DEF LastCallOn
    <3> QED BY <1>7, <1>9, <2>2, <3>1, <3>2, SMTT(15)
  <2> QED BY <2>1, <2>2
<1>12. ASSUME LastPair(p, 0) PROVE Finish(r, b, u, OK)
  <2>1. i = Calls(r) /\ 2 * Calls(r) = Len(args) /\ i \in Nat
    BY <1>1, <1>3, <1>12, CallsKind, SMTT(15) DEF r, args
  <2>2. Len(args) = 0 + 2 * i /\ 0 \in {0, 1} BY <2>1, SMTT(15)
  <2>3. /\ DOMAIN Assigned(args, 0 + 1) = Touched(args, 0, i + 1)
        /\ \A f \in Touched(args, 0, i + 1) :
             \E j \in 1..i : /\ LastCallOn(args, 0, i + 1, f, j)
                           /\ Assigned(args, 0 + 1)[f] = args[0 + 2 * j]
    <3>1. Settled(args, 0, i) BY <2>1, <2>2, Finals
    <3> QED BY <3>1 DEF Settled
  <2>4. 0 + 1 = 1 /\ \A j \in 1..i : 0 + 2 * j = 2 * j BY SMTT(15)
  <2>5. KeysOf(r) = Touched(args, 0, i + 1)
    <3>1. KeyAt(r) = {j \in 1..Len(args) : j % 2 = 1} BY DEF KeyAt, r, args
    <3>2. 1..(i + 1) - 1 = 1..i BY <2>1, SMTT(15)
    <3>3. ASSUME NEW j \in 1..i PROVE 0 + 2 * j - 1 \in KeyAt(r)
      <4>1. j \in Nat /\ 2 * j - 1 \in 1..Len(args) /\ 0 + 2 * j - 1 = 2 * j - 1 BY <2>1, SMTT(15)
      <4>2. (2 * j - 1) % 2 = 1 BY <4>1, Odds
      <4> QED BY <3>1, <4>1, <4>2
    <3>4. ASSUME NEW q \in KeyAt(r) PROVE \E j \in 1..i : q = 0 + 2 * j - 1
      <4> DEFINE h == q \div 2
      <4>1. q \in Nat /\ q <= 2 * i /\ q % 2 = 1 BY <2>1, <3>1, SMTT(15)
      <4>2. h \in Nat /\ 1 + 2 * h = q BY <4>1, Halves
      <4> HIDE DEF h
      <4>3. h + 1 \in 1..i /\ q = 0 + 2 * (h + 1) - 1 BY <2>1, <4>1, <4>2, SMTT(15)
      <4> QED BY <4>3
    <3> HIDE DEF args
    <3>5. KeysOf(r) = {args[q] : q \in KeyAt(r)} BY DEF KeysOf, args
    <3>6. Touched(args, 0, i + 1) = {args[0 + 2 * j - 1] : j \in 1..i} BY <3>2 DEF Touched
    <3> QED BY <3>3, <3>4, <3>5, <3>6, SMTT(15)
  <2> DEFINE db2 == [j \in DOMAIN b |-> [b[j] EXCEPT !.str = Assigned(args, 1)[j], !.exp = Never]]
  <2>6. Expected(r, b) = [db |-> db2, reply |-> OK] BY DEF Expected, r, args
  <2>7. ASSUME NEW j \in KeysOf(r) PROVE u[j] = db2[j]
    <3>1. PICK l \in 1..i : /\ LastCallOn(args, 0, i + 1, j, l)
                            /\ Assigned(args, 0 + 1)[j] = args[0 + 2 * l]
      BY <2>3, <2>5
    <3>2. Assigned(args, 1)[j] = args[2 * l] BY <2>4, <3>1
    <3>3. u[j] = SetOp(b[j], args[2 * l]) BY <1>11, <3>1
    <3>4. db2[j] = SetOp(b[j], Assigned(args, 1)[j]) BY <1>1 DEF SetOp
    <3> QED BY <3>2, <3>3, <3>4
  <2> HIDE DEF db2
  <2> QED BY <2>6, <2>7, FinishIs
<1>13. Half(x, b, u)
  <2>1. x.req = p.req /\ x.i = p.i + 1 BY DEF NextCall
  <2> HIDE DEF x
  <2>2. x.i # 1 /\ x.i = i + 1 /\ x.req = r /\ x.req.args = args /\ x.req.name = "MSET"
    BY <1>2, <2>1, SMTT(15) DEF i, r, args
  <2>3. ASSUME NEW j \in DOMAIN b
        PROVE  /\ u[j].list = b[j].list /\ u[j].set = b[j].set /\ u[j].hash = b[j].hash
               /\ \A l \in 1..x.i - 1 : LastCallOn(x.req.args, 0, x.i, j, l) =>
                    u[j] = SetOp(b[j], x.req.args[2 * l])
    <3>1. j \in KeysOf(r) BY <1>1
    <3> QED BY <1>11, <2>2, <3>1
  <2>4. HalfMSet(x, b, u) BY <2>3 DEF HalfMSet
  <2> QED BY <2>2, <2>4, HalfIs
<1> QED BY <1>12, <1>13 DEF u, r
-----------------------------------------------------------------------------
\* The slot g is slot e with v in field f of its hash.
Extended(e, f, v, g) ==
  LET h == g.hash
  IN /\ g = [e EXCEPT !.hash = h] /\ HashOf(g) = h
     /\ DOMAIN h = DOMAIN HashOf(e) \cup {f} /\ h = [m \in DOMAIN h |-> h[m]]
     /\ h[f] = v /\ \A m \in DOMAIN HashOf(e) : m # f => h[m] = HashOf(e)[m]

\* What HSet leaves of a hash.
LEMMA HashSet ==
  ASSUME NEW e, Held(e), NEW f \in Words, NEW v \in Words
  PROVE  Extended(e, f, v, HSetOp(e, f, v))
<1> DEFINE fv == [g \in {f} |-> v]
           new == [g \in DOMAIN HashOf(e) \cup DOMAIN fv |->
                     IF g \in DOMAIN fv THEN fv[g] ELSE HashOf(e)[g]]
           h == HSetOp(e, f, v).hash
<1>1. HSetOp(e, f, v) = [e EXCEPT !.hash = new] BY DEF HSetOp, HMSetOp
<1>2. /\ DOMAIN new = DOMAIN HashOf(e) \cup {f} /\ new = [g \in DOMAIN new |-> new[g]]
      /\ new[f] = v /\ \A g \in DOMAIN HashOf(e) : g # f => new[g] = HashOf(e)[g]
  OBVIOUS
<1> HIDE DEF new
<1>3. h = new
  <2>1. e \in Slot(Values, Words) BY DEF Held
  <2> QED BY <1>1, <2>1 DEF Slot
<1>4. HashOf(HSetOp(e, f, v)) = h
  <2>1. DOMAIN HashOf(HSetOp(e, f, v)) = DOMAIN HashOf(e) \cup {f} BY HSetGrows
  <2>2. h # Absent
    <3>1. SUFFICES ASSUME h = Absent PROVE FALSE OBVIOUS
    <3>2. HashOf(HSetOp(e, f, v)) = [g \in {} |-> Absent] BY <3>1 DEF HashOf
    <3>3. DOMAIN HashOf(HSetOp(e, f, v)) = {} BY <3>2
    <3> QED BY <2>1, <3>3
  <2> QED BY <2>2 DEF HashOf
<1> HIDE DEF h
<1>5. HSetOp(e, f, v).hash = h BY DEF h
<1> QED BY <1>1, <1>2, <1>3, <1>4, <1>5 DEF Extended

\* Slots that differ in the hash alone are the same with the same hash.
LEMMA HashSame ==
  ASSUME NEW e \in Slot(Values, Words), NEW f \in Slot(Values, Words), NEW h,
         e.str = f.str, e.list = f.list, e.set = f.set, e.exp = f.exp
  PROVE  LET g == [e EXCEPT !.hash = h]
         IN /\ g = [f EXCEPT !.hash = h]
            /\ g.str = e.str /\ g.list = e.list /\ g.set = e.set /\ g.exp = e.exp /\ g.hash = h
<1> DEFINE One == [str : {f.str}, list : {f.list}, set : {f.set}, hash : {h}, exp : {f.exp}]
<1>1. [e EXCEPT !.hash = h] \in One BY DEF Slot
<1>2. [f EXCEPT !.hash = h] \in One BY DEF Slot
<1>3. \A x, y \in One : x = y BY SMT
<1> QED BY <1>1, <1>2, <1>3

\* A member more counts once.
LEMMA CountsOnce ==
  ASSUME NEW S, IsFiniteSet(S), NEW D, NEW g
  PROVE  /\ Cardinality(S \ D) \in Nat
         /\ g \in S \cup D => Cardinality((S \cup {g}) \ D) = Cardinality(S \ D)
         /\ g \notin S \cup D => Cardinality((S \cup {g}) \ D) = Cardinality(S \ D) + 1
<1>1. IsFiniteSet(S \ D) BY FS_Subset
<1>2. Cardinality(S \ D) \in Nat BY <1>1, FS_CardinalityType
<1>3. ASSUME g \in S \cup D PROVE (S \cup {g}) \ D = S \ D BY <1>3
<1>4. ASSUME g \notin S \cup D PROVE (S \cup {g}) \ D = (S \ D) \cup {g} /\ g \notin S \ D BY <1>4
<1> QED BY <1>1, <1>2, <1>3, <1>4, FS_AddElement

\* What a field adds to HSET's answer.
IsNew(g, e) == IF g \in DOMAIN HashOf(e) THEN 0 ELSE 1

\* HSET leaves every field with the last value it is given, and counts the new
\* ones once.
LEMMA HSetExact ==
  ASSUME NEW p, NEW b, NEW s, AtWork(p, b, s), p.req.name = "HSET",
         NEW k, k = p.req.args[1], NEW g, g = Pair(p, 1)[1],
         NEW f2, f2 = HSetOp(s[k], g, Pair(p, 1)[2]), NEW n, n = p.count + IsNew(g, s[k])
  PROVE  /\ LastPair(p, 1) => Finish(p.req, b, [s EXCEPT ![k] = f2], Num(n))
         /\ Half(NextCall(p, n, p.got, p.found), b, [s EXCEPT ![k] = f2])
<1> DEFINE r == p.req
           i == p.i
           args == r.args
           v == args[2 * i + 1]
           u == [s EXCEPT ![k] = f2]
           x == NextCall(p, n, p.got, p.found)
           e == b[k]
           f == s[k]
           past == Touched(args, 1, i)
           past2 == Touched(args, 1, i + 1)
           h == f2.hash
<1>1. /\ Request(r) /\ ~Rejected(r) /\ DOMAIN b = KeysOf(r) /\ i \in Nat \ {0}
      /\ s \in [KeysOf(r) -> Slot(Values, Words)] /\ HalfHSet(p, b, s)
      /\ \A j \in KeysOf(r) : Held(b[j]) /\ Held(s[j])
      /\ i \in 1..Calls(r) /\ k \in KeysOf(r) /\ p.count \in Nat
  BY AtWorkIs
<1>2. RunOK(p) BY DEF AtWork
<1>3. /\ g = args[2 * i] /\ Pair(p, 1)[2] = v /\ v \in Words /\ g \in Words
      /\ LastPair(p, 1) => i = Calls(r)
  BY <1>2, PairsAre
<1>4. Held(f) /\ Held(e) /\ KeysOf(r) = {k} BY <1>1 DEF KeysOf, KeyAt
<1>5. /\ f.str = e.str /\ f.list = e.list /\ f.set = e.set /\ f.exp = e.exp
      /\ DOMAIN HashOf(f) = DOMAIN HashOf(e) \cup past
      /\ \A m \in DOMAIN HashOf(e) \ past : HashOf(f)[m] = HashOf(e)[m]
      /\ \A m \in past : \A j \in 1..i - 1 : LastCallOn(args, 1, i, m, j) =>
           HashOf(f)[m] = args[2 * j + 1]
      /\ p.count = Cardinality(past \ DOMAIN HashOf(e))
  BY <1>1 DEF HalfHSet, Hashed
<1>6. f2 = HSetOp(f, g, v) BY <1>3
<1>6a. i \in Nat \ {0} /\ p.count \in Nat BY <1>1
<1>7. g = args[1 + 2 * i - 1]
  <2>1. 1 + 2 * i - 1 = 2 * i BY <1>6a, SMT
  <2> QED BY <1>3, <2>1
<1>8. u[k] = f2 BY <1>1
<1> HIDE DEF u, i, v, args, e, f, past, past2, h, r
<1>9. /\ f2 = [f EXCEPT !.hash = h] /\ HashOf(f2) = h
      /\ DOMAIN h = DOMAIN HashOf(f) \cup {g} /\ h = [m \in DOMAIN h |-> h[m]]
      /\ h[g] = v /\ \A m \in DOMAIN HashOf(f) : m # g => h[m] = HashOf(f)[m]
  <2>1. Held(f) /\ g \in Words /\ v \in Words BY <1>3, <1>4
  <2>2. Extended(f, g, v, f2) BY <1>6, <2>1, HashSet
  <2> QED BY <2>2 DEF Extended, h
<1>10. /\ past2 = past \cup {g} /\ IsFiniteSet(past)
       /\ \A j : LastCallOn(args, 1, i + 1, g, j) => j = i
       /\ \A m, j : m # g /\ LastCallOn(args, 1, i + 1, m, j) => LastCallOn(args, 1, i, m, j)
  <2>1. Grown(args, 1, i, g) BY <1>6a, <1>7, TouchedGrows
  <2> QED BY <2>1 DEF Grown, past, past2
<1>11. /\ f2 = [e EXCEPT !.hash = h]
       /\ f2.str = e.str /\ f2.list = e.list /\ f2.set = e.set /\ f2.exp = e.exp
  <2>1. f \in Slot(Values, Words) /\ e \in Slot(Values, Words) BY <1>4 DEF Held
  <2>2. e.str = f.str /\ e.list = f.list /\ e.set = f.set /\ e.exp = f.exp BY <1>5
  <2>3. LET new == [e EXCEPT !.hash = h]
        IN /\ new = [f EXCEPT !.hash = h]
           /\ new.str = e.str /\ new.list = e.list /\ new.set = e.set /\ new.exp = e.exp
    BY <2>1, <2>2, HashSame, SMT
  <2> QED BY <1>9, <2>3
<1>12. DOMAIN h = DOMAIN HashOf(e) \cup past2 BY <1>5, <1>9, <1>10
<1>13. ASSUME NEW m \in DOMAIN HashOf(e) \ past2 PROVE h[m] = HashOf(e)[m]
  BY <1>5, <1>9, <1>10
<1>14. ASSUME NEW m \in past2, NEW j, LastCallOn(args, 1, i + 1, m, j)
       PROVE  h[m] = args[2 * j + 1]
  <2>1. CASE m = g BY <1>9, <1>10, <1>14, <2>1 DEF v
  <2>2. CASE m # g
    <3>1. m \in past /\ LastCallOn(args, 1, i, m, j) BY <1>10, <1>14, <2>2
    <3>2. j \in 1..i - 1 BY <3>1 DEF LastCallOn
    <3>3. m \in DOMAIN HashOf(f) BY <1>5, <3>1
    <3> QED BY <1>5, <1>9, <2>2, <3>1, <3>2, <3>3
  <2> QED BY <2>1, <2>2
<1>15. n = Cardinality(past2 \ DOMAIN HashOf(e))
  <2>1. g \in DOMAIN HashOf(f) <=> g \in past \cup DOMAIN HashOf(e) BY <1>5
  <2>2. /\ g \in past \cup DOMAIN HashOf(e) => Cardinality(past2 \ DOMAIN HashOf(e)) = p.count
        /\ g \notin past \cup DOMAIN HashOf(e) => Cardinality(past2 \ DOMAIN HashOf(e)) = p.count + 1
    <3> DEFINE D == DOMAIN HashOf(e)
    <3>1. /\ g \in past \cup D => Cardinality((past \cup {g}) \ D) = Cardinality(past \ D)
          /\ g \notin past \cup D => Cardinality((past \cup {g}) \ D) = Cardinality(past \ D) + 1
      <4> HIDE DEF D
      <4> QED BY <1>10, CountsOnce
    <3> QED BY <1>5, <1>10, <3>1
  <2>3. n = p.count + IsNew(g, f) BY DEF f
  <2>4. IsNew(g, f) = IF g \in past \cup DOMAIN HashOf(e) THEN 0 ELSE 1 BY <2>1 DEF IsNew
  <2> QED BY <1>6a, <2>2, <2>3, <2>4, SMT
<1>16. ASSUME LastPair(p, 1) PROVE Finish(r, b, u, Num(n))
  <2>1. i = Calls(r) /\ 1 + 2 * Calls(r) = Len(args) /\ i \in Nat
    BY <1>1, <1>3, <1>16, CallsKind DEF r, args
  <2> DEFINE fv == Assigned(args, 2)
  <2>2. /\ DOMAIN fv = past2
        /\ \A m \in past2 : \E j \in 1..i : LastCallOn(args, 1, i + 1, m, j) /\ fv[m] = args[1 + 2 * j]
    <3>1. Len(args) = 1 + 2 * i /\ 1 \in {0, 1} /\ 1 + 1 = 2 BY <2>1, SMT
    <3>2. Settled(args, 1, i) BY <2>1, <3>1, Finals
    <3> QED BY <3>1, <3>2 DEF Settled, past2
  <2>3. Expected(r, b) = [db |-> [b EXCEPT ![k] = HMSetOp(e, fv)],
                          reply |-> Num(Cardinality(DOMAIN fv \ DOMAIN HashOf(e)))]
    BY DEF Expected, r, args, e
  <2> HIDE DEF fv
  <2>4. HMSetOp(e, fv) = f2
    <3> DEFINE new == [m \in DOMAIN HashOf(e) \cup DOMAIN fv |->
                         IF m \in DOMAIN fv THEN fv[m] ELSE HashOf(e)[m]]
    <3>1. HMSetOp(e, fv) = [e EXCEPT !.hash = new] BY DEF HMSetOp
    <3>2. ASSUME NEW m \in past2 PROVE fv[m] = h[m]
      <4>1. PICK j \in 1..i : LastCallOn(args, 1, i + 1, m, j) /\ fv[m] = args[1 + 2 * j] BY <2>2
      <4>2. 1 + 2 * j = 2 * j + 1 BY SMT
      <4> QED BY <1>14, <4>1, <4>2
    <3>3. new = [m \in DOMAIN h |-> h[m]] BY <1>12, <1>13, <2>2, <3>2
    <3>4. new = h BY <1>9, <3>3
    <3> HIDE DEF new
    <3> QED BY <1>11, <3>1, <3>4
  <2>5. [b EXCEPT ![k] = HMSetOp(e, fv)][k] = f2 BY <1>1, <2>4
  <2>6. Expected(r, b).db[k] = f2 /\ Expected(r, b).reply = Num(n)
    BY <1>15, <2>2, <2>3, <2>5, SMT
  <2> QED BY <1>4, <1>8, <2>6 DEF Finish
<1>17. Hashed(e, f2, args, i + 1, n)
  <2>1. \A m \in past2 : \A j \in 1..(i + 1) - 1 : LastCallOn(args, 1, i + 1, m, j) =>
          HashOf(f2)[m] = args[2 * j + 1]
    BY <1>9, <1>14
  <2>2. \A m \in DOMAIN HashOf(e) \ past2 : HashOf(f2)[m] = HashOf(e)[m] BY <1>9, <1>13
  <2>3. DOMAIN HashOf(f2) = DOMAIN HashOf(e) \cup past2 BY <1>9, <1>12
  <2> QED BY <1>11, <1>15, <2>1, <2>2, <2>3 DEF Hashed, past2
<1>18. Half(x, b, u)
  <2>1. x.req = p.req /\ x.i = p.i + 1 /\ x.count = n BY DEF NextCall
  <2> HIDE DEF x
  <2>2. x.i # 1 /\ x.i = i + 1 /\ x.req.args = args /\ x.req.name = "HSET"
    BY <1>6a, <2>1, SMT DEF i, r, args
  <2>3. k = args[1] BY DEF args, r
  <2>4. HalfHSet(x, b, u) BY <1>8, <1>17, <2>1, <2>2, <2>3 DEF HalfHSet, e
  <2> QED BY <2>2, <2>4, HalfIs
<1> QED BY <1>16, <1>18 DEF u, r

\* A command that has made no call yet.
LEMMA HalfBegins ==
  ASSUME NEW x, x.i = 1, x.count = 0, x.found = << >>, NEW b
  PROVE  Half(x, b, b)
<1>1. \A args : Past(args, 1) = {} BY SMT DEF Past
<1>2. \A args : Touched(args, 1, 1) = {} BY SMT DEF Touched
<1>3. Cardinality({}) = 0 BY FS_EmptySet
<1>4. HalfDel(x, b, b)
  <2>1. {j \in {} : Present(b[j])} = {} OBVIOUS
  <2> QED BY <1>1, <1>3, <2>1 DEF HalfDel
<1>5. HalfIncrBy(x, b, b) /\ HalfRename(x, b, b) /\ HalfType(x, b, b) /\ HalfAppend(x, b, b)
  BY SMT DEF HalfIncrBy, HalfRename, HalfType, HalfAppend
<1>6. HalfMSet(x, b, b) BY SMT DEF HalfMSet
<1>7. HalfMGet(x, b, b) BY SMT DEF HalfMGet
<1>8. HalfHSet(x, b, b)
  <2> DEFINE args == x.req.args
             e == b[args[1]]
  <2>1. Touched(args, 1, 1) \ DOMAIN HashOf(e) = {} BY <1>2
  <2>2. Hashed(e, e, args, 1, 0) BY <1>2, <1>3, <2>1 DEF Hashed
  <2> QED BY <2>2 DEF HalfHSet
<1> QED BY <1>4, <1>5, <1>6, <1>7, <1>8 DEF Half
=============================================================================
