----------------------------- MODULE MCCommands -----------------------------
(***************************************************************************)
(* Two clients with one command each on two keys: c1 sends a command of    *)
(* several calls or one that reads, c2 one that writes.  The first key     *)
(* begins with each kind of value, expiring and not; the second is a       *)
(* missing key or a string.                                                *)
(***************************************************************************)
EXTENDS Commands, TLC

CONSTANTS k1, k2, c1, c2

Req(name, args) == [name |-> name, args |-> args]
One == Canonical(1)
Two == Canonical(2)

SomeWords == {Text} \cup {Canonical(n) : n \in -1..2}

Composite ==
  {Req("DEL", <<k1, k2>>), Req("DEL", <<k1, k1>>),
   Req("INCRBY", <<k1, Two>>), Req("DECRBY", <<k1, Two>>), Req("INCRBY", <<k1, Canonical(0)>>),
   Req("RENAME", <<k1, k2>>), Req("RENAME", <<k1, k1>>), Req("TYPE", <<k1>>),
   Req("APPEND", <<k1, Text>>), Req("MSET", <<k1, Text, k2, One>>),
   Req("MSET", <<k1, Text, k1, One>>), Req("MSET", <<k1, Text, k2>>),
   Req("MGET", <<k1, k2>>), Req("HSET", <<k1, One, Text, Two, Text>>),
   Req("HSET", <<k1, One, Text, One, Two>>)}

Writes ==
  {Req("SET", <<k1, Text>>), Req("INCR", <<k1>>), Req("DECR", <<k1>>),
   Req("EXPIRE", <<k1, One>>), Req("EXPIRE", <<k1, Canonical(0)>>), Req("PERSIST", <<k1>>),
   Req("LPUSH", <<k1, One, Two>>), Req("RPUSH", <<k1, One>>), Req("LPOP", <<k1>>),
   Req("RPOP", <<k1>>), Req("SADD", <<k1, One>>), Req("SREM", <<k1, One>>),
   Req("SPOP", <<k1>>), Req("HDEL", <<k1, One>>), Req("HMSET", <<k1, One, Two, One, One>>),
   Req("DEL", <<k1>>), Req("RENAME", <<k2, k1>>), Req("HSET", <<k1, One, One>>)}

Reads ==
  {Req("GET", <<k1>>), Req("EXISTS", <<k1>>), Req("TTL", <<k1>>), Req("STRLEN", <<k1>>),
   Req("LLEN", <<k1>>), Req("LRANGE", <<k1, Canonical(0), Canonical(-1)>>),
   Req("LINDEX", <<k1, Canonical(-1)>>), Req("SMEMBERS", <<k1>>),
   Req("SISMEMBER", <<k1, One>>), Req("SCARD", <<k1>>), Req("SRANDMEMBER", <<k1>>),
   Req("HGET", <<k1, One>>), Req("HGETALL", <<k1>>), Req("HKEYS", <<k1>>),
   Req("HVALS", <<k1>>), Req("HEXISTS", <<k1, One>>), Req("HLEN", <<k1>>),
   Req("HMGET", <<k1, One, Two>>), Req("EXPIRE", <<k1, Canonical(-1)>>)}

TwoClients == c1 :> (Composite \cup Reads) @@ c2 :> (Writes \cup {Req("GET", <<k1>>)})

String(v) == [EmptySlot EXCEPT !.str = v]
Until(e, t) == [e EXCEPT !.exp = t]
List == [EmptySlot EXCEPT !.list = <<One, Two>>]
Hash == [EmptySlot EXCEPT !.hash = One :> Text]

Firsts ==
  {EmptySlot, String(Canonical(MaxInt)), String(Padded(-MaxInt)), Until(String(Text), 0),
   List, [EmptySlot EXCEPT !.set = {One}], Hash, Until(Hash, 0), [List EXCEPT !.str = Text]}

SomeContents ==
  {k1 :> first @@ k2 :> second : first \in Firsts, second \in {EmptySlot, String(One)}}
=============================================================================
