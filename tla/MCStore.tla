------------------------------ MODULE MCStore -------------------------------
(* Instances of Store for TLC: one or two keys in as many shards. *)
EXTENDS Store, TLC

CONSTANTS k1, k2, c1

OneShard == k1 :> 1
TwoShards == k1 :> 2 @@ k2 :> 1

\* Between them the keys meet every operation: one is a string and a list, the
\* other, which has no deadline, a set and a hash.
AllOps ==
  k1 :> {"Set", "Del", "Expire", "Incr", "List", "Get", "Exists", "Reads"}
    @@ k2 :> {"Sets", "Hash"}
RaceOps == k1 :> {"Set", "Expire", "Get"}

OneValue == {Text}

OneTick == {0}
=============================================================================
