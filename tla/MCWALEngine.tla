---------------------------- MODULE MCWALEngine -----------------------------
(* Instances of WALEngine for TLC: two clients, one or two keys. *)
EXTENDS WALEngine, TLC

CONSTANTS k1, k2, c1, c2

\* A string with a deadline beside a list, both emptied by FlushAll;
\* and one key written by operations with a count, a collection or several
\* records.
Restart2Keys ==
  k1 :> {"Set", "Del", "Expire", "FlushAll"} @@ k2 :> {"RPush", "LPop"}
CountsAndSets == k1 :> {"Incr", "Decr", "SAdd", "SRem", "SPop"} @@ k2 :> {}
HashesAndLists ==
  k1 :> {"HSet", "HMSet", "HDel", "LPush", "RPush", "LPop", "RPop"} @@ k2 :> {}
RestartLoads == {Restart2Keys, CountsAndSets, HashesAndLists}
OrderLoads == {k1 :> {"Set", "Incr"}}

Values == {Text, Canonical(0)}

\* Nothing is left to check once every key in use is spoiled: spoiled never
\* shrinks.
SomeUnspoiled == \E k \in Keys \ spoiled : load[k] # {}

\* Clients are interchangeable.
Symmetry == Permutations(Clients)
=============================================================================
