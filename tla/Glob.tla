-------------------------------- MODULE Glob --------------------------------
(***************************************************************************)
(* core/store/store.go: matchPattern, the patterns of KEYS, and what they  *)
(* mean.  Characters are their codes.                                      *)
(***************************************************************************)
EXTENDS Integers, Sequences

Star == 42
AnyOne == 63
Open == 91
Close == 93
Dash == 45

\* What is left of a string from position i on.
From(s, i) == SubSeq(s, i, Len(s))

\* pattern[1:end] where pattern begins with a bracket and end is its first "]";
\* 0 if there is none.
ClassEnd(pattern) ==
  LET ends == {j \in 2..Len(pattern) : pattern[j] = Close}
  IN IF ends = {} THEN 0 ELSE CHOOSE j \in ends : \A l \in ends : j <= l

\* The loop over the characters of a class, from j on.
InClass(class, ch) ==
  LET loop[j \in 1..Len(class) + 1] ==
        IF j > Len(class) THEN FALSE
        ELSE IF j + 2 <= Len(class) /\ class[j + 1] = Dash
        THEN (ch >= class[j] /\ ch <= class[j + 2]) \/ loop[j + 3]
        ELSE class[j] = ch \/ loop[j + 1]
  IN loop[1]

RECURSIVE globMatch(_, _)

\* Faulty variant: the star does not reach the end of the string.
StarMatchShort(rest, str) == \E i \in 1..Len(str) : globMatch(rest, From(str, i))

\* A star takes any number of characters.
StarMatch(rest, str) == \E i \in 1..Len(str) + 1 : globMatch(rest, From(str, i))

globMatch(pattern, str) ==
  IF pattern = << >> THEN str = << >>
  ELSE CASE pattern[1] = Star -> Len(pattern) = 1 \/ StarMatch(Tail(pattern), str)
         [] pattern[1] = AnyOne -> str # << >> /\ globMatch(Tail(pattern), Tail(str))
         [] pattern[1] = Open ->
              LET end == ClassEnd(pattern)
              IN IF end = 0 THEN pattern = str
                 ELSE /\ str # << >> /\ InClass(SubSeq(pattern, 2, end - 1), str[1])
                      /\ globMatch(From(pattern, end + 1), Tail(str))
         [] OTHER ->
              str # << >> /\ pattern[1] = str[1] /\ globMatch(Tail(pattern), Tail(str))

matchPattern(pattern, key) == pattern = <<Star>> \/ globMatch(pattern, key)
-----------------------------------------------------------------------------
(***************************************************************************)
(* The meaning of a pattern: a sequence of items, each a star or a set of  *)
(* characters, and a string matches if it can be cut into as many pieces,  *)
(* one character of the set for a set and any piece for a star.            *)
(***************************************************************************)
\* Where the ranges of a class begin: at "x-y", unless that is within a range
\* that began before.
RangeStarts(class) ==
  LET at == {j \in 1..Len(class) - 2 : class[j + 1] = Dash}
  IN CHOOSE rs \in SUBSET at :
       \A j \in at : j \in rs <=> \A l \in rs : l >= j \/ l + 2 < j

\* A class stands for its ranges and for the characters outside of them.
ClassSet(class) ==
  LET rs == RangeStarts(class)
  IN UNION {class[j]..class[j + 2] : j \in rs}
       \cup {class[i] : i \in {l \in 1..Len(class) : \A j \in rs : l \notin j..j + 2}}

RECURSIVE Items(_, _)
Items(pattern, chars) ==
  IF pattern = << >> THEN << >>
  ELSE LET one(p, set, rest) == <<[star |-> p, set |-> set]>> \o Items(rest, chars)
       IN CASE pattern[1] = Star -> one("yes", {}, Tail(pattern))
            [] pattern[1] = AnyOne -> one("no", chars, Tail(pattern))
            [] pattern[1] = Open /\ ClassEnd(pattern) > 0 ->
                 one("no", ClassSet(SubSeq(pattern, 2, ClassEnd(pattern) - 1)),
                     From(pattern, ClassEnd(pattern) + 1))
            [] pattern[1] = Open ->
                 [i \in 1..Len(pattern) |-> [star |-> "no", set |-> {pattern[i]}]]
            [] OTHER -> one("no", {pattern[1]}, Tail(pattern))

Means(pattern, key, chars) ==
  LET items == Items(pattern, chars)
      n == Len(items)
  IN \E cut \in [0..n -> 0..Len(key)] :
       /\ cut[0] = 0 /\ cut[n] = Len(key)
       /\ \A i \in 1..n :
            IF items[i].star = "yes" THEN cut[i] >= cut[i - 1]
            ELSE cut[i] = cut[i - 1] + 1 /\ key[cut[i]] \in items[i].set
=============================================================================
