----------------------------- MODULE ListRange ------------------------------
(***************************************************************************)
(* LRange and LIndex of core/store/store.go on one list.  Positions count  *)
(* from 0, negative ones from the end; the code moves them into the list   *)
(* one comparison after the other.                                         *)
(***************************************************************************)
EXTENDS Integers, Sequences

\* if start < 0 { start = llen + start }, and the same for stop and index.
FromEnd(n, i) == IF i < 0 THEN n + i ELSE i

\* start and stop as they are when the list is cut.
Start(n, start) == IF FromEnd(n, start) < 0 THEN 0 ELSE FromEnd(n, start)
Stop(n, stop) == IF FromEnd(n, stop) >= n THEN n - 1 ELSE FromEnd(n, stop)

\* Faulty variant: the element at stop is left out.
LRangeExclusive(l, start, stop) ==
  LET a == Start(Len(l), start)
      b == Stop(Len(l), stop)
  IN IF Len(l) = 0 \/ a > b THEN << >> ELSE SubSeq(l, a + 1, b)

LRange(l, start, stop) ==
  LET a == Start(Len(l), start)
      b == Stop(Len(l), stop)
  IN IF Len(l) = 0 \/ a > b THEN << >> ELSE SubSeq(l, a + 1, b + 1)

\* LIndex: the element, or nothing where it returns an error.
LIndex(l, index) ==
  LET i == FromEnd(Len(l), index)
  IN IF Len(l) = 0 \/ i < 0 \/ i >= Len(l) THEN << >> ELSE <<l[i + 1]>>
-----------------------------------------------------------------------------
\* The positions of l from start to stop.
Between(l, start, stop) ==
  {p \in 0..(Len(l) - 1) : FromEnd(Len(l), start) <= p /\ p <= FromEnd(Len(l), stop)}

\* r holds the elements of l at the positions from start to stop, in order.
RangeOf(r, l, start, stop) ==
  \E lo \in 0..Len(l) :
    /\ Between(l, start, stop) = lo..(lo + Len(r) - 1)
    /\ \A i \in 1..Len(r) : r[i] = l[lo + i]
=============================================================================
