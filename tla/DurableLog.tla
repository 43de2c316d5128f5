----------------------------- MODULE DurableLog -----------------------------
(***************************************************************************)
(* What the write-ahead log promises its callers, with no files, batches   *)
(* or segments in sight.  The log is the set of records that a restart     *)
(* would replay (a record is named by the position of its Write call, and  *)
(* replay runs through the names in increasing order).  A record joins the *)
(* log behind all the others, a Write is acknowledged only for a record    *)
(* that is in the log, and a crash may drop any record but an              *)
(* acknowledged one.                                                       *)
(***************************************************************************)
EXTENDS Naturals

CONSTANT Ids            \* the names of the Write calls, in call order

VARIABLES log,          \* the records that a restart would replay
          acked         \* the records whose Write returned nil

Init == log = {} /\ acked = {}

\* A record reaches the log, behind every record that is there already.
Append(id) ==
  /\ \A other \in log : other < id
  /\ log' = log \cup {id}
  /\ UNCHANGED acked

\* A Write returns nil; its record is in the log.
Acknowledge(id) ==
  /\ id \in log
  /\ acked' = acked \cup {id}
  /\ UNCHANGED log

\* A crash forgets some of the records nobody was told about.
Crash ==
  /\ \E kept \in SUBSET log : acked \subseteq kept /\ log' = kept
  /\ UNCHANGED acked

Next == (\E id \in Ids : Append(id) \/ Acknowledge(id)) \/ Crash

Spec == Init /\ [][Next]_<<log, acked>>
=============================================================================
