--------------------------- MODULE StreamReplica ---------------------------
(***************************************************************************)
(* What a browser's copy of a cache stream promises, however it is kept:    *)
(* a row of the copy only moves to a newer version, never to one that the   *)
(* server has not written, and the watermark only moves forward over        *)
(* changes that the copy already has.                                       *)
(***************************************************************************)
EXTENDS Naturals, Sequences

CONSTANT Entity

VARIABLES log, rowsOf, mark

Has(n) == \A i \in 1..n : rowsOf[log[i]] >= i

ReplicaInit == mark \in 0..Len(log) /\ Has(mark) /\ \A e \in Entity : rowsOf[e] <= Len(log)

ServerChanges ==
  /\ \E e \in Entity : log' = Append(log, e)
  /\ UNCHANGED <<rowsOf, mark>>

RowsMove ==
  /\ \A e \in Entity : rowsOf[e] <= rowsOf'[e] /\ rowsOf'[e] <= Len(log)
  /\ UNCHANGED <<log, mark>>

MarkMoves ==
  /\ mark <= mark' /\ mark' <= Len(log) /\ Has(mark')
  /\ UNCHANGED <<log, rowsOf>>

ReplicaNext == ServerChanges \/ RowsMove \/ MarkMoves

rvars == <<log, rowsOf, mark>>

ReplicaSpec == ReplicaInit /\ [][ReplicaNext]_rvars
=============================================================================
