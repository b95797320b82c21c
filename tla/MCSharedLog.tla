---------------------------- MODULE MCSharedLog ----------------------------
(* Small instances of the shared log. *)
EXTENDS SharedLog

Kind(method, limit, keep, canLock, mayFail) ==
  [method |-> method, limit |-> limit, keep |-> keep, canLock |-> canLock, faults |-> mayFail]

(* A trimmed log, a rotated log with and without a holder that hangs, and  *)
(* a log without a rule where nobody can lock.                             *)
AllLogs ==
  {Kind("line-count", 2, 2, TRUE, {"short", "died", "rule"}),
   Kind("size-rotation", 3, 1, TRUE, {"short", "rule", "timeout"}),
   Kind("size-rotation", 3, 1, TRUE, {"timeout", "hung"}),
   Kind("none", 0, 1, FALSE, {"short", "died"})}

=============================================================================
