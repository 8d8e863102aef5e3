------------------------------ MODULE RowBatch ------------------------------
(* What the row executor promises the decoder: batches of rows, one caller at  *)
(* a time. A call is owed every row of its own window and returns when none is *)
(* owed any more; the rows of another call never settle the debt.              *)
CONSTANTS Callers, Rows, Nobody

VARIABLES
  caller,  \* whose window is being decoded
  owed     \* its rows that are not decoded yet

vars == <<caller, owed>>

Init == caller = Nobody /\ owed = {}

Begin(c) ==
  /\ caller = Nobody
  /\ caller' = c /\ owed' = Rows

Row(r) ==
  /\ caller # Nobody /\ r \in owed
  /\ owed' = owed \ {r}
  /\ UNCHANGED caller

Return ==
  /\ caller # Nobody /\ owed = {}
  /\ caller' = Nobody
  /\ UNCHANGED owed

Next ==
  \/ \E c \in Callers : Begin(c)
  \/ \E r \in Rows : Row(r)
  \/ Return

Spec == Init /\ [][Next]_vars
=============================================================================
