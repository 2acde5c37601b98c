-------------------------- MODULE MCQueryExecution --------------------------
(* A small instance of QueryExecution for TLC.  The limit is scaled down so *)
(* that the tenth of ten short rows exceeds it by the second digit of the  *)
(* row count alone.                                                        *)
EXTENDS QueryExecution

Short == <<[kind |-> "text", raw |-> 1, extra |-> 0, again |-> 2]>>
Long == <<[kind |-> "text", raw |-> 70, extra |-> 2, again |-> 6]>>
Binary == <<[kind |-> "binary", raw |-> 18, extra |-> 1, again |-> 3]>>

Rows == {Short, Long, Binary}
Fixed == {20, 85}
===========================================================================
