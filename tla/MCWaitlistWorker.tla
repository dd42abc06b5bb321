-------------------------- MODULE MCWaitlistWorker --------------------------
(* Small instances of WaitlistWorker for TLC.                              *)
EXTENDS WaitlistWorker, TLC

CONSTANTS u1, u2, u3, t1

OneSession == {"s1"}
\* Three ticks before the start: no reminder is ever opened.
OneStart == [s1 |-> 3]
OneUnit == [s1 |-> "unit"]
AllQualified == Teachers \X {"unit"}
AnySession == Teachers \X Sessions

============================================================================
