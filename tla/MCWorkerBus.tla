----------------------------- MODULE MCWorkerBus -----------------------------
(* Model values and tables for WorkerBus. *)
EXTENDS WorkerBus

CONSTANTS t1, t2, t3, p1, p2, y1

OneType      == [t \in Tasks |-> y1]
LowLast      == [t \in Tasks |-> CASE t = t1 -> Critical [] t = t2 -> Normal [] OTHER -> Low]
ServesAll    == [p \in Pools |-> Tasks]
OwnPool      == [p \in Pools |-> IF p = p1 THEN {t1, t2} ELSE {t3}]
OneWorker    == [p \in Pools |-> 1]
NoMinimum    == [p \in Pools |-> 0]
=============================================================================
