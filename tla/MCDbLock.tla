------------------------------ MODULE MCDbLock ------------------------------
(* DbLock on two processes: the web server with two concurrent               *)
(* requests (t1, t2) and a worker with one job (t3).                         *)
EXTENDS DbLock

CONSTANTS web, worker, t1, t2, t3, global, tournamentKey

MCProcOf    == [t \in Txn |-> IF t = t3 THEN worker ELSE web]
MCLockKeys  == [t \in Txn |-> IF t = t3 THEN {} ELSE {tournamentKey}]
MCMaxRounds == [t \in Txn |-> IF t = t2 THEN 2 ELSE 1]
=============================================================================
