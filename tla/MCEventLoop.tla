---------------------------- MODULE MCEventLoop ----------------------------
(* Instance of EventLoop for TLC: a lock of level 2; any other semaphore lets *)
(* in two threads and has level 1.                                            *)
EXTENDS EventLoop

CONSTANT mutex

LockMax == [l \in Lock |-> IF l = mutex THEN 1 ELSE 2]
LockSecure == [l \in Lock |-> IF l = mutex THEN 2 ELSE 1]

=============================================================================
