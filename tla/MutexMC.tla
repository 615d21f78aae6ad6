------------------------------ MODULE MutexMC -------------------------------
(* Small instances of Mutex for TLC: workflow w1 makes two calls (withLock   *)
(* may run several times in one workflow, even concurrently), w2 one.        *)
EXTENDS Mutex

CONSTANTS w1, w2, c1, c2, c3

MCWorkflows == {w1, w2}
MCCalls     == {c1, c2, c3}
MCInitiatorOf == [c \in MCCalls |-> IF c = c3 THEN w2 ELSE w1]
MCNone      == {}
=============================================================================
