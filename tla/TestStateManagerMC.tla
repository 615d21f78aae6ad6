------------------------- MODULE TestStateManagerMC -------------------------
(* A test process with one test, two of whose initialisers ask for a         *)
(* database, and a third one for its block registry to be watched.           *)
EXTENDS TestStateManager

CONSTANTS p1, t1, d1, d2, w1

MCConns == {p1}
MCRuns == {t1}
MCDatabases == {d1, d2}
MCWatches == {w1}
MCConnOf == [r \in MCRuns |-> p1]
MCRunOf == [x \in {d1, d2, w1} |-> t1]
=============================================================================
