------------------------------ MODULE LockSpec ------------------------------
(* What withLock (app/agent/workflows/mutex/index.ts) promises its callers:  *)
(* "Acquire an exclusive lock on a resource and execute the given function." *)
(* A call asks for the lock once, is inside the critical section at most     *)
(* once, and only while no other call is inside.  How requests are queued,   *)
(* signalled and released is left to Mutex.tla, which implements this.       *)

CONSTANT Calls          \* the withLock calls made on one resource

VARIABLE phase          \* how far each call has got

Phases == {"new", "pending", "inside", "left"}

Init == phase = [c \in Calls |-> "new"]

Ask(c) ==
  /\ phase[c] = "new"
  /\ phase' = [phase EXCEPT ![c] = "pending"]

Enter(c) ==
  /\ phase[c] = "pending"
  /\ \A d \in Calls : phase[d] # "inside"
  /\ phase' = [phase EXCEPT ![c] = "inside"]

(* Calls leave together when their workflow is cancelled or closed.          *)
Leave(C) ==
  /\ C # {}
  /\ phase' = [c \in Calls |-> IF c \in C THEN "left" ELSE phase[c]]

Next ==
  \/ \E c \in Calls : Ask(c) \/ Enter(c)
  \/ \E C \in SUBSET Calls : Leave(C)

Spec == Init /\ [][Next]_phase
=============================================================================
